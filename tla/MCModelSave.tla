----------------------------- MODULE MCModelSave -----------------------------
(* An instance of ModelSave for TLC. *)
EXTENDS ModelSave

CONSTANTS order, customer, part, maker, note

(* An order belongs to a customer and has a part; the part belongs to a    *)
(* maker and has a note.                                                   *)
MCParents == [r \in Recs |-> IF r = order THEN <<customer>>
                             ELSE IF r = part THEN <<maker>> ELSE <<>>]
MCChildren == [r \in Recs |-> IF r = order THEN <<part>>
                              ELSE IF r = part THEN <<note>> ELSE <<>>]
MCResultsets == {<<part, customer>>}
=============================================================================
