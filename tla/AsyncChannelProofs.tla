------------------------- MODULE AsyncChannelProofs -------------------------
(***************************************************************************)
(* Proofs about the channels of ext/async/channel.c: nobody waits out of   *)
(* reach, senders meet receivers, messages keep their order and arrive     *)
(* once.                                                                   *)
(*                                                                         *)
(* A step does many things to fibers, iterators and groups, and only one   *)
(* of a few things to messages.  EveryStepOK shows, action by action, that *)
(* the lists of receivers stay right and which of these it is; all that    *)
(* follows is about the few kinds (MsgsStep), not the actions.             *)
(***************************************************************************)
EXTENDS AsyncChannel, SequenceTheorems, FiniteSetTheorems, TLAPS

-----------------------------------------------------------------------------
(* Lists.                                                                  *)

(* The first j elements of a sequence.                                     *)
LEMMA CutIs ==
  ASSUME NEW S, NEW p \in Seq(S), NEW j \in 0 .. Len(p)
  PROVE  /\ SubSeq(p, 1, j) \in Seq(S) /\ Len(SubSeq(p, 1, j)) = j
         /\ \A i \in 1 .. j : SubSeq(p, 1, j)[i] = p[i]
<1>1. \A i \in 1 .. j : p[i] \in S
  OBVIOUS
<1>2. 1 \in Int /\ j \in Int /\ j - 1 + 1 = j
  OBVIOUS
<1>3. /\ SubSeq(p, 1, j) \in Seq(S)
      /\ Len(SubSeq(p, 1, j)) = IF 1 <= j THEN j - 1 + 1 ELSE 0
      /\ \A i \in 1 .. j - 1 + 1 : SubSeq(p, 1, j)[i] = p[1 + i - 1]
  BY <1>1, <1>2, SubSeqProperties
<1> QED
  BY <1>3

(* A sequence without its i-th element.                                    *)
LEMMA WithoutIs ==
  ASSUME NEW S, NEW p \in Seq(S), NEW i \in 1 .. Len(p)
  PROVE  /\ RemoveAt(p, i) \in Seq(S) /\ Len(RemoveAt(p, i)) = Len(p) - 1
         /\ \A j \in 1 .. Len(p) - 1 :
              RemoveAt(p, i)[j] = IF j < i THEN p[j] ELSE p[j + 1]
<1> DEFINE a == SubSeq(p, 1, i - 1)
           b == SubSeq(p, i + 1, Len(p))
           n == Len(p)
<1>0. n \in Nat /\ i \in Nat /\ 1 <= i /\ i <= n
  OBVIOUS
<1>1. /\ a \in Seq(S) /\ Len(a) = i - 1
      /\ \A j \in 1 .. i - 1 : a[j] = p[j]
  BY <1>0, CutIs
<1>2. \A j \in i + 1 .. n : p[j] \in S
  BY <1>0
<1>3. /\ b \in Seq(S)
      /\ Len(b) = IF i + 1 <= n THEN n - (i + 1) + 1 ELSE 0
      /\ \A j \in 1 .. n - (i + 1) + 1 : b[j] = p[i + 1 + j - 1]
  <2>1. i + 1 \in Int /\ n \in Int
    BY <1>0
  <2> QED
    BY <1>2, <2>1, SubSeqProperties
<1>4. RemoveAt(p, i) = a \o b
  BY DEF RemoveAt
<1> HIDE DEF a, b
<1>5. /\ a \o b \in Seq(S) /\ Len(a \o b) = Len(a) + Len(b)
      /\ \A j \in 1 .. Len(a) + Len(b) :
           (a \o b)[j] = IF j <= Len(a) THEN a[j] ELSE b[j - Len(a)]
  BY <1>1, <1>3, ConcatProperties
<1>6. Len(b) = n - i /\ Len(a) + Len(b) = n - 1
  BY <1>0, <1>1, <1>3
<1>7. ASSUME NEW j \in 1 .. n - 1
      PROVE  (a \o b)[j] = IF j < i THEN p[j] ELSE p[j + 1]
  <2>1. (a \o b)[j] = IF j <= i - 1 THEN a[j] ELSE b[j - (i - 1)]
    BY <1>1, <1>5, <1>6
  <2>2. CASE j < i
    BY <1>0, <1>1, <2>1, <2>2
  <2>3. CASE ~(j < i)
    <3>1. j - (i - 1) \in 1 .. n - (i + 1) + 1 /\ i + 1 + (j - (i - 1)) - 1 = j + 1
      BY <1>0, <2>3
    <3>2. b[j - (i - 1)] = p[j + 1]
      BY <1>3, <3>1
    <3> QED
      BY <1>0, <2>1, <2>3, <3>2
  <2> QED
    BY <2>2, <2>3
<1> QED
  BY <1>4, <1>5, <1>6, <1>7

(* No element twice. *)
Distinct(s) == \A i, j \in DOMAIN s : s[i] = s[j] => i = j

(* Messages in the order of the calls that sent them. *)
Rising(s) == \A i, j \in DOMAIN s : i < j => s[i] < s[j]

(* A sequence is empty, or its head and its tail hold its elements. *)
LEMMA TailHolds ==
  ASSUME NEW S, NEW s \in Seq(S), s # <<>>
  PROVE  /\ Head(s) \in S /\ Tail(s) \in Seq(S) /\ Len(Tail(s)) = Len(s) - 1
         /\ \A x : Contains(s, x) <=> x = Head(s) \/ Contains(Tail(s), x)
         /\ Distinct(s) => Distinct(Tail(s)) /\ ~Contains(Tail(s), Head(s))
         /\ S \subseteq Int /\ Rising(s) =>
              /\ Rising(Tail(s))
              /\ \A x : Contains(Tail(s), x) => Head(s) < x
<1> DEFINE t == Tail(s)
<1>1. PICK n \in Nat : Len(s) = n /\ n > 0
  BY EmptySeq
<1>2. /\ t \in Seq(S) /\ Head(s) \in S /\ Head(s) = s[1]
      /\ Len(t) = n - 1 /\ DOMAIN t = 1 .. n - 1 /\ DOMAIN s = 1 .. n
      /\ \A i \in 1 .. n - 1 : t[i] = s[i + 1]
      /\ \A i \in 1 .. n : s[i] \in S
  BY <1>1, HeadTailProperties
<1> HIDE DEF t
<1>3. ASSUME NEW x PROVE Contains(s, x) <=> x = Head(s) \/ Contains(t, x)
  <2>1. Contains(s, x) <=> \E i \in 1 .. n : s[i] = x
    BY <1>1 DEF Contains
  <2>2. Contains(t, x) <=> \E i \in 1 .. n - 1 : s[i + 1] = x
    BY <1>2 DEF Contains
  <2>3. ASSUME NEW i \in 1 .. n, s[i] = x PROVE x = Head(s) \/ Contains(t, x)
    <3>1. CASE i = 1
      BY <1>2, <2>3, <3>1
    <3>2. CASE i # 1
      <4>1. i - 1 \in 1 .. n - 1 /\ (i - 1) + 1 = i
        BY <1>1, <3>2
      <4> QED
        BY <2>2, <2>3, <4>1
    <3> QED
      BY <3>1, <3>2
  <2>4. ASSUME NEW i \in 1 .. n - 1, s[i + 1] = x PROVE Contains(s, x)
    BY <1>1, <2>1, <2>4
  <2>5. x = Head(s) => Contains(s, x)
    BY <1>1, <1>2, <2>1
  <2> QED
    BY <2>1, <2>2, <2>3, <2>4, <2>5
<1>4. ASSUME Distinct(s) PROVE Distinct(t) /\ ~Contains(t, Head(s))
  <2>1. \A i \in 1 .. n - 1 : s[i + 1] # s[1]
    BY <1>1, <1>2, <1>4 DEF Distinct
  <2>2. ~Contains(t, Head(s))
    BY <1>2, <2>1 DEF Contains
  <2>3. ASSUME NEW i \in 1 .. n - 1, NEW j \in 1 .. n - 1, t[i] = t[j] PROVE i = j
    <3>1. s[i + 1] = s[j + 1] /\ i + 1 \in 1 .. n /\ j + 1 \in 1 .. n
      BY <1>1, <1>2, <2>3
    <3>2. i + 1 = j + 1
      BY <1>2, <1>4, <3>1 DEF Distinct
    <3> QED
      BY <3>2
  <2> QED
    BY <1>2, <2>2, <2>3 DEF Distinct
<1>5. ASSUME S \subseteq Int, Rising(s)
      PROVE  Rising(t) /\ \A x : Contains(t, x) => Head(s) < x
  <2>1. \A i \in 1 .. n - 1 : s[1] < s[i + 1]
    BY <1>1, <1>2, <1>5 DEF Rising
  <2>2. \A x : Contains(t, x) => Head(s) < x
    BY <1>2, <2>1 DEF Contains
  <2>3. ASSUME NEW i \in 1 .. n - 1, NEW j \in 1 .. n - 1, i < j PROVE t[i] < t[j]
    <3>1. i + 1 \in 1 .. n /\ j + 1 \in 1 .. n /\ i + 1 < j + 1
      BY <1>1, <2>3
    <3>2. s[i + 1] < s[j + 1]
      BY <1>2, <1>5, <3>1 DEF Rising
    <3> QED
      BY <1>2, <3>2
  <2> QED
    BY <1>2, <2>2, <2>3 DEF Rising
<1> QED
  BY <1>1, <1>2, <1>3, <1>4, <1>5 DEF t

(* A sequence with one more element. *)
LEMMA AppendHolds ==
  ASSUME NEW S, NEW s \in Seq(S), NEW e \in S
  PROVE  /\ Append(s, e) \in Seq(S) /\ Append(s, e) # <<>>
         /\ Len(Append(s, e)) = Len(s) + 1
         /\ \A x : Contains(Append(s, e), x) <=> x = e \/ Contains(s, x)
         /\ Distinct(s) /\ ~Contains(s, e) => Distinct(Append(s, e))
         /\ /\ S \subseteq Int /\ Rising(s)
            /\ \A x \in S : Contains(s, x) => x < e
            => Rising(Append(s, e))
<1> DEFINE t == Append(s, e)
<1>1. PICK n \in Nat : Len(s) = n
  OBVIOUS
<1>2. /\ t \in Seq(S) /\ t # <<>> /\ Len(t) = n + 1 /\ t[n + 1] = e
      /\ DOMAIN s = 1 .. n /\ DOMAIN t = 1 .. n + 1
      /\ \A i \in 1 .. n : t[i] = s[i] /\ s[i] \in S
  BY <1>1, AppendProperties
<1> HIDE DEF t
<1>3. ASSUME NEW x PROVE Contains(t, x) <=> x = e \/ Contains(s, x)
  <2>1. \A i \in 1 .. n + 1 : i \in 1 .. n \/ i = n + 1
    BY <1>1
  <2>2. \A i \in 1 .. n : i \in 1 .. n + 1
    BY <1>1
  <2>3. n + 1 \in 1 .. n + 1
    BY <1>1
  <2> QED
    BY <1>1, <1>2, <2>1, <2>2, <2>3 DEF Contains
<1>4. ASSUME Distinct(s), ~Contains(s, e) PROVE Distinct(t)
  <2>1. \A i \in 1 .. n : s[i] # e
    BY <1>1, <1>4 DEF Contains
  <2> QED
    BY <1>1, <1>2, <1>4, <2>1 DEF Distinct
<1>5. ASSUME S \subseteq Int, Rising(s), \A x \in S : Contains(s, x) => x < e
      PROVE  Rising(t)
  <2>1. \A i \in 1 .. n : s[i] < e
    BY <1>1, <1>2, <1>5 DEF Contains
  <2> QED
    BY <1>1, <1>2, <1>5, <2>1 DEF Rising
<1> QED
  BY <1>1, <1>2, <1>3, <1>4, <1>5 DEF t

(* A list without one element. *)
Less(s, x) == IF Contains(s, x) THEN RemoveAt(s, At(s, x)) ELSE s

(* What ASYNC_RESET_OP and ASYNC_FREE_OP leave of a list. *)
LEMMA LessHolds ==
  ASSUME NEW S, NEW s \in Seq(S), NEW x, Distinct(s)
  PROVE  /\ Less(s, x) \in Seq(S) /\ Distinct(Less(s, x))
         /\ \A y : Contains(Less(s, x), y) <=> Contains(s, y) /\ y # x
         /\ S \subseteq Int /\ Rising(s) => Rising(Less(s, x))
<1>1. CASE ~Contains(s, x)
  BY <1>1 DEF Less
<1>2. CASE Contains(s, x)
  <2> DEFINE t == RemoveAt(s, At(s, x))
  <2>1. PICK n \in Nat : Len(s) = n
    OBVIOUS
  <2>2. DOMAIN s = 1 .. n /\ \A i \in 1 .. n : s[i] \in S
    BY <2>1
  <2>3. PICK k \in 1 .. n : k = At(s, x) /\ s[k] = x
    BY <1>2, <2>1, <2>2 DEF Contains, At
  <2>4. /\ t \in Seq(S) /\ Len(t) = n - 1
        /\ \A j \in 1 .. n - 1 : t[j] = IF j < k THEN s[j] ELSE s[j + 1]
    BY <2>1, <2>3, WithoutIs
  <2> HIDE DEF t
  <2>5. DOMAIN t = 1 .. n - 1
    BY <2>4
  <2>6. ASSUME NEW y PROVE Contains(t, y) <=> Contains(s, y) /\ y # x
    <3>1. ASSUME NEW j \in 1 .. n - 1, t[j] = y PROVE Contains(s, y) /\ y # x
      <4> DEFINE i == IF j < k THEN j ELSE j + 1
      <4>1. i \in 1 .. n /\ i # k /\ s[i] = y
        BY <2>1, <2>3, <2>4, <3>1
      <4> HIDE DEF i
      <4> QED
        BY <1>2, <2>1, <2>2, <2>3, <4>1 DEF Contains, Distinct
    <3>2. ASSUME NEW i \in 1 .. n, s[i] = y, y # x PROVE Contains(t, y)
      <4>1. CASE i < k
        <5>1. i \in 1 .. n - 1 /\ t[i] = y
          BY <2>1, <2>3, <2>4, <3>2, <4>1
        <5> QED
          BY <2>4, <5>1 DEF Contains
      <4>2. CASE i > k
        <5>1. i - 1 \in 1 .. n - 1 /\ ~(i - 1 < k) /\ (i - 1) + 1 = i
          BY <2>1, <2>3, <4>2
        <5>2. t[i - 1] = y
          BY <2>4, <3>2, <5>1
        <5> QED
          BY <2>4, <5>1, <5>2 DEF Contains
      <4>3. i # k
        BY <2>3, <3>2
      <4> QED
        BY <2>1, <4>1, <4>2, <4>3
    <3> QED
      BY <2>1, <2>4, <3>1, <3>2 DEF Contains
  <2>7. Distinct(t)
    <3> SUFFICES ASSUME NEW i \in 1 .. n - 1, NEW j \in 1 .. n - 1, t[i] = t[j]
                 PROVE  i = j
      BY <2>5 DEF Distinct
    <3> DEFINE a == IF i < k THEN i ELSE i + 1
               b == IF j < k THEN j ELSE j + 1
    <3>1. a \in 1 .. n /\ b \in 1 .. n /\ s[a] = s[b]
      BY <2>1, <2>3, <2>4
    <3>2. a = b
      BY <2>2, <3>1 DEF Distinct
    <3> QED
      BY <2>1, <2>3, <3>2
  <2>8. ASSUME S \subseteq Int, Rising(s) PROVE Rising(t)
    <3> SUFFICES ASSUME NEW i \in 1 .. n - 1, NEW j \in 1 .. n - 1, i < j
                 PROVE  t[i] < t[j]
      BY <2>5 DEF Rising
    <3> DEFINE a == IF i < k THEN i ELSE i + 1
               b == IF j < k THEN j ELSE j + 1
    <3>1. a \in 1 .. n /\ b \in 1 .. n /\ a < b /\ t[i] = s[a] /\ t[j] = s[b]
      BY <2>1, <2>3, <2>4
    <3> HIDE DEF a, b
    <3> QED
      BY <2>2, <2>8, <3>1 DEF Rising
  <2> QED
    BY <1>2, <2>4, <2>6, <2>7, <2>8 DEF Less, t
<1> QED
  BY <1>1, <1>2

(* Sent in order is never twice. *)
LEMMA RisingDistinct ==
  ASSUME NEW S, S \subseteq Int, NEW s \in Seq(S), Rising(s)
  PROVE  Distinct(s)
<1>1. PICK n \in Nat : Len(s) = n
  BY LenProperties
<1>2. DOMAIN s = 1 .. n /\ \A i \in 1 .. n : s[i] \in Int
  BY <1>1, LenProperties, ElementOfSeq
<1>3. \A i, j \in 1 .. n : i < j => s[i] < s[j]
  BY <1>2 DEF Rising
<1>4. ASSUME NEW i \in 1 .. n, NEW j \in 1 .. n, s[i] = s[j] PROVE i = j
  <2>1. ~(i < j) /\ ~(j < i)
    BY <1>2, <1>3, <1>4
  <2> QED
    BY <2>1
<1> QED
  BY <1>2, <1>4 DEF Distinct

(* The empty list is the one that holds nothing. *)
LEMMA EmptyHolds ==
  ASSUME NEW S, NEW s \in Seq(S)
  PROVE  /\ s = <<>> <=> \A x \in S : ~Contains(s, x)
         /\ s = <<>> => Len(s) = 0
         /\ \A x : Contains(s, x) => x \in S
<1>1. Len(s) \in Nat /\ \A i \in 1 .. Len(s) : s[i] \in S
  OBVIOUS
<1>2. s = <<>> <=> Len(s) = 0
  BY EmptySeq
<1>3. Len(s) > 0 => Contains(s, s[1]) /\ s[1] \in S
  BY <1>1 DEF Contains
<1> QED
  BY <1>1, <1>2, <1>3 DEF Contains

-----------------------------------------------------------------------------
(* The invariant of the lists.                                             *)

(* One list of that kind of elements for every channel. *)
ListsOf(lists, S) == lists \in [Chans -> Seq(S)]

(* The scheduler's part of the type invariant. *)
SchedTyped == running \in Fibers \cup {Loop} /\ stack \in Seq(Fibers)

(* The fibers' part of it. *)
FibersTyped ==
  /\ mode \in [Fibers -> Modes]
  /\ closes \in [Fibers -> Chans \cup {None}]
  /\ loop \in [Fibers -> Chans \cup {None}]
  /\ fresh \in [Fibers -> BOOLEAN]
  /\ group \in [Grouped -> SUBSET Chans]

(* The messages' part of it. *)
MsgsTyped ==
  /\ ListsOf(buffer, Msgs) /\ ListsOf(senders, Msgs) /\ ListsOf(got, Msgs)
  /\ msg \in [Fibers -> 0 .. MaxMsgs]
  /\ sent \in 0 .. MaxMsgs
  /\ fate \in [Msgs -> Fates]

(* All but the messages' part. *)
ScriptsTyped ==
  /\ ListsOf(receivers, Fibers) /\ SchedTyped /\ FibersTyped
  /\ status \in [Chans -> {"open", "closed", "failed"}]
  /\ uses \in Features

(* The type invariant, with the lists' types behind a name. *)
Typed == ScriptsTyped /\ MsgsTyped

(* It is the type invariant. *)
LEMMA TypedIsTypeOK == Typed <=> TypeOK
BY DEF Typed, TypeOK, ListsOf, SchedTyped, FibersTyped, MsgsTyped, ScriptsTyped

(* The channels in whose list of receivers a fiber is. *)
Awaits(f) == {c \in Chans : Contains(receivers[c], f)}

(* What a fiber is doing agrees with where it is waiting. *)
FiberOK(f) ==
  /\ msg[f] # 0 <=> mode[f] \in {"send", "gsend"}
  /\ mode[f] \in {"recv", "valid"} => loop[f] # None
  /\ mode[f] = "closing" => closes[f] # None
  /\ mode[f] \in {"gsend", "select"} => f \in Grouped
  /\ mode[f] = "recv" => Awaits(f) = {loop[f]}
  /\ mode[f] = "select" => Awaits(f) # {} /\ Awaits(f) \subseteq group[f]
  /\ mode[f] \notin {"recv", "select"} => Awaits(f) = {}

(* All fibers agree, and none is in a list twice. *)
ReceiverInv ==
  /\ \A c \in Chans : Distinct(receivers[c])
  /\ \A f \in Fibers : FiberOK(f)

(* Pending sends: a fiber's own message is in a list; lists are in order   *)
(* and hold messages that were sent; without a cancelled deadline each of  *)
(* them has its fiber.                                                     *)
SenderInv ==
  /\ \A f, g \in Fibers : msg[f] = msg[g] /\ msg[f] # 0 => f = g
  /\ \A f \in Fibers :
       msg[f] # 0 => msg[f] <= sent /\ \E c \in Chans : Contains(senders[c], msg[f])
  /\ \A c \in Chans :
       Rising(senders[c]) /\ \A m \in Msgs : Contains(senders[c], m) => m <= sent
  /\ uses # "deadline" =>
       \A m \in Msgs, c \in Chans : Contains(senders[c], m) => Owners(m) # {}

(* The inductive invariant of the channels' lists. *)
ListInv == Typed /\ ReceiverInv /\ SenderInv

(* It implies that waiters are registered. *)
LEMMA ListInvRegisters ==
  ASSUME ListInv
  PROVE  WaitersRegistered
<1>1. \A f \in Fibers, c \in Chans : Contains(receivers[c], f) <=> c \in Awaits(f)
  BY DEF Awaits
<1>3. \A f \in Fibers : Awaits(f) \subseteq Chans
  BY DEF Awaits
<1>4. \A f \in Fibers : FiberOK(f) /\ mode[f] \in Modes
  BY DEF ListInv, ReceiverInv, Typed, ScriptsTyped, FibersTyped
<1>5. \A f \in Fibers, c \in Chans :
        Contains(receivers[c], f) =>
          \/ mode[f] = "recv" /\ loop[f] = c
          \/ mode[f] = "select" /\ c \in group[f]
  BY <1>1, <1>4 DEF FiberOK
<1>6. \A f \in Fibers : mode[f] = "recv" => Contains(receivers[loop[f]], f)
  BY <1>1, <1>3, <1>4 DEF FiberOK
<1>7. \A f \in Fibers : mode[f] = "select" => \E c \in Chans : Contains(receivers[c], f)
  BY <1>1, <1>3, <1>4 DEF FiberOK
<1>8. \A f \in Fibers : mode[f] \in {"send", "gsend"} =>
                          \E c \in Chans : Contains(senders[c], msg[f])
  BY <1>4 DEF FiberOK, ListInv, SenderInv
<1>9. uses # "deadline" =>
        \A m \in Msgs, c \in Chans : Contains(senders[c], m) => Owners(m) # {}
  BY DEF ListInv, SenderInv
<1> QED
  BY <1>5, <1>6, <1>7, <1>8, <1>9 DEF WaitersRegistered

(* The lists without an operation. *)
LEMMA WithoutHolds ==
  ASSUME NEW S, NEW l, ListsOf(l, S), \A c \in Chans : Distinct(l[c]), NEW x
  PROVE  /\ ListsOf(Without(l, x), S)
         /\ \A c \in Chans :
              /\ Distinct(Without(l, x)[c])
              /\ \A y : Contains(Without(l, x)[c], y) <=> Contains(l[c], y) /\ y # x
              /\ l[c] = <<>> => Without(l, x)[c] = <<>>
              /\ S \subseteq Int /\ Rising(l[c]) => Rising(Without(l, x)[c])
<1>1. \A c \in Chans : l[c] \in Seq(S)
  BY DEF ListsOf
<1>2. Without(l, x) = [c \in Chans |-> Less(l[c], x)]
  BY DEF Without, Less
<1>3. \A c \in Chans : Without(l, x)[c] = Less(l[c], x)
  BY <1>2
<1>4. \A c \in Chans : l[c] = <<>> => Less(l[c], x) = <<>>
  BY DEF Less, Contains
<1>5. \A c \in Chans :
        /\ Less(l[c], x) \in Seq(S) /\ Distinct(Less(l[c], x))
        /\ \A y : Contains(Less(l[c], x), y) <=> Contains(l[c], y) /\ y # x
        /\ S \subseteq Int /\ Rising(l[c]) => Rising(Less(l[c], x))
  BY <1>1, LessHolds
<1>6. ListsOf(Without(l, x), S)
  BY <1>2, <1>5 DEF ListsOf
<1> QED
  BY <1>3, <1>4, <1>5, <1>6

(* An operation appended to the lists of some channels. *)
LEMMA AppendedHolds ==
  ASSUME NEW S, NEW l, ListsOf(l, S), NEW where \in SUBSET Chans, NEW e \in S
  PROVE  /\ ListsOf(Appended(l, where, e), S)
         /\ \A c \in Chans :
              /\ \A y : Contains(Appended(l, where, e)[c], y) <=> Contains(l[c], y) \/ (c \in where /\ y = e)
              /\ c \in where => Appended(l, where, e)[c] # <<>> /\ Len(Appended(l, where, e)[c]) = Len(l[c]) + 1
              /\ c \notin where => Appended(l, where, e)[c] = l[c]
              /\ Distinct(l[c]) /\ ~Contains(l[c], e) => Distinct(Appended(l, where, e)[c])
              /\ /\ S \subseteq Int /\ Rising(l[c])
                 /\ \A y \in S : Contains(l[c], y) => y < e
                 => Rising(Appended(l, where, e)[c])
<1>1. \A c \in Chans : l[c] \in Seq(S)
  BY DEF ListsOf
<1>2. \A c \in Chans :
        Appended(l, where, e)[c] = IF c \in where THEN Append(l[c], e) ELSE l[c]
  BY DEF Appended
<1>3. \A c \in Chans :
        /\ Append(l[c], e) \in Seq(S) /\ Append(l[c], e) # <<>>
        /\ Len(Append(l[c], e)) = Len(l[c]) + 1
        /\ \A x : Contains(Append(l[c], e), x) <=> x = e \/ Contains(l[c], x)
        /\ Distinct(l[c]) /\ ~Contains(l[c], e) => Distinct(Append(l[c], e))
        /\ /\ S \subseteq Int /\ Rising(l[c])
           /\ \A x \in S : Contains(l[c], x) => x < e
           => Rising(Append(l[c], e))
  BY <1>1, AppendHolds
<1>4. \A c \in Chans : (IF c \in where THEN Append(l[c], e) ELSE l[c]) \in Seq(S)
  BY <1>1, <1>3
<1>5. ListsOf(Appended(l, where, e), S)
  <2> DEFINE T == Seq(S)
             t(c) == IF c \in where THEN Append(l[c], e) ELSE l[c]
  <2>1. Appended(l, where, e) = [c \in Chans |-> t(c)] /\ \A c \in Chans : t(c) \in T
    BY <1>4 DEF Appended
  <2> HIDE DEF T, t
  <2>2. Appended(l, where, e) \in [Chans -> T]
    BY <2>1
  <2> QED
    BY <2>2 DEF ListsOf, T
<1> QED
  BY <1>2, <1>3, <1>5

(* The list of one channel replaced. *)
LEMMA PutHolds ==
  ASSUME NEW S, NEW l, ListsOf(l, S), NEW c \in Chans, NEW s \in Seq(S)
  PROVE  /\ ListsOf([l EXCEPT ![c] = s], S)
         /\ [l EXCEPT ![c] = s][c] = s
         /\ \A d \in Chans \ {c} : [l EXCEPT ![c] = s][d] = l[d]
BY DEF ListsOf

(* async_fiber_switch and async_fiber_suspend keep the scheduler's type. *)
LEMMA SwitchTyped ==
  ASSUME SchedTyped, NEW g \in Fibers, SwitchTo(g)
  PROVE  SchedTyped' /\ running' = g
<1>1. running # Loop => <<running>> \o stack \in Seq(Fibers)
  BY DEF SchedTyped
<1> QED
  BY <1>1 DEF SchedTyped, SwitchTo

(* The same for a fiber that suspends. *)
LEMMA SuspendTyped ==
  ASSUME SchedTyped, Suspend
  PROVE  SchedTyped'
<1>1. CASE stack = <<>>
  BY <1>1 DEF SchedTyped, Suspend
<1>2. CASE stack # <<>>
  <2>1. Head(stack) \in Fibers /\ Tail(stack) \in Seq(Fibers)
    BY <1>2, HeadTailProperties DEF SchedTyped
  <2> QED
    BY <1>2, <2>1 DEF SchedTyped, Suspend
<1> QED
  BY <1>1, <1>2

(* UNCHANGED sched *)
LEMMA SameTyped ==
  ASSUME SchedTyped, UNCHANGED sched
  PROVE  SchedTyped'
BY DEF SchedTyped, sched

-----------------------------------------------------------------------------
(* Receivers.                                                              *)

(* A fiber whose own state stays as it was is still in agreement. *)
LEMMA FrameOK ==
  ASSUME NEW f \in Fibers, FiberOK(f),
         mode'[f] = mode[f], msg'[f] = msg[f], loop'[f] = loop[f], closes'[f] = closes[f],
         mode[f] = "select" => group'[f] = group[f],
         \A c \in Chans : Contains(receivers'[c], f) <=> Contains(receivers[c], f)
  PROVE  FiberOK(f)'
<1>1. Awaits(f)' = Awaits(f)
  BY DEF Awaits
<1> QED
  BY <1>1 DEF FiberOK

(* A fiber that runs its script, or closes a channel, is in no list. *)
LEMMA BusyOK ==
  ASSUME NEW f \in Fibers, mode'[f] \in {"user", "closing", "valid"}, msg'[f] = 0,
         mode'[f] = "closing" => closes'[f] # None,
         mode'[f] = "valid" => loop'[f] # None,
         \A c \in Chans : ~Contains(receivers'[c], f)
  PROVE  FiberOK(f)'
<1>1. Awaits(f)' = {}
  BY DEF Awaits
<1> QED
  BY <1>1 DEF FiberOK

(* Nobody's list of receivers, mode, message, group or loop has changed. *)
LEMMA IdleKeeps ==
  ASSUME ReceiverInv, UNCHANGED <<receivers, mode, msg, closes, loop, group>>
  PROVE  ReceiverInv'
<1>1. \A f \in Fibers : FiberOK(f)'
  BY FrameOK DEF ReceiverInv
<1> QED
  BY <1>1 DEF ReceiverInv

(* Who is where: the first receiver of a channel awaits something there. *)
LEMMA HeadAwaits ==
  ASSUME ListInv, NEW c \in Chans, receivers[c] # <<>>
  PROVE  LET r == Head(receivers[c])
         IN  /\ r \in Fibers /\ c \in Awaits(r) /\ mode[r] \in {"recv", "select"}
             /\ msg[r] = 0
             /\ mode[r] = "select" => r \in Grouped /\ c \in group[r]
             /\ mode[r] = "recv" => loop[r] = c
<1> DEFINE r == Head(receivers[c])
<1>1. r \in Fibers /\ Contains(receivers[c], r)
  <2>1. receivers[c] \in Seq(Fibers)
    BY DEF ListInv, Typed, ScriptsTyped, ListsOf
  <2> QED
    BY <2>1, TailHolds
<1>2. c \in Awaits(r)
  BY <1>1 DEF Awaits
<1>3. FiberOK(r)
  BY <1>1 DEF ListInv, ReceiverInv
<1>4. mode[r] \in {"recv", "select"}
  BY <1>2, <1>3 DEF FiberOK
<1>5. msg[r] = 0
  BY <1>3, <1>4 DEF FiberOK
<1> QED
  BY <1>1, <1>2, <1>3, <1>4, <1>5 DEF FiberOK

(* compact_group leaves a part of the group. *)
LEMMA GroupShrinks ==
  ASSUME NEW r, NEW c, NEW selected
  PROVE  /\ GroupAfterSelect(r, c, selected) \subseteq group[r]
         /\ \A g : Compacted(g, selected) \subseteq g
BY DEF GroupAfterSelect, Compacted

(* A fiber that leaves all the lists of receivers to run its script, or    *)
(* the end of its loop: the others stay where they are.                    *)
LEMMA LeaveKeeps ==
  ASSUME ListInv, NEW r \in Fibers, NEW becomes \in {"user", "valid"},
         mode[r] \in {"recv", "select"},
         receivers' = Without(receivers, r),
         mode' = [mode EXCEPT ![r] = becomes],
         loop' = loop \/ (becomes = "user" /\ loop' = [loop EXCEPT ![r] = None]),
         becomes = "valid" => loop' = loop /\ mode[r] = "recv",
         group' = group \/ (\E g : group' = [group EXCEPT ![r] = g]),
         UNCHANGED <<msg, closes>>
  PROVE  /\ ReceiverInv' /\ ListsOf(receivers, Fibers)'
         /\ (mode \in [Fibers -> Modes])' /\ (loop \in [Fibers -> Chans \cup {None}])'
<1>0. /\ Typed /\ ReceiverInv /\ \A c \in Chans : Distinct(receivers[c])
      /\ ListsOf(receivers, Fibers) /\ FibersTyped
  BY DEF ListInv, ReceiverInv, Typed, ScriptsTyped
<1>1. /\ ListsOf(receivers', Fibers)
      /\ \A c \in Chans :
           /\ Distinct(receivers'[c])
           /\ \A g : Contains(receivers'[c], g) <=> Contains(receivers[c], g) /\ g # r
  BY <1>0, WithoutHolds
<1>2. FiberOK(r)'
  <2>1. mode'[r] = becomes /\ msg'[r] = 0
    BY <1>0 DEF FibersTyped, ReceiverInv, FiberOK
  <2>2. becomes = "valid" => loop'[r] # None
    BY <1>0 DEF FibersTyped, ReceiverInv, FiberOK
  <2> QED
    BY <1>1, <2>1, <2>2, BusyOK
<1>3. ASSUME NEW g \in Fibers \ {r} PROVE FiberOK(g)'
  <2>1. /\ mode'[g] = mode[g] /\ loop'[g] = loop[g] /\ msg'[g] = msg[g]
        /\ closes'[g] = closes[g]
    BY <1>0 DEF FibersTyped
  <2>2. group'[g] = group[g] \/ g \notin Grouped
    BY <1>0 DEF FibersTyped
  <2>3. FiberOK(g)
    BY <1>0 DEF ReceiverInv
  <2>4. mode[g] = "select" => group'[g] = group[g]
    BY <2>2, <2>3 DEF FiberOK
  <2> QED
    BY <1>1, <2>1, <2>3, <2>4, FrameOK
<1>4. ReceiverInv'
  BY <1>1, <1>2, <1>3 DEF ReceiverInv
<1>5. (mode \in [Fibers -> Modes])' /\ (loop \in [Fibers -> Chans \cup {None}])'
  BY <1>0 DEF FibersTyped, Modes
<1> QED
  BY <1>1, <1>4, <1>5

(* A fiber that ran appends itself to the lists of the channels it awaits. *)
LEMMA JoinKeeps ==
  ASSUME ListInv, NEW f \in Fibers, mode[f] \in {"user", "valid"},
         NEW kind \in {"recv", "select"}, NEW where \in SUBSET Chans, where # {},
         receivers' = Appended(receivers, where, f),
         mode' = [mode EXCEPT ![f] = kind],
         kind = "recv" => /\ \E c \in where : where = {c} /\ loop' = [loop EXCEPT ![f] = c]
                          /\ group' = group,
         kind = "select" => loop' = loop /\ f \in Grouped
                              /\ group' = [group EXCEPT ![f] = where],
         UNCHANGED <<msg, closes>>
  PROVE  /\ ReceiverInv' /\ ListsOf(receivers, Fibers)'
         /\ (mode \in [Fibers -> Modes])' /\ (loop \in [Fibers -> Chans \cup {None}])'
         /\ (group \in [Grouped -> SUBSET Chans])'
<1>0. /\ Typed /\ ReceiverInv /\ \A c \in Chans : Distinct(receivers[c])
      /\ ListsOf(receivers, Fibers) /\ FibersTyped /\ FiberOK(f)
  BY DEF ListInv, ReceiverInv, Typed, ScriptsTyped
<1>a. \A c \in Chans : ~Contains(receivers[c], f)
  BY <1>0 DEF FiberOK, Awaits
<1>b. /\ ListsOf(Appended(receivers, where, f), Fibers)
      /\ \A c \in Chans :
           /\ \A g : Contains(Appended(receivers, where, f)[c], g) <=>
                      Contains(receivers[c], g) \/ (c \in where /\ g = f)
           /\ Distinct(receivers[c]) /\ ~Contains(receivers[c], f) =>
                Distinct(Appended(receivers, where, f)[c])
  <2>1. ListsOf(receivers, Fibers)
    BY <1>0
  <2>2. ListsOf(Appended(receivers, where, f), Fibers)
    BY <2>1, AppendedHolds
  <2>3. \A c \in Chans : \A g : Contains(Appended(receivers, where, f)[c], g) <=>
                                 Contains(receivers[c], g) \/ (c \in where /\ g = f)
    BY <2>1, AppendedHolds
  <2>4. \A c \in Chans : Distinct(receivers[c]) /\ ~Contains(receivers[c], f) =>
                            Distinct(Appended(receivers, where, f)[c])
    BY <2>1, AppendedHolds
  <2> QED
    BY <2>2, <2>3, <2>4
<1>1. /\ ListsOf(receivers', Fibers)
      /\ \A c \in Chans :
           /\ Distinct(receivers'[c])
           /\ \A g : Contains(receivers'[c], g) <=>
                      Contains(receivers[c], g) \/ (c \in where /\ g = f)
  BY <1>0, <1>a, <1>b
<1>2. FiberOK(f)'
  <2>1. mode'[f] = kind /\ msg'[f] = 0
    BY <1>0 DEF FibersTyped, FiberOK
  <2>2. Awaits(f)' = where
    BY <1>a, <1>1 DEF Awaits
  <2>3. CASE kind = "recv"
    <3>1. PICK c \in where : where = {c} /\ loop' = [loop EXCEPT ![f] = c]
      BY <2>3
    <3>2. loop'[f] = c /\ c # None
      BY <1>0, <3>1, ChannelAssumption DEF FibersTyped
    <3> QED
      BY <2>1, <2>2, <2>3, <3>1, <3>2 DEF FiberOK
  <2>4. CASE kind = "select"
    <3>1. group'[f] = where
      BY <1>0, <2>4 DEF FibersTyped
    <3> QED
      BY <2>1, <2>2, <2>4, <3>1 DEF FiberOK
  <2> QED
    BY <2>3, <2>4
<1>3. ASSUME NEW g \in Fibers \ {f} PROVE FiberOK(g)'
  <2>1. /\ mode'[g] = mode[g] /\ loop'[g] = loop[g] /\ msg'[g] = msg[g]
        /\ closes'[g] = closes[g]
    BY <1>0 DEF FibersTyped
  <2>2. group'[g] = group[g] \/ g \notin Grouped
    BY <1>0 DEF FibersTyped
  <2>3. FiberOK(g)
    BY <1>0 DEF ReceiverInv
  <2>4. mode[g] = "select" => group'[g] = group[g]
    BY <2>2, <2>3 DEF FiberOK
  <2>5. \A c \in Chans : Contains(receivers'[c], g) <=> Contains(receivers[c], g)
    BY <1>1
  <2> QED
    BY <2>1, <2>3, <2>4, <2>5, FrameOK
<1>4. ReceiverInv'
  BY <1>1, <1>2, <1>3 DEF ReceiverInv
<1>5. (mode \in [Fibers -> Modes])' /\ (loop \in [Fibers -> Chans \cup {None}])'
  BY <1>0 DEF FibersTyped, Modes
<1>6. (group \in [Grouped -> SUBSET Chans])'
  BY <1>0 DEF FibersTyped
<1> QED
  BY <1>1, <1>4, <1>5, <1>6

(* The receivers stay where they are: every other fiber keeps its state,   *)
(* runs on, or begins to wait with a send.                                 *)
LEMMA OthersKeep ==
  ASSUME ListInv, receivers' = receivers,
         \A g \in Fibers :
           \/ /\ mode'[g] = mode[g] /\ msg'[g] = msg[g]
              /\ loop'[g] = loop[g] /\ closes'[g] = closes[g]
              /\ mode[g] = "select" => group'[g] = group[g]
           \/ /\ mode[g] \notin {"recv", "select"}
              /\ mode'[g] \in {"user", "closing", "valid"} /\ msg'[g] = 0
              /\ mode'[g] = "closing" => closes'[g] # None
              /\ mode'[g] = "valid" => loop'[g] # None
           \/ /\ mode[g] \notin {"recv", "select"}
              /\ mode'[g] \in {"send", "gsend"} /\ msg'[g] # 0
              /\ mode'[g] = "gsend" => g \in Grouped
  PROVE  ReceiverInv'
<1>1. ASSUME NEW g \in Fibers PROVE FiberOK(g)'
  <2>1. FiberOK(g)
    BY DEF ListInv, ReceiverInv
  <2>2. Awaits(g)' = Awaits(g)
    BY DEF Awaits
  <2>3. mode[g] \notin {"recv", "select"} => Awaits(g) = {}
    BY <2>1 DEF FiberOK
  <2> QED
    BY <2>1, <2>2, <2>3 DEF FiberOK
<1> QED
  BY <1>1 DEF ReceiverInv, ListInv

-----------------------------------------------------------------------------
(* The kinds of steps.                                                     *)

(* The effects that a step can have on messages, whichever fiber, iterator *)
(* or group it is about.  A new message has this fate. *)
Sends(becomes) ==
  sent < MaxMsgs /\ sent' = sent + 1 /\ fate' = [fate EXCEPT ![sent + 1] = becomes]

(* No message is concerned. *)
Still == UNCHANGED <<buffer, senders, got, sent, fate, msg>>

(* send() gives up at once. *)
Refused ==
  /\ \E becomes \in {"failed", "discarded"} : Sends(becomes)
  /\ UNCHANGED <<buffer, senders, got, msg>>

(* send() hands the message to a receiver. *)
Handed(c) ==
  /\ receivers[c] # <<>>
  /\ Sends("accepted")
  /\ got' = [got EXCEPT ![c] = Append(@, sent + 1)]
  /\ UNCHANGED <<buffer, senders, msg>>

(* send() leaves it in the buffer. *)
Stored(c) ==
  /\ receivers[c] = <<>> /\ HasRoom(c)
  /\ Sends("accepted")
  /\ buffer' = [buffer EXCEPT ![c] = Append(@, sent + 1)]
  /\ UNCHANGED <<senders, got, msg>>

(* send() waits, or throws and leaves its operation to its timer. *)
Parked(f, where) ==
  /\ where # {} /\ \A c \in where : receivers[c] = <<>> /\ ~HasRoom(c)
  /\ msg[f] = 0
  /\ senders' = Appended(senders, where, sent + 1)
  /\ \/ Sends("pending") /\ msg' = [msg EXCEPT ![f] = sent + 1]
     \/ uses = "deadline" /\ Sends("failed") /\ msg' = msg
  /\ UNCHANGED <<buffer, got>>

(* A pending send is over. *)
Over(m, becomes) ==
  /\ senders' = Without(senders, m)
  /\ msg' = [f \in Fibers |-> IF msg[f] = m THEN 0 ELSE msg[f]]
  /\ fate' = IF Owners(m) = {} THEN fate ELSE [fate EXCEPT ![m] = becomes]

(* A message is fetched out of a channel. *)
Fetched(c) ==
  /\ CanFetch(c)
  /\ \/ /\ senders[c] = <<>>
        /\ got' = [got EXCEPT ![c] = Append(@, Head(buffer[c]))]
        /\ buffer' = [buffer EXCEPT ![c] = Tail(@)]
        /\ UNCHANGED <<senders, msg, fate>>
     \/ /\ senders[c] # <<>> /\ buffer[c] = <<>>
        /\ got' = [got EXCEPT ![c] = Append(@, Head(senders[c]))]
        /\ buffer' = buffer
        /\ \E becomes \in {"accepted", "late"} : Over(Head(senders[c]), becomes)
     \/ /\ senders[c] # <<>> /\ buffer[c] # <<>>
        /\ got' = [got EXCEPT ![c] = Append(@, Head(buffer[c]))]
        /\ buffer' = [buffer EXCEPT ![c] = Append(Tail(@), Head(senders[c]))]
        /\ \E becomes \in {"accepted", "late"} : Over(Head(senders[c]), becomes)
  /\ sent' = sent

(* A pending send times out, or its channel closes. *)
Ended(m) ==
  /\ \E c \in Chans : Contains(senders[c], m)
  /\ \E becomes \in {"discarded", "failed", "closed"} : Over(m, becomes)
  /\ UNCHANGED <<buffer, got, sent>>

(* A pending send is cancelled. *)
Cancelled(f) ==
  /\ msg[f] # 0
  /\ senders' = Without(senders, msg[f]) \/ (uses = "deadline" /\ senders' = senders)
  /\ fate' = [fate EXCEPT ![msg[f]] = "failed"]
  /\ msg' = [msg EXCEPT ![f] = 0]
  /\ UNCHANGED <<buffer, got, sent>>

(* The operation of a cancelled send is freed. *)
Freed(m) ==
  /\ Owners(m) = {}
  /\ senders' = Without(senders, m)
  /\ UNCHANGED <<buffer, got, sent, msg, fate>>

(* One of these. *)
MsgsStep ==
  /\ uses' = uses
  /\ \/ Still \/ Refused
     \/ \E c \in Chans : Handed(c) \/ Stored(c) \/ Fetched(c)
     \/ \E f \in Fibers : Cancelled(f) \/ \E where \in SUBSET Chans : Parked(f, where)
     \/ \E m \in Msgs : Ended(m) \/ Freed(m)

(* Whoever begins to receive found nothing, but for a select. *)
ReceiversStep ==
  \A c \in Chans :
    receivers'[c] # <<>> =>
      \/ receivers[c] # <<>>
      \/ uses = "select"
      \/ ~CanFetch(c) /\ Still

(* What is shown of every step. *)
StepOK == ReceiverInv' /\ ScriptsTyped' /\ MsgsStep /\ ReceiversStep

(* The parts of the type invariant that a step starts from. *)
LEMMA Parts ==
  ASSUME ListInv
  PROVE  /\ ReceiverInv /\ SenderInv /\ ScriptsTyped /\ MsgsTyped
         /\ FibersTyped /\ SchedTyped
         /\ \A c \in Chans : Distinct(receivers[c])
         /\ \A f \in Fibers : FiberOK(f)
         /\ ListsOf(receivers, Fibers)
BY DEF ListInv, Typed, ReceiverInv, ScriptsTyped

(* A fiber that runs its script is in no list and has no pending send. *)
LEMMA UserIs ==
  ASSUME ListInv, NEW f \in Fibers, mode[f] \in {"user", "valid", "closing"}
  PROVE  msg[f] = 0 /\ Awaits(f) = {} /\ \A c \in Chans : ~Contains(receivers[c], f)
<1>1. FiberOK(f)
  BY Parts
<1>2. msg[f] = 0 /\ Awaits(f) = {}
  BY <1>1 DEF FiberOK
<1> QED
  BY <1>2 DEF Awaits

(* Yield and LoopResumes *)
LEMMA YieldOK ==
  ASSUME ListInv, NEW f \in Fibers, Yield(f) \/ LoopResumes(f)
  PROVE  StepOK
<1>0. UNCHANGED <<buffer, senders, receivers, status, mode, msg, closes, loop, fresh, group,
                  sent, fate, got, uses>>
  BY DEF Yield, LoopResumes, iter
<1>1. ReceiverInv'
  BY <1>0, Parts, IdleKeeps
<1>2. SchedTyped'
  BY Parts, SuspendTyped, SwitchTyped DEF Yield, LoopResumes
<1>3. FibersTyped'
  BY <1>0, Parts DEF FibersTyped
<1>4. ScriptsTyped'
  BY <1>0, <1>2, <1>3, Parts DEF ScriptsTyped
<1>5. Still /\ uses' = uses
  BY <1>0 DEF Still
<1>6. ReceiversStep
  BY <1>0 DEF ReceiversStep
<1> QED
  BY <1>1, <1>4, <1>5, <1>6 DEF StepOK, MsgsStep

(* TimerClosed *)
LEMMA TimerOK ==
  ASSUME ListInv, NEW m \in Msgs, TimerClosed(m)
  PROVE  StepOK
<1>0. UNCHANGED <<buffer, receivers, status, running, stack, mode, msg, closes, loop, fresh,
                  group, sent, fate, got, uses>>
  BY DEF TimerClosed, iter, sched
<1>1. ReceiverInv'
  BY <1>0, Parts, IdleKeeps
<1>2. SchedTyped' /\ FibersTyped'
  BY <1>0, Parts DEF FibersTyped, SchedTyped
<1>4. ScriptsTyped'
  BY <1>0, <1>2, Parts DEF ScriptsTyped
<1>5. Freed(m) /\ uses' = uses
  BY <1>0 DEF Freed, TimerClosed
<1>6. ReceiversStep
  BY <1>0 DEF ReceiversStep
<1> QED
  BY <1>1, <1>4, <1>5, <1>6 DEF StepOK, MsgsStep

(* ResolveReceiver: the first receiver of the channel goes on. *)
LEMMA ResolveOK ==
  ASSUME ListInv, NEW c \in Chans, receivers[c] # <<>>, NEW m,
         ResolveReceiver(c, m), UNCHANGED <<msg, closes, loop, status, uses>>
  PROVE  ReceiverInv' /\ ScriptsTyped'
         /\ \A d \in Chans : receivers'[d] # <<>> => receivers[d] # <<>>
<1> DEFINE r == Head(receivers[c])
<1>1. /\ r \in Fibers /\ c \in Awaits(r) /\ mode[r] \in {"recv", "select"}
      /\ mode[r] = "select" => r \in Grouped
  BY HeadAwaits
<1>2. /\ receivers' = Without(receivers, r)
      /\ mode' = [mode EXCEPT ![r] = "user"]
      /\ fresh' = [fresh EXCEPT ![r] = FALSE]
      /\ group' = IF mode[r] = "select"
                  THEN [group EXCEPT ![r] = GroupAfterSelect(r, c, None)] ELSE group
      /\ SwitchTo(r)
  BY DEF ResolveReceiver
<1> HIDE DEF r
<1>3. /\ ReceiverInv' /\ ListsOf(receivers, Fibers)'
      /\ (mode \in [Fibers -> Modes])' /\ (loop \in [Fibers -> Chans \cup {None}])'
  BY <1>1, <1>2, LeaveKeeps
<1>4. SchedTyped'
  BY <1>1, <1>2, Parts, SwitchTyped
<1>5. (fresh \in [Fibers -> BOOLEAN])'
  BY <1>2, Parts DEF FibersTyped
<1>6. (group \in [Grouped -> SUBSET Chans])'
  <2>1. GroupAfterSelect(r, c, None) \subseteq group[r]
    BY GroupShrinks
  <2> QED
    BY <1>1, <1>2, <2>1, Parts DEF FibersTyped
<1>7. ScriptsTyped'
  BY <1>3, <1>4, <1>5, <1>6, Parts DEF ScriptsTyped, FibersTyped
<1>8. \A d \in Chans : receivers'[d] # <<>> => receivers[d] # <<>>
  BY <1>2, Parts, WithoutHolds
<1> QED
  BY <1>3, <1>7, <1>8

(* Send, SendOn and SendOnGroup *)
LEMMA RefusedOK ==
  ASSUME ListInv, NEW f \in Fibers, InUser(f), sent < MaxMsgs, sent' = sent + 1,
         NEW becomes \in {"failed", "discarded"}, SendEnds(f, becomes),
         group' = group \/ (\E c : group' = [group EXCEPT ![f] = @ \ {c}]),
         UNCHANGED <<status, closes, loop, uses>>
  PROVE  StepOK
<1>0. UNCHANGED <<buffer, senders, receivers, running, stack, mode, msg, fresh, got>>
  BY DEF SendEnds, sched
<1>1. ReceiverInv'
  <2>1. \A g \in Fibers : mode[g] = "select" => group'[g] = group[g]
    <3>1. \A g \in Fibers : mode[g] = "select" => g # f /\ g \in Grouped
      BY Parts DEF FiberOK, InUser
    <3> QED
      BY <3>1, Parts DEF FibersTyped
  <2> QED
    BY <1>0, <2>1, OthersKeep
<1>2. SchedTyped'
  BY <1>0, Parts DEF SchedTyped
<1>3. FibersTyped'
  BY <1>0, Parts DEF FibersTyped
<1>4. ScriptsTyped'
  BY <1>0, <1>2, <1>3, Parts DEF ScriptsTyped
<1>5. Refused
  BY <1>0 DEF Refused, Sends, SendEnds, Becomes, NewMsg
<1>6. ReceiversStep
  BY <1>0 DEF ReceiversStep
<1> QED
  BY <1>1, <1>4, <1>5, <1>6 DEF StepOK, MsgsStep

(* A message handed to the first receiver. *)
LEMMA HandedOK ==
  ASSUME ListInv, NEW f \in Fibers, NEW c \in Chans, sent < MaxMsgs, sent' = sent + 1,
         SendToReceiver(f, c), UNCHANGED <<status, closes, loop, uses>>
  PROVE  StepOK
<1>1. /\ receivers[c] # <<>> /\ ResolveReceiver(c, NewMsg)
      /\ UNCHANGED <<buffer, senders, msg>>
  BY DEF SendToReceiver
<1>2. /\ ReceiverInv' /\ ScriptsTyped'
      /\ \A d \in Chans : receivers'[d] # <<>> => receivers[d] # <<>>
  BY <1>1, ResolveOK
<1>3. Handed(c)
  BY <1>1 DEF Handed, Sends, SendToReceiver, ResolveReceiver, Becomes, NewMsg
<1> QED
  BY <1>2, <1>3 DEF StepOK, MsgsStep, ReceiversStep

(* A message left in the buffer. *)
LEMMA StoredOK ==
  ASSUME ListInv, NEW f \in Fibers, NEW c \in Chans, sent < MaxMsgs, sent' = sent + 1,
         SendToBuffer(f, c), UNCHANGED <<status, closes, loop, uses>>
  PROVE  StepOK
<1>0. UNCHANGED <<senders, receivers, running, stack, mode, msg, fresh, group, got>>
  BY DEF SendToBuffer, sched
<1>1. ReceiverInv'
  BY <1>0, Parts, IdleKeeps
<1>2. SchedTyped' /\ FibersTyped'
  BY <1>0, Parts DEF FibersTyped, SchedTyped
<1>3. ScriptsTyped'
  BY <1>0, <1>2, Parts DEF ScriptsTyped
<1>4. Stored(c)
  BY <1>0 DEF Stored, Sends, SendToBuffer, Becomes, NewMsg
<1> QED
  BY <1>0, <1>1, <1>3, <1>4 DEF StepOK, MsgsStep, ReceiversStep

(* A send that waits. *)
LEMMA ParkedOK ==
  ASSUME ListInv, NEW f \in Fibers, InUser(f), sent < MaxMsgs, sent' = sent + 1,
         NEW where \in SUBSET Chans, where # {},
         \A c \in where : receivers[c] = <<>> /\ ~HasRoom(c),
         NEW kind \in {"send", "gsend"}, kind = "gsend" => f \in Grouped,
         SendWaits(f, where, kind), UNCHANGED <<status, closes, loop, uses>>
  PROVE  StepOK
<1>0. UNCHANGED <<buffer, receivers, fresh, group, got>>
  BY DEF SendWaits
<1>1. /\ mode' = [mode EXCEPT ![f] = kind] /\ msg' = [msg EXCEPT ![f] = sent + 1]
      /\ Suspend
  BY DEF SendWaits, NewMsg
<1>2. ReceiverInv'
  <2>1. sent + 1 # 0
    BY Parts, ChannelAssumption DEF MsgsTyped
  <2>2. mode'[f] = kind /\ msg'[f] = sent + 1 /\ mode[f] = "user"
    BY <1>1, Parts DEF FibersTyped, MsgsTyped, InUser
  <2>3. \A g \in Fibers \ {f} : mode'[g] = mode[g] /\ msg'[g] = msg[g]
    BY <1>1, Parts DEF FibersTyped, MsgsTyped
  <2> QED
    BY <1>0, <2>1, <2>2, <2>3, OthersKeep
<1>3. SchedTyped'
  BY <1>1, Parts, SuspendTyped
<1>4. FibersTyped'
  BY <1>0, <1>1, Parts DEF FibersTyped, Modes
<1>5. ScriptsTyped'
  BY <1>0, <1>3, <1>4, Parts DEF ScriptsTyped
<1>6. Parked(f, where)
  <2>1. msg[f] = 0
    BY UserIs DEF InUser
  <2> QED
    BY <1>0, <1>1, <2>1 DEF Parked, Sends, SendWaits, Becomes, NewMsg
<1> QED
  BY <1>0, <1>2, <1>5, <1>6 DEF StepOK, MsgsStep, ReceiversStep

(* A send with a timer in a context that is cancelled. *)
LEMMA LingersOK ==
  ASSUME ListInv, NEW f \in Fibers, InUser(f), sent < MaxMsgs, sent' = sent + 1,
         NEW where \in SUBSET Chans, where # {},
         \A c \in where : receivers[c] = <<>> /\ ~HasRoom(c),
         SendLingers(f, where), UNCHANGED <<status, closes, loop, uses>>
  PROVE  StepOK
<1>0. UNCHANGED <<buffer, receivers, running, stack, mode, msg, fresh, group, got>>
  BY DEF SendLingers, sched
<1>1. ReceiverInv'
  BY <1>0, OthersKeep
<1>2. SchedTyped' /\ FibersTyped'
  BY <1>0, Parts DEF SchedTyped, FibersTyped
<1>3. ScriptsTyped'
  BY <1>0, <1>2, Parts DEF ScriptsTyped
<1>4. Parked(f, where)
  <2>1. msg[f] = 0
    BY UserIs DEF InUser
  <2> QED
    BY <1>0, <2>1 DEF Parked, Sends, SendLingers, Becomes, NewMsg
<1> QED
  BY <1>0, <1>1, <1>3, <1>4 DEF StepOK, MsgsStep, ReceiversStep

(* Channel::send and ChannelGroup::send *)
LEMMA SendOK ==
  ASSUME ListInv, NEW f \in Fibers, Send(f)
  PROVE  StepOK
<1>0. /\ InUser(f) /\ sent < MaxMsgs /\ sent' = sent + 1
      /\ UNCHANGED <<status, closes, loop, uses>>
  BY DEF Send, NewMsg
<1>1. ASSUME NEW c \in Chans, SendOn(f, c) PROVE StepOK
  <2>1. CASE SendEnds(f, "failed") /\ UNCHANGED group
    BY <1>0, <2>1, RefusedOK
  <2>2. CASE SendToReceiver(f, c)
    BY <1>0, <2>2, HandedOK
  <2>3. CASE SendToBuffer(f, c)
    BY <1>0, <2>3, StoredOK
  <2>4. CASE SendEnds(f, "discarded") /\ UNCHANGED group
    BY <1>0, <2>4, RefusedOK
  <2>5. CASE receivers[c] = <<>> /\ ~HasRoom(c)
               /\ (SendWaits(f, {c}, "send") \/ SendLingers(f, {c}))
    <3>1. {c} \in SUBSET Chans /\ {c} # {}
      OBVIOUS
    <3>2. \A d \in {c} : receivers[d] = <<>> /\ ~HasRoom(d)
      BY <2>5
    <3> QED
      BY <1>0, <2>5, <3>1, <3>2, ParkedOK, LingersOK
  <2> QED
    BY <1>1, <2>1, <2>2, <2>3, <2>4, <2>5 DEF SendOn
<1>2. ASSUME f \in Grouped, SendOnGroup(f, group[f]) PROVE StepOK
  <2> DEFINE g == group[f]
             ready == {c \in g : receivers[c] # <<>> \/ HasRoom(c)}
  <2>0. g \in SUBSET Chans
    BY <1>2, Parts DEF FibersTyped
  <2>1. CASE (\E c : group' = [group EXCEPT ![f] = @ \ {c}]) /\ SendEnds(f, "failed")
    BY <1>0, <2>1, RefusedOK
  <2>2. CASE \E c \in Chans : SendToReceiver(f, c) \/ SendToBuffer(f, c)
    BY <1>0, <2>2, HandedOK, StoredOK
  <2>3. CASE (SendEnds(f, "discarded") \/ SendEnds(f, "failed")) /\ UNCHANGED group
    BY <1>0, <2>3, RefusedOK
  <2>4. CASE ready = {} /\ g # {} /\ SendWaits(f, g, "gsend")
    <3>1. \A d \in g : receivers[d] = <<>> /\ ~HasRoom(d)
      BY <2>4
    <3> HIDE DEF g
    <3> QED
      BY <1>0, <1>2, <2>0, <2>4, <3>1, ParkedOK
  <2> QED
    BY <1>2, <2>0, <2>1, <2>2, <2>3, <2>4 DEF SendOnGroup
<1> QED
  BY <1>1, <1>2 DEF Send

(* FinishSend: its fiber goes on, or nobody does. *)
LEMMA FinishOK ==
  ASSUME ListInv, NEW m \in Msgs, NEW becomes, FinishSend(m, becomes)
  PROVE  /\ SchedTyped' /\ Over(m, becomes)
         /\ (ModeAfterSend(m) \in [Fibers -> Modes])
         /\ \A g \in Fibers : msg[g] = m =>
              mode[g] \in {"send", "gsend"} /\ ModeAfterSend(m)[g] = "user" /\ msg'[g] = 0
         /\ \A g \in Fibers : msg[g] # m =>
              ModeAfterSend(m)[g] = mode[g] /\ msg'[g] = msg[g]
<1>1. m # 0
  BY ChannelAssumption DEF Msgs
<1>2. SchedTyped'
  BY Parts, SwitchTyped, SameTyped DEF FinishSend, Owners
<1>3. Over(m, becomes)
  BY DEF Over, FinishSend
<1>4. ModeAfterSend(m) \in [Fibers -> Modes]
  BY Parts DEF ModeAfterSend, FibersTyped, Modes
<1>5. \A g \in Fibers : msg[g] = m => mode[g] \in {"send", "gsend"}
  BY <1>1, Parts DEF FiberOK
<1> QED
  BY <1>2, <1>3, <1>4, <1>5 DEF ModeAfterSend, FinishSend

(* Fetch: fetch_noblock and the switch to the sender. *)
LEMMA FetchOK ==
  ASSUME ListInv, NEW f \in Fibers, mode[f] \in {"user", "valid"},
         NEW c \in Chans, CanFetch(c),
         NEW groups \in [Grouped -> SUBSET Chans],
         \A g \in Grouped : g # f => groups[g] = group[g],
         Fetch(c, groups), receivers' = receivers,
         mode' = ModeAfterFetch(c) \/ mode' = [ModeAfterFetch(c) EXCEPT ![f] = "user"],
         mode'[f] = "valid" => loop' = loop,
         loop' = loop \/ (\E d \in Chans : loop' = [loop EXCEPT ![f] = d]),
         (fresh \in [Fibers -> BOOLEAN])',
         UNCHANGED <<closes, status, sent, uses>>
  PROVE  StepOK
<1> DEFINE m == IF senders[c] # <<>> THEN Head(senders[c]) ELSE 0
           late == {g \in Owners(m) : Closed(c) /\ mode[g] = "gsend"}
<1>1. senders[c] # <<>> => Head(senders[c]) \in Msgs
  BY Parts, TailHolds DEF MsgsTyped, ListsOf
<1>2. (group \in [Grouped -> SUBSET Chans])' /\
      \A g \in Grouped : g # f /\ mode[g] # "gsend" => group'[g] = group[g]
  <2>1. group' = [g \in Grouped |-> IF g \in late THEN Compacted(group[g], None) ELSE groups[g]]
    BY DEF Fetch
  <2>2. \A g \in late : mode[g] = "gsend"
    OBVIOUS
  <2> HIDE DEF late
  <2>3. \A g \in Grouped : Compacted(group[g], None) \subseteq Chans
    BY Parts, GroupShrinks DEF FibersTyped
  <2> QED
    BY <2>1, <2>2, <2>3, Parts DEF FibersTyped
<1>3. f \in Fibers /\ msg[f] = 0 /\ \A g \in Fibers : mode[g] = "select" => g # f /\ g \in Grouped
  BY UserIs, Parts DEF FiberOK
<1>4. /\ \A g \in Fibers \ {f} : loop'[g] = loop[g] /\ closes'[g] = closes[g]
      /\ closes' = closes
      /\ (loop \in [Fibers -> Chans \cup {None}])' /\ (closes \in [Fibers -> Chans \cup {None}])'
  BY Parts DEF FibersTyped
<1>5. CASE senders[c] = <<>>
  <2>1. /\ got' = [got EXCEPT ![c] = Append(@, Head(buffer[c]))]
        /\ buffer' = [buffer EXCEPT ![c] = Tail(@)]
        /\ UNCHANGED <<senders, msg, fate, sched>>
    BY <1>5 DEF Fetch, CanFetch
  <2>2. Fetched(c)
    BY <1>5, <2>1 DEF Fetched
  <2>3. mode' = mode \/ mode' = [mode EXCEPT ![f] = "user"]
    BY <1>5 DEF ModeAfterFetch
  <2>4. ReceiverInv'
    <3>1. \A g \in Fibers \ {f} : mode'[g] = mode[g] /\ msg'[g] = msg[g]
      BY <2>1, <2>3, Parts DEF FibersTyped
    <3>2. mode'[f] \in {"user", "valid"} /\ msg'[f] = 0
      BY <1>3, <2>1, <2>3, Parts DEF FibersTyped
    <3>3. mode'[f] = "valid" => loop'[f] # None
      BY <2>3, Parts DEF FiberOK, FibersTyped
    <3>4. \A g \in Fibers \ {f} : mode[g] = "select" => group'[g] = group[g]
      BY <1>2, <1>3
    <3> QED
      BY <1>3, <1>4, <3>1, <3>2, <3>3, <3>4, OthersKeep
  <2>5. SchedTyped' /\ (mode \in [Fibers -> Modes])'
    BY <2>1, <2>3, Parts, SameTyped DEF FibersTyped, Modes
  <2>6. ScriptsTyped'
    BY <1>2, <1>4, <2>5, Parts DEF ScriptsTyped, FibersTyped
  <2> QED
    BY <2>2, <2>4, <2>6 DEF StepOK, MsgsStep, ReceiversStep
<1>6. CASE senders[c] # <<>>
  <2> DEFINE k == Head(senders[c])
  <2>0. k \in Msgs
    BY <1>1, <1>6
  <2>1. PICK becomes \in {"accepted", "late"} : FinishSend(k, becomes)
    BY <1>6 DEF Fetch
  <2>2. /\ got' = [got EXCEPT ![c] = Append(@, IF buffer[c] = <<>> THEN k ELSE Head(buffer[c]))]
        /\ buffer' = [buffer EXCEPT ![c] = IF buffer[c] = <<>> THEN @ ELSE Append(Tail(@), k)]
    BY <1>6 DEF Fetch
  <2>3. mode' = ModeAfterSend(k) \/ mode' = [ModeAfterSend(k) EXCEPT ![f] = "user"]
    BY <1>6 DEF ModeAfterFetch
  <2> HIDE DEF k
  <2>4. /\ SchedTyped' /\ Over(k, becomes)
        /\ (ModeAfterSend(k) \in [Fibers -> Modes])
        /\ \A g \in Fibers : msg[g] = k =>
              mode[g] \in {"send", "gsend"} /\ ModeAfterSend(k)[g] = "user" /\ msg'[g] = 0
        /\ \A g \in Fibers : msg[g] # k =>
              ModeAfterSend(k)[g] = mode[g] /\ msg'[g] = msg[g]
    BY <2>0, <2>1, FinishOK
  <2>5. Fetched(c)
    <3>1. CASE buffer[c] = <<>>
      <4>1. buffer' = buffer
        BY <2>2, <3>1, Parts DEF MsgsTyped, ListsOf
      <4> QED
        BY <1>6, <2>2, <2>4, <3>1, <4>1 DEF Fetched, k, CanFetch
    <3>2. CASE buffer[c] # <<>>
      BY <1>6, <2>2, <2>4, <3>2 DEF Fetched, k, CanFetch
    <3> QED
      BY <3>1, <3>2
  <2>6. k # 0 /\ msg[f] # k
    BY <1>3, <2>0, ChannelAssumption DEF Msgs
  <2>7. ReceiverInv'
    <3>1. \A g \in Fibers \ {f} : mode'[g] = ModeAfterSend(k)[g]
      BY <2>3, <2>4
    <3>2. mode'[f] \in {"user", "valid"} /\ msg'[f] = 0
      BY <1>3, <2>3, <2>4, <2>6
    <3>3. mode'[f] = "valid" => loop'[f] # None
      BY <2>3, <2>4, <2>6, Parts DEF FiberOK, FibersTyped
    <3>4. \A g \in Fibers \ {f} : mode[g] = "select" => group'[g] = group[g]
      BY <1>2, <1>3
    <3> QED
      BY <1>3, <1>4, <2>4, <3>1, <3>2, <3>3, <3>4, OthersKeep
  <2>8. (mode \in [Fibers -> Modes])'
    BY <2>3, <2>4 DEF Modes
  <2>9. ScriptsTyped'
    BY <1>2, <1>4, <2>4, <2>8, Parts DEF ScriptsTyped, FibersTyped
  <2> QED
    BY <2>5, <2>7, <2>9 DEF StepOK, MsgsStep, ReceiversStep
<1> QED
  BY <1>5, <1>6

(* fetch_next_entry *)
LEMMA NextEntryOK ==
  ASSUME ListInv, NEW f \in Fibers, mode[f] \in {"user", "valid"}, NEW c \in Chans,
         NEW first \in BOOLEAN, FetchNextEntry(f, c, first),
         UNCHANGED <<status, closes, sent, uses>>
  PROVE  StepOK
<1>0. loop' = [loop EXCEPT ![f] = c]
  BY DEF FetchNextEntry
<1>1. CASE CanFetch(c)
  <2>1. /\ Fetch(c, group) /\ receivers' = receivers
        /\ mode' = [ModeAfterFetch(c) EXCEPT ![f] = "user"]
        /\ fresh' = [fresh EXCEPT ![f] = FALSE]
    BY <1>1 DEF FetchNextEntry
  <2>2. (fresh \in [Fibers -> BOOLEAN])' /\ group \in [Grouped -> SUBSET Chans]
    BY <2>1, Parts DEF FibersTyped
  <2>3. mode'[f] # "valid"
    <3>1. ModeAfterFetch(c) \in [Fibers -> Modes]
      BY Parts DEF ModeAfterFetch, ModeAfterSend, FibersTyped, Modes
    <3> QED
      BY <2>1, <3>1
  <2> QED
    BY <1>0, <1>1, <2>1, <2>2, <2>3, FetchOK
<1>2. CASE ~CanFetch(c)
  <2>1. /\ receivers' = Appended(receivers, {c}, f)
        /\ mode' = [mode EXCEPT ![f] = "recv"]
        /\ fresh' = [fresh EXCEPT ![f] = first]
        /\ Suspend
        /\ UNCHANGED <<buffer, senders, msg, group, fate, got>>
    BY <1>2 DEF FetchNextEntry
  <2>2. {c} \in SUBSET Chans /\ {c} # {}
    OBVIOUS
  <2>3. /\ ReceiverInv' /\ ListsOf(receivers, Fibers)'
        /\ (mode \in [Fibers -> Modes])' /\ (loop \in [Fibers -> Chans \cup {None}])'
        /\ (group \in [Grouped -> SUBSET Chans])'
    <3> DEFINE where == {c}
    <3>1. \E d \in where : where = {d} /\ loop' = [loop EXCEPT ![f] = d]
      BY <1>0
    <3>2. receivers' = Appended(receivers, where, f) /\ where \in SUBSET Chans /\ where # {}
      BY <2>1
    <3> HIDE DEF where
    <3> QED
      BY <2>1, <3>1, <3>2, JoinKeeps
  <2>4. SchedTyped'
    BY <2>1, Parts, SuspendTyped
  <2>5. (fresh \in [Fibers -> BOOLEAN])'
    BY <2>1, Parts DEF FibersTyped
  <2>6. ScriptsTyped'
    BY <2>3, <2>4, <2>5, Parts DEF ScriptsTyped, FibersTyped
  <2>7. Still
    BY <2>1 DEF Still
  <2>8. ReceiversStep
    <3>1. \A d \in Chans \ {c} : receivers'[d] = receivers[d]
      BY <2>1 DEF Appended
    <3> QED
      BY <1>2, <2>7, <3>1 DEF ReceiversStep
  <2> QED
    BY <2>3, <2>6, <2>7, <2>8 DEF StepOK, MsgsStep
<1> QED
  BY <1>1, <1>2

(* The end of a loop. *)
LEMMA LeaveLoopOK ==
  ASSUME ListInv, NEW f \in Fibers, mode[f] \in {"user", "valid"}, LeaveLoop(f),
         UNCHANGED <<status, closes, sent, uses>>
  PROVE  StepOK
<1>0. /\ mode' = [mode EXCEPT ![f] = "user"] /\ loop' = [loop EXCEPT ![f] = None]
      /\ fresh' = [fresh EXCEPT ![f] = FALSE]
      /\ UNCHANGED <<buffer, senders, receivers, sched, msg, group, fate, got>>
  BY DEF LeaveLoop
<1>1. /\ \A g \in Fibers \ {f} : mode'[g] = mode[g] /\ loop'[g] = loop[g]
      /\ mode'[f] = "user" /\ msg'[f] = 0
  BY <1>0, UserIs, Parts DEF FibersTyped
<1>2. ReceiverInv'
  BY <1>0, <1>1, OthersKeep
<1>3. SchedTyped' /\ FibersTyped'
  BY <1>0, Parts, SameTyped DEF FibersTyped, Modes
<1>4. ScriptsTyped'
  BY <1>0, <1>3, Parts DEF ScriptsTyped
<1>5. Still /\ ReceiversStep
  BY <1>0 DEF Still, ReceiversStep
<1> QED
  BY <1>2, <1>4, <1>5 DEF StepOK, MsgsStep

(* Foreach, NextEntry and Valid *)
LEMMA IteratorOK ==
  ASSUME ListInv, NEW f \in Fibers,
         (\E c \in Chans : Foreach(f, c)) \/ NextEntry(f) \/ Valid(f)
  PROVE  StepOK
<1>1. ASSUME NEW c \in Chans, Foreach(f, c) PROVE StepOK
  BY <1>1, NextEntryOK DEF Foreach, InUser
<1>2. ASSUME NextEntry(f) PROVE StepOK
  <2>1. mode[f] \in {"user", "valid"} /\ loop[f] \in Chans
    BY <1>2, Parts DEF NextEntry, InUser, FibersTyped
  <2>2. UNCHANGED <<status, closes, sent, uses>>
    BY <1>2 DEF NextEntry
  <2>3. FetchNextEntry(f, loop[f], FALSE) \/ LeaveLoop(f)
    BY <1>2 DEF NextEntry
  <2> QED
    BY <2>1, <2>2, <2>3, NextEntryOK, LeaveLoopOK
<1>3. ASSUME Valid(f) PROVE StepOK
  <2>1. mode[f] = "valid"
    BY <1>3 DEF Valid
  <2>2. loop[f] \in Chans
    BY <2>1, Parts DEF FibersTyped, FiberOK
  <2>3. UNCHANGED <<status, closes, sent, uses>>
    BY <1>3 DEF Valid
  <2>4. FetchNextEntry(f, loop[f], TRUE) \/ LeaveLoop(f)
    BY <1>3 DEF Valid
  <2> QED
    BY <2>1, <2>2, <2>3, <2>4, NextEntryOK, LeaveLoopOK
<1> QED
  BY <1>1, <1>2, <1>3

(* Close and CloseReturn *)
LEMMA CloseOK ==
  ASSUME ListInv, NEW f \in Fibers,
         (\E c \in Chans, error \in BOOLEAN : Close(f, c, error)) \/ CloseReturn(f)
  PROVE  StepOK
<1>0. /\ UNCHANGED <<buffer, senders, receivers, sched, msg, loop, fresh, group, sent, fate,
                     got, uses>>
      /\ mode[f] \in {"user", "closing"}
  BY DEF Close, CloseReturn, iter, InUser, Disposing
<1> DEFINE states == {"open", "closed", "failed"}
           Opens(c) == mode' = [mode EXCEPT ![f] = "closing"] /\ closes' = [closes EXCEPT ![f] = c]
           Ends == mode' = [mode EXCEPT ![f] = "user"] /\ closes' = [closes EXCEPT ![f] = None]
<1>1. /\ (status \in [Chans -> states])'
      /\ Ends \/ \E c \in Chans : Opens(c)
  <2>0. status \in [Chans -> states]
    BY Parts DEF ScriptsTyped
  <2>1. ASSUME NEW c \in Chans, NEW error \in BOOLEAN, Close(f, c, error)
        PROVE  (status \in [Chans -> states])' /\ Opens(c)
    <3> DEFINE x == IF error THEN "failed" ELSE "closed"
    <3>1. status' = [status EXCEPT ![c] = x] /\ Opens(c)
      BY <2>1 DEF Close
    <3>2. x \in states
      OBVIOUS
    <3> HIDE DEF states, x
    <3> QED
      BY <2>0, <3>1, <3>2
  <2>2. ASSUME CloseReturn(f) PROVE (status \in [Chans -> states])' /\ Ends
    <3>1. status' = status
      BY <2>2 DEF CloseReturn
    <3> QED
      BY <2>0, <2>2, <3>1 DEF CloseReturn
  <2> QED
    BY <2>1, <2>2
<1>2. /\ \A g \in Fibers \ {f} : mode'[g] = mode[g] /\ closes'[g] = closes[g]
      /\ mode'[f] \in {"user", "closing"} /\ msg'[f] = 0
      /\ mode'[f] = "closing" => closes'[f] # None
  BY <1>0, <1>1, UserIs, Parts, ChannelAssumption DEF FibersTyped
<1>3. ReceiverInv'
  BY <1>0, <1>2, OthersKeep
<1>4. SchedTyped' /\ FibersTyped'
  BY <1>0, <1>1, Parts, SameTyped DEF FibersTyped, Modes
<1>5. ScriptsTyped'
  BY <1>0, <1>1, <1>4, Parts DEF ScriptsTyped
<1>6. Still /\ ReceiversStep
  BY <1>0 DEF Still, ReceiversStep
<1> QED
  BY <1>0, <1>3, <1>5, <1>6 DEF StepOK, MsgsStep

(* DisposeReceiver: an iterator or a select goes on, or a select loses one *)
(* of its channels.                                                        *)
LEMMA DisposeReceiverOK ==
  ASSUME ListInv, NEW f \in Fibers, DisposeReceiver(f)
  PROVE  StepOK
<1>c. PICK c \in Chans : c = closes[f] /\ receivers[c] # <<>>
  BY Parts DEF DisposeReceiver, Disposing, FiberOK, FibersTyped
<1>r. PICK r \in Fibers : r = Head(receivers[c])
  BY <1>c, HeadAwaits
<1>0. /\ c \in Chans /\ receivers[c] # <<>>
      /\ DisposeIterator(c, r) \/ DisposeSelect(c, r)
      /\ UNCHANGED <<buffer, senders, status, msg, closes, sent, fate, got, uses>>
  BY <1>c, <1>r DEF DisposeReceiver
<1>1. /\ c \in Awaits(r) /\ mode[r] \in {"recv", "select"}
      /\ mode[r] = "select" => r \in Grouped
  BY <1>0, <1>r, HeadAwaits
<1>a. receivers[c] \in Seq(Fibers)
  BY <1>0, Parts DEF ListsOf
<1>b. /\ Tail(receivers[c]) \in Seq(Fibers)
      /\ \A x : Contains(receivers[c], x) <=> x = r \/ Contains(Tail(receivers[c]), x)
      /\ Distinct(Tail(receivers[c])) /\ ~Contains(Tail(receivers[c]), r)
  BY <1>0, <1>a, <1>r, Parts, TailHolds
<1>2. Still /\ uses' = uses
  BY <1>0 DEF Still
<1>3. SchedTyped'
  BY <1>0, <1>1, Parts, SwitchTyped, SameTyped DEF DisposeIterator, DisposeSelect
<1>4. SUFFICES ASSUME TRUE
               PROVE  /\ ReceiverInv' /\ ListsOf(receivers, Fibers)' /\ FibersTyped'
                      /\ \A d \in Chans : receivers'[d] # <<>> => receivers[d] # <<>>
  <2>1. ASSUME ListsOf(receivers, Fibers)', FibersTyped'
        PROVE  ScriptsTyped'
    BY <1>0, <1>3, <2>1, Parts DEF ScriptsTyped
  <2> QED
    BY <1>2, <2>1 DEF StepOK, MsgsStep, ReceiversStep
<1>5. CASE DisposeIterator(c, r) /\ status[c] = "failed"
  <2>1. /\ receivers' = Without(receivers, r)
        /\ mode' = [mode EXCEPT ![r] = "user"] /\ loop' = [loop EXCEPT ![r] = None]
        /\ fresh' = [fresh EXCEPT ![r] = FALSE] /\ group' = group
    BY <1>5 DEF DisposeIterator
  <2>2. /\ ReceiverInv' /\ ListsOf(receivers, Fibers)'
        /\ (mode \in [Fibers -> Modes])' /\ (loop \in [Fibers -> Chans \cup {None}])'
    BY <1>0, <1>1, <2>1, LeaveKeeps
  <2>3. FibersTyped'
    BY <1>0, <2>1, <2>2, Parts DEF FibersTyped
  <2> QED
    BY <2>1, <2>2, <2>3, Parts, WithoutHolds
<1>6. CASE DisposeIterator(c, r) /\ status[c] # "failed"
  <2>1. /\ receivers' = Without(receivers, r)
        /\ mode' = [mode EXCEPT ![r] = "valid"] /\ loop' = loop
        /\ fresh' = fresh /\ group' = group /\ mode[r] = "recv"
    BY <1>6 DEF DisposeIterator
  <2>2. /\ ReceiverInv' /\ ListsOf(receivers, Fibers)'
        /\ (mode \in [Fibers -> Modes])' /\ (loop \in [Fibers -> Chans \cup {None}])'
    BY <1>0, <1>1, <2>1, LeaveKeeps
  <2>3. FibersTyped'
    BY <1>0, <2>1, <2>2, Parts DEF FibersTyped
  <2> QED
    BY <2>1, <2>2, <2>3, Parts, WithoutHolds
<1>7. CASE DisposeSelect(c, r)
  <2> DEFINE others == {d \in Chans \ {c} : Contains(receivers[d], r)}
             failed == status[c] = "failed"
             rest == GroupAfterSelect(r, c, IF failed THEN c ELSE None)
  <2>1. CASE failed \/ others = {}
    <3>1. /\ receivers' = Without(receivers, r)
          /\ mode' = [mode EXCEPT ![r] = "user"] /\ loop' = loop /\ fresh' = fresh
          /\ group' = [group EXCEPT ![r] = rest] /\ mode[r] = "select"
      BY <1>7, <2>1 DEF DisposeSelect, iter
    <3>2. /\ ReceiverInv' /\ ListsOf(receivers, Fibers)'
          /\ (mode \in [Fibers -> Modes])' /\ (loop \in [Fibers -> Chans \cup {None}])'
      BY <1>0, <1>1, <3>1, LeaveKeeps
    <3>3. rest \subseteq group[r]
      BY GroupShrinks
    <3> HIDE DEF rest
    <3>4. (group \in [Grouped -> SUBSET Chans])'
      BY <1>1, <3>1, <3>3, Parts DEF FibersTyped
    <3>5. FibersTyped'
      BY <1>0, <3>1, <3>2, <3>4, Parts DEF FibersTyped
    <3> QED
      BY <3>1, <3>2, <3>5, Parts, WithoutHolds
  <2>2. CASE ~failed /\ others # {}
    <3>0. /\ receivers' = [receivers EXCEPT ![c] = Tail(@)]
          /\ UNCHANGED <<mode, group, sched>> /\ mode[r] = "select" /\ UNCHANGED iter
      BY <1>7, <2>2 DEF DisposeSelect
    <3>1. /\ receivers' = [receivers EXCEPT ![c] = Tail(receivers[c])]
          /\ UNCHANGED <<mode, group, loop, fresh, closes, msg>> /\ mode[r] = "select"
      BY <1>0, <3>0 DEF iter
    <3>2. /\ receivers'[c] = Tail(receivers[c]) /\ ListsOf(receivers', Fibers)
          /\ \A d \in Chans \ {c} : receivers'[d] = receivers[d]
      <4>1. c \in Chans /\ ListsOf(receivers, Fibers)
        BY <1>0, Parts
      <4>2. PICK t \in Seq(Fibers) : t = Tail(receivers[c])
        BY <1>b
      <4>3. /\ ListsOf([receivers EXCEPT ![c] = t], Fibers)
            /\ [receivers EXCEPT ![c] = t][c] = t
            /\ \A d \in Chans \ {c} : [receivers EXCEPT ![c] = t][d] = receivers[d]
        BY <4>1, PutHolds
      <4> QED
        BY <3>1, <4>2, <4>3
    <3>3. FiberOK(r)'
      <4>1. Awaits(r)' = others
        BY <1>0, <1>b, <3>2 DEF Awaits
      <4>2. others \subseteq Awaits(r)
        BY DEF Awaits
      <4>3. FiberOK(r)
        BY <1>1, Parts
      <4> HIDE DEF others
      <4> QED
        BY <2>2, <3>1, <4>1, <4>2, <4>3 DEF FiberOK
    <3>4. ASSUME NEW g \in Fibers \ {r} PROVE FiberOK(g)'
      <4>1. \A d \in Chans : Contains(receivers'[d], g) <=> Contains(receivers[d], g)
        BY <1>b, <3>2
      <4>2. FiberOK(g)
        BY Parts
      <4> QED
        BY <1>0, <3>1, <4>1, <4>2, FrameOK
    <3>5. ReceiverInv'
      <4>1. \A d \in Chans : Distinct(receivers'[d])
        <5>1. \A d \in Chans : Distinct(receivers[d])
          BY Parts
        <5> QED
          BY <1>b, <3>2, <5>1
      <4> QED
        BY <3>3, <3>4, <4>1 DEF ReceiverInv
    <3>6. FibersTyped'
      BY <3>1, Parts DEF FibersTyped
    <3> QED
      BY <1>0, <3>2, <3>5, <3>6
  <2> QED
    BY <2>1, <2>2
<1> QED
  BY <1>0, <1>5, <1>6, <1>7

(* Finishing the sends of one message: everybody else keeps waiting. *)
LEMMA OverOK ==
  ASSUME ListInv, NEW m \in Msgs, \E c \in Chans : Contains(senders[c], m),
         NEW becomes \in {"discarded", "failed", "closed"}, FinishSend(m, becomes),
         mode' = ModeAfterSend(m),
         (group \in [Grouped -> SUBSET Chans])',
         \A g \in Grouped : msg[g] # m => group'[g] = group[g],
         UNCHANGED <<buffer, receivers, status, closes, loop, fresh, sent, got, uses>>
  PROVE  StepOK
<1>1. /\ SchedTyped' /\ Over(m, becomes)
      /\ (ModeAfterSend(m) \in [Fibers -> Modes])
      /\ \A g \in Fibers : msg[g] = m =>
            mode[g] \in {"send", "gsend"} /\ ModeAfterSend(m)[g] = "user" /\ msg'[g] = 0
      /\ \A g \in Fibers : msg[g] # m =>
            ModeAfterSend(m)[g] = mode[g] /\ msg'[g] = msg[g]
  BY FinishOK
<1>2. \A g \in Fibers : mode[g] = "select" => g \in Grouped
  BY Parts DEF FiberOK
<1>3. ReceiverInv'
  <2>1. ASSUME NEW g \in Fibers, msg[g] # m
        PROVE  /\ mode'[g] = mode[g] /\ msg'[g] = msg[g]
               /\ loop'[g] = loop[g] /\ closes'[g] = closes[g]
               /\ mode[g] = "select" => group'[g] = group[g]
    BY <1>1, <1>2, <2>1
  <2>2. ASSUME NEW g \in Fibers, msg[g] = m
        PROVE  mode[g] \notin {"recv", "select"} /\ mode'[g] = "user" /\ msg'[g] = 0
    BY <1>1, <2>2
  <2> QED
    BY <2>1, <2>2, OthersKeep
<1>4. ScriptsTyped'
  BY <1>1, Parts DEF ScriptsTyped, FibersTyped
<1>5. Ended(m)
  BY <1>1 DEF Ended
<1> QED
  BY <1>3, <1>4, <1>5 DEF StepOK, MsgsStep, ReceiversStep

(* DisposeSender and SendTimesOut *)
LEMMA DisposeSenderOK ==
  ASSUME ListInv, NEW f \in Fibers, DisposeSender(f)
  PROVE  StepOK
<1> DEFINE c == closes[f]
           m == Head(senders[c])
           failed == status[c] = "failed"
           inGroup == {g \in Owners(m) : mode[g] = "gsend"}
           becomes == IF failed \/ inGroup # {} THEN "failed" ELSE "closed"
<1>1. c \in Chans
  BY Parts DEF DisposeSender, Disposing, FiberOK, FibersTyped
<1>2. /\ senders[c] # <<>>
      /\ FinishSend(m, becomes) /\ mode' = ModeAfterSend(m)
      /\ group' = [g \in Grouped |->
           IF g \in inGroup THEN Compacted(group[g], IF failed THEN c ELSE None) ELSE group[g]]
      /\ UNCHANGED <<buffer, receivers, status, closes, loop, fresh, sent, got, uses>>
  BY DEF DisposeSender, iter
<1>3. m \in Msgs /\ Contains(senders[c], m)
  <2>1. senders[c] \in Seq(Msgs)
    BY <1>1, Parts DEF MsgsTyped, ListsOf
  <2> QED
    BY <1>2, <2>1, TailHolds
<1>4. \A g \in Grouped : msg[g] # m => g \notin inGroup
  BY DEF Owners
<1>5. becomes \in {"discarded", "failed", "closed"}
  OBVIOUS
<1> HIDE DEF inGroup, becomes, failed, m, c
<1>6. \A g \in Grouped : Compacted(group[g], IF failed THEN c ELSE None) \subseteq Chans
  BY Parts, GroupShrinks DEF FibersTyped
<1>7. (group \in [Grouped -> SUBSET Chans])' /\ \A g \in Grouped : msg[g] # m => group'[g] = group[g]
  BY <1>2, <1>4, <1>6, Parts DEF FibersTyped
<1>8. \E d \in Chans : Contains(senders[d], m)
  BY <1>1, <1>3
<1> QED
  BY <1>2, <1>3, <1>5, <1>7, <1>8, OverOK

(* timeout_channel_send_cb and timeout_send_cb *)
LEMMA SendTimesOutOK ==
  ASSUME ListInv, NEW f \in Fibers, SendTimesOut(f)
  PROVE  StepOK
<1>1. msg[f] # 0
  BY Parts DEF SendTimesOut, FiberOK
<1>2. msg[f] \in Msgs /\ \E c \in Chans : Contains(senders[c], msg[f])
  BY <1>1, Parts, ChannelAssumption DEF MsgsTyped, SenderInv, Msgs
<1>3. (group \in [Grouped -> SUBSET Chans])'
  BY Parts DEF SendTimesOut, FibersTyped
<1> QED
  BY <1>2, <1>3, OverOK DEF SendTimesOut, iter

(* A receive that times out or is cancelled. *)
LEMMA ReceiveEndsOK ==
  ASSUME ListInv, NEW f \in Fibers, ReceiveEnds(f)
  PROVE  StepOK
<1>0. /\ mode[f] \in {"recv", "select"} /\ receivers' = Without(receivers, f)
      /\ mode' = [mode EXCEPT ![f] = "user"]
      /\ fresh' = [fresh EXCEPT ![f] = FALSE]
      /\ loop' = loop \/ loop' = [loop EXCEPT ![f] = None]
      /\ SwitchTo(f)
      /\ UNCHANGED <<buffer, senders, status, msg, closes, sent, fate, got, uses>>
  BY DEF ReceiveEnds, LeaveReceivers
<1>1. group' = group \/ (f \in Grouped /\ group' = [group EXCEPT ![f] = GroupAfterSelect(f, None, None)])
  BY Parts DEF ReceiveEnds, LeaveReceivers, FiberOK
<1>2. /\ ReceiverInv' /\ ListsOf(receivers, Fibers)'
      /\ (mode \in [Fibers -> Modes])' /\ (loop \in [Fibers -> Chans \cup {None}])'
  <2>1. group' = group \/ (\E g : group' = [group EXCEPT ![f] = g])
    BY <1>1
  <2> QED
    BY <1>0, <2>1, LeaveKeeps
<1>3. (group \in [Grouped -> SUBSET Chans])'
  <2>1. GroupAfterSelect(f, None, None) \subseteq group[f]
    BY GroupShrinks
  <2> QED
    BY <1>1, <2>1, Parts DEF FibersTyped
<1>4. SchedTyped' /\ (fresh \in [Fibers -> BOOLEAN])'
  BY <1>0, Parts, SwitchTyped DEF FibersTyped
<1>5. ScriptsTyped'
  BY <1>0, <1>2, <1>3, <1>4, Parts DEF ScriptsTyped, FibersTyped
<1>6. Still
  BY <1>0 DEF Still
<1>7. ReceiversStep
  BY <1>0, Parts, WithoutHolds DEF ReceiversStep
<1> QED
  BY <1>0, <1>2, <1>5, <1>6, <1>7 DEF StepOK, MsgsStep

(* cancel_op of a send *)
LEMMA SendCancelledOK ==
  ASSUME ListInv, NEW f \in Fibers, SendCancelled(f)
  PROVE  StepOK
<1>0. /\ mode[f] \in {"send", "gsend"}
      /\ senders' = Without(senders, msg[f]) \/ (uses = "deadline" /\ senders' = senders)
      /\ fate' = [fate EXCEPT ![msg[f]] = "failed"]
      /\ msg' = [msg EXCEPT ![f] = 0]
      /\ mode' = [mode EXCEPT ![f] = "user"]
      /\ SwitchTo(f)
      /\ UNCHANGED <<buffer, receivers, status, closes, loop, fresh, group, sent, got, uses>>
  BY DEF SendCancelled, iter
<1>1. /\ mode'[f] = "user" /\ msg'[f] = 0
      /\ \A g \in Fibers \ {f} : mode'[g] = mode[g] /\ msg'[g] = msg[g]
  BY <1>0, Parts DEF FibersTyped, MsgsTyped
<1>2. ReceiverInv'
  BY <1>0, <1>1, OthersKeep
<1>3. SchedTyped' /\ FibersTyped'
  BY <1>0, Parts, SwitchTyped DEF FibersTyped, Modes
<1>4. ScriptsTyped'
  BY <1>0, <1>3, Parts DEF ScriptsTyped
<1>5. Cancelled(f)
  BY <1>0, Parts DEF Cancelled, FiberOK
<1> QED
  BY <1>0, <1>2, <1>4, <1>5 DEF StepOK, MsgsStep, ReceiversStep

(* ChannelGroup::select *)
LEMMA SelectOK ==
  ASSUME ListInv, NEW f \in Fibers, Select(f)
  PROVE  StepOK
<1> DEFINE s == Survey(group[f])
           ready == {c \in s.entries : ReadableNonblock(c)}
           fetched == {c \in ready : First(c, ready) /\ CanFetch(c)}
           after == [group EXCEPT ![f] = s.entries]
<1>0. /\ uses = "select" /\ mode[f] = "user" /\ f \in Grouped
      /\ UNCHANGED <<status, closes, loop, fresh, sent, uses>>
  BY DEF Select, InUser, iter
<1>1. s.entries \subseteq group[f] /\ group[f] \subseteq Chans
  BY <1>0, Parts DEF Survey, FibersTyped
<1>2. after \in [Grouped -> SUBSET Chans] /\ \A g \in Grouped : g # f => after[g] = group[g]
  BY <1>0, <1>1, Parts DEF FibersTyped
<1>3. \/ \E c \in Chans : CanFetch(c) /\ Fetch(c, after) /\ mode' = ModeAfterFetch(c)
                          /\ UNCHANGED receivers
      \/ group' = after
         /\ UNCHANGED <<buffer, senders, receivers, sched, mode, msg, fate, got>>
      \/ s.entries # {} /\ SelectWaits(f, s.entries)
  <2>1. fetched \subseteq Chans /\ \A c \in fetched : CanFetch(c)
    BY <1>1
  <2> QED
    BY <2>1 DEF Select
<1> HIDE DEF s, after, fetched
<1>4. CASE \E c \in Chans : CanFetch(c) /\ Fetch(c, after) /\ mode' = ModeAfterFetch(c)
                            /\ UNCHANGED receivers
  <2>1. (fresh \in [Fibers -> BOOLEAN])'
    BY <1>0, Parts DEF FibersTyped
  <2> QED
    BY <1>0, <1>2, <1>4, <2>1, FetchOK
<1>5. CASE group' = after
           /\ UNCHANGED <<buffer, senders, receivers, sched, mode, msg, fate, got>>
  <2>1. \A g \in Fibers : mode[g] = "select" => group'[g] = group[g]
    BY <1>0, <1>2, <1>5, Parts DEF FiberOK
  <2>2. ReceiverInv'
    BY <1>0, <1>5, <2>1, OthersKeep
  <2>3. SchedTyped' /\ FibersTyped'
    BY <1>0, <1>2, <1>5, Parts, SameTyped DEF FibersTyped
  <2>4. ScriptsTyped'
    BY <1>0, <1>5, <2>3, Parts DEF ScriptsTyped
  <2>5. Still /\ ReceiversStep
    BY <1>0, <1>5 DEF Still, ReceiversStep
  <2> QED
    BY <1>0, <2>2, <2>4, <2>5 DEF StepOK, MsgsStep
<1>6. CASE s.entries # {} /\ SelectWaits(f, s.entries)
  <2> DEFINE where == s.entries
  <2>1. /\ receivers' = Appended(receivers, where, f)
        /\ mode' = [mode EXCEPT ![f] = "select"]
        /\ group' = [group EXCEPT ![f] = where]
        /\ Suspend
        /\ UNCHANGED <<buffer, senders, msg, fate, got>>
        /\ where # {} /\ where \in SUBSET Chans
    BY <1>1, <1>6 DEF SelectWaits
  <2> HIDE DEF where
  <2>2. /\ ReceiverInv' /\ ListsOf(receivers, Fibers)'
        /\ (mode \in [Fibers -> Modes])' /\ (loop \in [Fibers -> Chans \cup {None}])'
        /\ (group \in [Grouped -> SUBSET Chans])'
    BY <1>0, <2>1, JoinKeeps
  <2>3. SchedTyped'
    BY <2>1, Parts, SuspendTyped
  <2>4. ScriptsTyped'
    BY <1>0, <2>2, <2>3, Parts DEF ScriptsTyped, FibersTyped
  <2>5. Still /\ ReceiversStep
    BY <1>0, <2>1 DEF Still, ReceiversStep
  <2> QED
    BY <1>0, <2>2, <2>4, <2>5 DEF StepOK, MsgsStep
<1> QED
  BY <1>3, <1>4, <1>5, <1>6

(* A stuttering step. *)
LEMMA StutterOK ==
  ASSUME ListInv, UNCHANGED vars
  PROVE  StepOK
<1>0. UNCHANGED <<buffer, senders, receivers, status, running, stack, mode, msg, closes, loop,
                  fresh, group, sent, fate, got, uses>>
  BY DEF vars
<1>1. ReceiverInv'
  BY <1>0, Parts, IdleKeeps
<1>2. SchedTyped' /\ FibersTyped'
  BY <1>0, Parts DEF SchedTyped, FibersTyped
<1>3. ScriptsTyped' /\ Still /\ ReceiversStep
  BY <1>0, <1>2, Parts DEF ScriptsTyped, Still, ReceiversStep
<1> QED
  BY <1>0, <1>1, <1>3 DEF StepOK, MsgsStep

(* Every step. *)
LEMMA EveryStepOK ==
  ASSUME ListInv, [Next]_vars
  PROVE  StepOK
<1>1. ASSUME NEW f \in Fibers, Call(f) PROVE StepOK
  BY <1>1, SendOK, IteratorOK, SelectOK, CloseOK DEF Call
<1>2. ASSUME NEW f \in Fibers, Step(f) PROVE StepOK
  BY <1>2, DisposeReceiverOK, DisposeSenderOK, CloseOK, IteratorOK DEF Step
<1>3. ASSUME Event PROVE StepOK
  BY <1>3, SendTimesOutOK, ReceiveEndsOK, SendCancelledOK, TimerOK DEF Event
<1>4. ASSUME UNCHANGED vars PROVE StepOK
  BY <1>4, StutterOK
<1> QED
  BY <1>1, <1>2, <1>3, <1>4, YieldOK DEF Next

-----------------------------------------------------------------------------
(* Pending sends.                                                          *)

(* The facts about numbers that the messages need. *)
LEMMA Numbers ==
  ASSUME ListInv
  PROVE  /\ Msgs \subseteq Int /\ MaxMsgs \in Nat /\ sent \in Nat /\ sent <= MaxMsgs
         /\ \A m \in Msgs : m \in Nat /\ m # 0
         /\ sent < MaxMsgs => sent + 1 \in Msgs
         /\ \A c \in Chans :
              /\ Rising(senders[c]) /\ Distinct(senders[c])
              /\ \A m \in Msgs : Contains(senders[c], m) => m <= sent
              /\ \A m : Contains(senders[c], m) => m \in Msgs
         /\ \A f \in Fibers : msg[f] # 0 => msg[f] \in Msgs
<1>1. MaxMsgs \in Nat /\ sent \in 0 .. MaxMsgs /\ msg \in [Fibers -> 0 .. MaxMsgs]
  BY Parts, ChannelAssumption DEF MsgsTyped
<1>2. Msgs \subseteq Int /\ \A m \in Msgs : m \in Nat /\ m # 0
  BY <1>1 DEF Msgs
<1>3. \A c \in Chans : Rising(senders[c]) /\ \A m \in Msgs : Contains(senders[c], m) => m <= sent
  BY Parts DEF SenderInv
<1>4. \A c \in Chans : senders[c] \in Seq(Msgs)
  BY Parts DEF MsgsTyped, ListsOf
<1>5. \A c \in Chans : Distinct(senders[c])
  BY <1>2, <1>3, <1>4, RisingDistinct
<1>6. \A c \in Chans : \A m : Contains(senders[c], m) => m \in Msgs
  BY <1>4, EmptyHolds
<1> QED
  BY <1>1, <1>2, <1>3, <1>5, <1>6 DEF Msgs

(* The first pending send of a channel. *)
LEMMA HeadSends ==
  ASSUME ListInv, NEW c \in Chans, senders[c] # <<>>
  PROVE  Head(senders[c]) \in Msgs /\ Contains(senders[c], Head(senders[c]))
<1>1. senders[c] \in Seq(Msgs)
  BY Parts DEF MsgsTyped, ListsOf
<1> QED
  BY <1>1, TailHolds

(* The lists of senders without a message. *)
LEMMA SendersWithout ==
  ASSUME ListInv, NEW m
  PROVE  /\ ListsOf(Without(senders, m), Msgs)
         /\ \A c \in Chans :
              /\ Rising(Without(senders, m)[c])
              /\ \A y : Contains(Without(senders, m)[c], y) <=> Contains(senders[c], y) /\ y # m
              /\ senders[c] = <<>> => Without(senders, m)[c] = <<>>
<1>1. ListsOf(senders, Msgs)
  BY Parts DEF MsgsTyped
<1>2. Msgs \subseteq Int /\ \A c \in Chans : Distinct(senders[c]) /\ Rising(senders[c])
  BY Numbers
<1>3. /\ ListsOf(Without(senders, m), Msgs)
      /\ \A c \in Chans :
           /\ \A y : Contains(Without(senders, m)[c], y) <=> Contains(senders[c], y) /\ y # m
           /\ senders[c] = <<>> => Without(senders, m)[c] = <<>>
           /\ Msgs \subseteq Int /\ Rising(senders[c]) => Rising(Without(senders, m)[c])
  BY <1>1, <1>2, WithoutHolds
<1> QED
  BY <1>2, <1>3

(* A send that is over: what is left of the lists and of the fibers. *)
LEMMA OverKeeps ==
  ASSUME ListInv, NEW m \in Msgs, NEW becomes \in Fates, Over(m, becomes),
         sent' = sent, uses' = uses
  PROVE  /\ SenderInv' /\ ListsOf(senders, Msgs)'
         /\ (msg \in [Fibers -> 0 .. MaxMsgs])' /\ (fate \in [Msgs -> Fates])'
<1>1. /\ ListsOf(senders', Msgs)
      /\ \A c \in Chans :
           /\ Rising(senders'[c])
           /\ \A y : Contains(senders'[c], y) <=> Contains(senders[c], y) /\ y # m
  BY SendersWithout DEF Over
<1>2. /\ \A f \in Fibers : msg'[f] = IF msg[f] = m THEN 0 ELSE msg[f]
      /\ (msg \in [Fibers -> 0 .. MaxMsgs])' /\ (fate \in [Msgs -> Fates])'
  BY Numbers, Parts DEF Over, MsgsTyped
<1>3. \A f, g \in Fibers : msg'[f] = msg'[g] /\ msg'[f] # 0 => f = g
  BY <1>2, Parts DEF SenderInv
<1>4. ASSUME NEW f \in Fibers, msg'[f] # 0
      PROVE  msg'[f] <= sent' /\ \E c \in Chans : Contains(senders'[c], msg'[f])
  <2>1. msg[f] # m /\ msg'[f] = msg[f]
    BY <1>2, <1>4
  <2> QED
    BY <1>1, <1>4, <2>1, Parts DEF SenderInv
<1>5. \A c \in Chans :
        Rising(senders'[c]) /\ \A y \in Msgs : Contains(senders'[c], y) => y <= sent'
  BY <1>1, Numbers
<1>6. ASSUME uses # "deadline", NEW y \in Msgs, NEW c \in Chans, Contains(senders'[c], y)
      PROVE  Owners(y)' # {}
  <2>1. Owners(y) # {} /\ y # m
    BY <1>1, <1>6, Parts DEF SenderInv
  <2> QED
    BY <1>2, <2>1 DEF Owners
<1> QED
  BY <1>1, <1>2, <1>3, <1>4, <1>5, <1>6 DEF SenderInv

(* Nothing happened to the pending sends; a message may be new. *)
LEMMA SameSends ==
  ASSUME ListInv, UNCHANGED <<senders, msg>>, sent' \in Nat, sent <= sent', uses' = uses
  PROVE  SenderInv'
<1>1. \A f \in Fibers : msg[f] # 0 => msg[f] <= sent'
  <2>1. \A f \in Fibers : msg[f] # 0 => msg[f] \in Nat /\ msg[f] <= sent
    BY Numbers, Parts DEF SenderInv
  <2> QED
    BY <2>1, Numbers
<1>2. \A c \in Chans, m \in Msgs : Contains(senders[c], m) => m <= sent'
  <2>1. \A c \in Chans, m \in Msgs : Contains(senders[c], m) => m \in Nat /\ m <= sent
    BY Numbers
  <2> QED
    BY <2>1, Numbers
<1>3. \A m : Owners(m)' = Owners(m)
  BY DEF Owners
<1> QED
  BY <1>1, <1>2, <1>3, Parts DEF SenderInv

(* A message of fate becomes is sent: its number is new. *)
LEMMA SendsTyped ==
  ASSUME ListInv, NEW becomes \in Fates, Sends(becomes)
  PROVE  /\ sent + 1 \in Msgs /\ sent' \in Nat /\ sent <= sent'
         /\ (sent \in 0 .. MaxMsgs)' /\ (fate \in [Msgs -> Fates])'
BY Numbers, Parts DEF Sends, MsgsTyped

(* The list of one channel with an element more. *)
LEMMA PutMore ==
  ASSUME NEW l, ListsOf(l, Msgs), NEW c \in Chans, NEW m \in Msgs
  PROVE  /\ ListsOf([l EXCEPT ![c] = Append(l[c], m)], Msgs)
         /\ [l EXCEPT ![c] = Append(l[c], m)][c] = Append(l[c], m)
         /\ \A d \in Chans \ {c} : [l EXCEPT ![c] = Append(l[c], m)][d] = l[d]
<1>1. PICK t \in Seq(Msgs) : t = Append(l[c], m)
  BY AppendProperties DEF ListsOf
<1>2. /\ ListsOf([l EXCEPT ![c] = t], Msgs)
      /\ [l EXCEPT ![c] = t][c] = t
      /\ \A d \in Chans \ {c} : [l EXCEPT ![c] = t][d] = l[d]
  BY PutHolds
<1> QED
  BY <1>1, <1>2

(* The kinds of steps, each with the senders' part and the types. *)
LEMMA StillKeeps ==
  ASSUME ListInv, Still, uses' = uses
  PROVE  SenderInv' /\ MsgsTyped'
<1>1. UNCHANGED <<buffer, senders, got, sent, fate, msg>>
  BY DEF Still
<1>2. SenderInv'
  BY <1>1, Numbers, SameSends
<1> QED
  BY <1>1, <1>2, Parts DEF MsgsTyped

(* Refused, Handed and Stored *)
LEMMA SentKeeps ==
  ASSUME ListInv, uses' = uses, Refused \/ \E c \in Chans : Handed(c) \/ Stored(c)
  PROVE  SenderInv' /\ MsgsTyped'
<1>1. PICK becomes \in {"failed", "discarded", "accepted"} : Sends(becomes)
  BY DEF Refused, Handed, Stored
<1>2. /\ sent + 1 \in Msgs /\ sent' \in Nat /\ sent <= sent'
      /\ (sent \in 0 .. MaxMsgs)' /\ (fate \in [Msgs -> Fates])'
  BY <1>1, SendsTyped DEF Fates
<1>3. UNCHANGED <<senders, msg>>
  BY DEF Refused, Handed, Stored
<1>4. SenderInv'
  BY <1>2, <1>3, SameSends
<1>5. ListsOf(buffer, Msgs)' /\ ListsOf(got, Msgs)'
  <2>1. ListsOf(buffer, Msgs) /\ ListsOf(got, Msgs)
    BY Parts DEF MsgsTyped
  <2>2. CASE Refused
    BY <2>1, <2>2 DEF Refused
  <2>3. ASSUME NEW c \in Chans, Handed(c) PROVE <1>5
    <3>1. got' = [got EXCEPT ![c] = Append(got[c], sent + 1)] /\ buffer' = buffer
      BY <2>3 DEF Handed
    <3> QED
      BY <1>2, <2>1, <3>1, PutMore
  <2>4. ASSUME NEW c \in Chans, Stored(c) PROVE <1>5
    <3>1. buffer' = [buffer EXCEPT ![c] = Append(buffer[c], sent + 1)] /\ got' = got
      BY <2>4 DEF Stored
    <3> QED
      BY <1>2, <2>1, <3>1, PutMore
  <2> QED
    BY <2>2, <2>3, <2>4
<1> QED
  BY <1>2, <1>3, <1>4, <1>5, Parts DEF MsgsTyped

(* Parked *)
LEMMA ParkedKeeps ==
  ASSUME ListInv, uses' = uses, NEW f \in Fibers, NEW where \in SUBSET Chans, Parked(f, where)
  PROVE  SenderInv' /\ MsgsTyped'
<1>0. /\ where # {} /\ msg[f] = 0
      /\ senders' = Appended(senders, where, sent + 1)
      /\ msg' = [msg EXCEPT ![f] = sent + 1] \/ (uses = "deadline" /\ msg' = msg)
      /\ UNCHANGED <<buffer, got>>
      /\ Sends("pending") \/ Sends("failed")
  BY DEF Parked
<1>1. /\ sent + 1 \in Msgs /\ sent' \in Nat /\ sent <= sent'
      /\ (sent \in 0 .. MaxMsgs)' /\ (fate \in [Msgs -> Fates])'
      /\ sent' = sent + 1
  BY <1>0, SendsTyped DEF Fates, Sends
<1>2. /\ ListsOf(Appended(senders, where, sent + 1), Msgs)
      /\ \A c \in Chans :
           /\ \A y : Contains(Appended(senders, where, sent + 1)[c], y) <=>
                       Contains(senders[c], y) \/ (c \in where /\ y = sent + 1)
           /\ /\ Msgs \subseteq Int /\ Rising(senders[c])
              /\ \A y \in Msgs : Contains(senders[c], y) => y < sent + 1
              => Rising(Appended(senders, where, sent + 1)[c])
  <2>1. ListsOf(senders, Msgs)
    BY Parts DEF MsgsTyped
  <2>2. PICK e \in Msgs : e = sent + 1
    BY <1>1
  <2>3. /\ ListsOf(Appended(senders, where, e), Msgs)
        /\ \A c \in Chans :
             /\ \A y : Contains(Appended(senders, where, e)[c], y) <=>
                         Contains(senders[c], y) \/ (c \in where /\ y = e)
             /\ /\ Msgs \subseteq Int /\ Rising(senders[c])
                /\ \A y \in Msgs : Contains(senders[c], y) => y < e
                => Rising(Appended(senders, where, e)[c])
    BY <2>1, AppendedHolds
  <2> QED
    BY <2>2, <2>3
<1>3. \A c \in Chans : \A y \in Msgs : Contains(senders[c], y) => y < sent + 1
  BY Numbers
<1>4. \A c \in Chans : Rising(senders'[c])
  BY <1>0, <1>2, <1>3, Numbers
<1>5. \A c \in Chans, y \in Msgs : Contains(senders'[c], y) => y <= sent'
  BY <1>0, <1>1, <1>2, <1>3, Numbers
<1>6. /\ msg'[f] = sent + 1 \/ (uses = "deadline" /\ msg'[f] = 0)
      /\ \A g \in Fibers \ {f} : msg'[g] = msg[g]
      /\ (msg \in [Fibers -> 0 .. MaxMsgs])'
  BY <1>0, <1>1, Parts DEF MsgsTyped, Msgs
<1>7. \A g \in Fibers : msg[g] # 0 => msg[g] \in Nat /\ msg[g] <= sent
  BY Numbers, Parts DEF SenderInv
<1>8. \A g, h \in Fibers : msg'[g] = msg'[h] /\ msg'[g] # 0 => g = h
  <2>1. \A g \in Fibers \ {f} : msg'[g] # sent + 1
    BY <1>1, <1>6, <1>7, Numbers
  <2>2. \A g, h \in Fibers \ {f} : msg'[g] = msg'[h] /\ msg'[g] # 0 => g = h
    BY <1>6, Parts DEF SenderInv
  <2> QED
    BY <1>6, <2>1, <2>2
<1>9. ASSUME NEW g \in Fibers, msg'[g] # 0
      PROVE  msg'[g] <= sent' /\ \E c \in Chans : Contains(senders'[c], msg'[g])
  <2>1. CASE g = f
    <3>1. msg'[f] = sent + 1
      BY <1>6, <1>9, <2>1
    <3> QED
      BY <1>0, <1>1, <1>2, <2>1, <3>1
  <2>2. CASE g # f
    <3>1. msg'[g] = msg[g] /\ msg[g] # 0
      BY <1>6, <1>9, <2>2
    <3>2. PICK c \in Chans : Contains(senders[c], msg[g])
      BY <3>1, Parts DEF SenderInv
    <3>3. Contains(senders'[c], msg[g])
      BY <1>0, <1>2, <3>2
    <3> QED
      BY <1>1, <1>7, <3>1, <3>3, Numbers
  <2> QED
    BY <2>1, <2>2
<1>10. ASSUME uses # "deadline", NEW y \in Msgs, NEW c \in Chans, Contains(senders'[c], y)
       PROVE  Owners(y)' # {}
  <2>1. CASE y = sent + 1
    BY <1>6, <1>10, <2>1 DEF Owners
  <2>2. CASE y # sent + 1
    <3>1. Contains(senders[c], y)
      BY <1>0, <1>2, <1>10, <2>2
    <3>2. PICK g \in Fibers : msg[g] = y
      BY <1>10, <3>1, Parts DEF SenderInv, Owners
    <3>3. g # f
      BY <1>0, <3>2, Numbers
    <3> QED
      BY <1>6, <3>2, <3>3 DEF Owners
  <2> QED
    BY <2>1, <2>2
<1>11. SenderInv'
  BY <1>4, <1>5, <1>8, <1>9, <1>10 DEF SenderInv
<1> QED
  BY <1>0, <1>1, <1>2, <1>6, <1>11, Parts DEF MsgsTyped

(* Fetched *)
LEMMA FetchedKeeps ==
  ASSUME ListInv, uses' = uses, NEW c \in Chans, Fetched(c)
  PROVE  SenderInv' /\ MsgsTyped'
<1>0. sent' = sent /\ ListsOf(buffer, Msgs) /\ ListsOf(got, Msgs) /\ buffer[c] \in Seq(Msgs)
  BY Parts DEF Fetched, MsgsTyped, ListsOf
<1>a. buffer[c] # <<>> => Head(buffer[c]) \in Msgs /\ Tail(buffer[c]) \in Seq(Msgs)
  BY <1>0, TailHolds
<1>1. CASE senders[c] = <<>>
  <2>1. /\ got' = [got EXCEPT ![c] = Append(got[c], Head(buffer[c]))]
        /\ buffer' = [buffer EXCEPT ![c] = Tail(buffer[c])]
        /\ UNCHANGED <<senders, msg, fate>> /\ buffer[c] # <<>>
    BY <1>1 DEF Fetched, CanFetch
  <2>2. ListsOf(got', Msgs)
    BY <1>0, <1>a, <2>1, PutMore
  <2>3. ListsOf(buffer', Msgs)
    <3>1. PICK t \in Seq(Msgs) : t = Tail(buffer[c])
      BY <1>a, <2>1
    <3>2. ListsOf([buffer EXCEPT ![c] = t], Msgs)
      BY <1>0, PutHolds
    <3> QED
      BY <2>1, <3>1, <3>2
  <2>4. SenderInv'
    BY <1>0, <2>1, Numbers, SameSends
  <2> QED
    BY <1>0, <2>1, <2>2, <2>3, <2>4, Parts DEF MsgsTyped
<1>2. CASE senders[c] # <<>>
  <2>1. PICK m \in Msgs : m = Head(senders[c])
    BY <1>2, HeadSends
  <2>2. PICK becomes \in {"accepted", "late"} : Over(m, becomes)
    BY <1>2, <2>1 DEF Fetched
  <2>3. /\ SenderInv' /\ ListsOf(senders, Msgs)'
        /\ (msg \in [Fibers -> 0 .. MaxMsgs])' /\ (fate \in [Msgs -> Fates])'
    BY <1>0, <2>2, OverKeeps DEF Fates
  <2>4. CASE buffer[c] = <<>>
    <3>1. got' = [got EXCEPT ![c] = Append(got[c], m)] /\ buffer' = buffer
      BY <1>2, <2>1, <2>4 DEF Fetched
    <3>2. ListsOf(got', Msgs)
      BY <1>0, <3>1, PutMore
    <3> QED
      BY <1>0, <2>3, <3>1, <3>2, Parts DEF MsgsTyped
  <2>5. CASE buffer[c] # <<>>
    <3>1. /\ got' = [got EXCEPT ![c] = Append(got[c], Head(buffer[c]))]
          /\ buffer' = [buffer EXCEPT ![c] = Append(Tail(buffer[c]), m)]
      BY <1>2, <2>1, <2>5 DEF Fetched
    <3>2. ListsOf(got', Msgs)
      BY <1>0, <1>a, <2>5, <3>1, PutMore
    <3>3. PICK t \in Seq(Msgs) : t = Append(Tail(buffer[c]), m)
      BY <1>a, <2>5, AppendProperties
    <3>4. ListsOf([buffer EXCEPT ![c] = t], Msgs)
      BY <1>0, PutHolds
    <3> QED
      BY <1>0, <2>3, <3>1, <3>2, <3>3, <3>4, Parts DEF MsgsTyped
  <2> QED
    BY <2>4, <2>5
<1> QED
  BY <1>1, <1>2

(* Ended *)
LEMMA EndedKeeps ==
  ASSUME ListInv, uses' = uses, NEW m \in Msgs, Ended(m)
  PROVE  SenderInv' /\ MsgsTyped'
<1>1. PICK becomes \in {"discarded", "failed", "closed"} : Over(m, becomes)
  BY DEF Ended
<1>2. UNCHANGED <<buffer, got, sent>>
  BY DEF Ended
<1>3. /\ SenderInv' /\ ListsOf(senders, Msgs)'
      /\ (msg \in [Fibers -> 0 .. MaxMsgs])' /\ (fate \in [Msgs -> Fates])'
  BY <1>1, <1>2, OverKeeps DEF Fates
<1> QED
  BY <1>2, <1>3, Parts DEF MsgsTyped

(* Cancelled *)
LEMMA CancelledKeeps ==
  ASSUME ListInv, uses' = uses, NEW f \in Fibers, Cancelled(f)
  PROVE  SenderInv' /\ MsgsTyped'
<1>0. /\ msg[f] # 0
      /\ senders' = Without(senders, msg[f]) \/ (uses = "deadline" /\ senders' = senders)
      /\ fate' = [fate EXCEPT ![msg[f]] = "failed"]
      /\ msg' = [msg EXCEPT ![f] = 0]
      /\ UNCHANGED <<buffer, got, sent>>
  BY DEF Cancelled
<1>1. PICK m \in Msgs : m = msg[f]
  BY <1>0, Numbers
<1>2. /\ ListsOf(senders', Msgs)
      /\ \A c \in Chans :
           /\ Rising(senders'[c])
           /\ \A y : Contains(senders'[c], y) => Contains(senders[c], y)
           /\ uses # "deadline" => ~Contains(senders'[c], m)
           /\ \A y : Contains(senders[c], y) /\ y # m => Contains(senders'[c], y)
  <2>1. CASE senders' = Without(senders, m)
    BY <2>1, SendersWithout
  <2>2. CASE senders' = senders /\ uses = "deadline"
    BY <2>2, Parts, Numbers DEF MsgsTyped
  <2> QED
    BY <1>0, <1>1, <2>1, <2>2
<1>3. /\ msg'[f] = 0 /\ \A g \in Fibers \ {f} : msg'[g] = msg[g]
      /\ (msg \in [Fibers -> 0 .. MaxMsgs])' /\ (fate \in [Msgs -> Fates])'
  BY <1>0, Numbers, Parts DEF MsgsTyped, Fates
<1>4. \A g, h \in Fibers : msg'[g] = msg'[h] /\ msg'[g] # 0 => g = h
  BY <1>3, Parts DEF SenderInv
<1>5. ASSUME NEW g \in Fibers, msg'[g] # 0
      PROVE  msg'[g] <= sent' /\ \E c \in Chans : Contains(senders'[c], msg'[g])
  <2>1. g # f /\ msg'[g] = msg[g]
    BY <1>3, <1>5
  <2>2. msg[g] # m
    BY <1>0, <1>1, <2>1, Parts DEF SenderInv
  <2> QED
    BY <1>0, <1>2, <1>5, <2>1, <2>2, Parts DEF SenderInv
<1>6. \A c \in Chans :
        Rising(senders'[c]) /\ \A y \in Msgs : Contains(senders'[c], y) => y <= sent'
  BY <1>0, <1>2, Numbers
<1>7. ASSUME uses # "deadline", NEW y \in Msgs, NEW c \in Chans, Contains(senders'[c], y)
      PROVE  Owners(y)' # {}
  <2>1. y # m /\ \E g \in Fibers : msg[g] = y
    BY <1>2, <1>7, Parts DEF SenderInv, Owners
  <2> QED
    BY <1>1, <1>3, <2>1 DEF Owners
<1>8. SenderInv'
  BY <1>4, <1>5, <1>6, <1>7 DEF SenderInv
<1> QED
  BY <1>0, <1>2, <1>3, <1>8, Parts DEF MsgsTyped

(* Freed *)
LEMMA FreedKeeps ==
  ASSUME ListInv, uses' = uses, NEW m \in Msgs, Freed(m)
  PROVE  SenderInv' /\ MsgsTyped'
<1>0. Owners(m) = {} /\ senders' = Without(senders, m) /\ UNCHANGED <<buffer, got, sent, msg, fate>>
  BY DEF Freed
<1>1. /\ ListsOf(senders', Msgs)
      /\ \A c \in Chans :
           /\ Rising(senders'[c])
           /\ \A y : Contains(senders'[c], y) <=> Contains(senders[c], y) /\ y # m
  BY <1>0, SendersWithout
<1>2. \A f \in Fibers : msg[f] # m
  BY <1>0 DEF Owners
<1>3. \A f \in Fibers : msg[f] # 0 =>
        msg[f] <= sent' /\ \E c \in Chans : Contains(senders'[c], msg[f])
  BY <1>0, <1>1, <1>2, Parts DEF SenderInv
<1>4. \A c \in Chans, y \in Msgs : Contains(senders'[c], y) => y <= sent'
  BY <1>0, <1>1, Numbers
<1>5. \A y : Owners(y)' = Owners(y)
  BY <1>0 DEF Owners
<1>6. SenderInv'
  BY <1>0, <1>1, <1>3, <1>4, <1>5, Parts DEF SenderInv
<1> QED
  BY <1>0, <1>1, <1>6, Parts DEF MsgsTyped

(* All the kinds of steps. *)
LEMMA MsgsStepKeeps ==
  ASSUME ListInv, MsgsStep
  PROVE  SenderInv' /\ MsgsTyped'
BY StillKeeps, SentKeeps, ParkedKeeps, FetchedKeeps, EndedKeeps, CancelledKeeps, FreedKeeps
   DEF MsgsStep

(* Nothing is in a list at first. *)
LEMMA InitLists ==
  ASSUME Init
  PROVE  ListInv
<1>1. \A S : <<>> \in Seq(S)
  OBVIOUS
<1>2. \A x : ~Contains(<<>>, x)
  BY DEF Contains
<1>3. Distinct(<<>>) /\ Rising(<<>>)
  BY DEF Distinct, Rising
<1>4. MaxMsgs \in Nat
  BY ChannelAssumption
<1>5. SchedTyped
  BY <1>1 DEF Init, SchedTyped
<1>6. FibersTyped
  BY DEF Init, FibersTyped, Modes
<1>7. ListsOf(buffer, Msgs) /\ ListsOf(senders, Msgs) /\ ListsOf(got, Msgs) /\ ListsOf(receivers, Fibers)
  <2>1. ASSUME NEW S PROVE ListsOf([c \in Chans |-> <<>>], S)
    <3> DEFINE T == Seq(S)
    <3>1. <<>> \in T
      BY <1>1
    <3> HIDE DEF T
    <3>2. [c \in Chans |-> <<>>] \in [Chans -> T]
      BY <3>1
    <3> QED
      BY <3>2 DEF T, ListsOf
  <2> QED
    BY <2>1 DEF Init
<1>8. MsgsTyped
  BY <1>4, <1>7 DEF Init, MsgsTyped, Fates
<1>9. ScriptsTyped
  BY <1>5, <1>6, <1>7 DEF Init, ScriptsTyped
<1>10. \A c \in Chans : receivers[c] = <<>> /\ senders[c] = <<>>
  BY DEF Init
<1>11. \A f \in Fibers : mode[f] = "user" /\ msg[f] = 0
  BY DEF Init
<1>12. \A f \in Fibers : Awaits(f) = {}
  BY <1>2, <1>10 DEF Awaits
<1>13. ReceiverInv
  BY <1>3, <1>10, <1>11, <1>12 DEF ReceiverInv, FiberOK
<1>14. SenderInv
  BY <1>2, <1>3, <1>10, <1>11 DEF SenderInv
<1> QED
  BY <1>8, <1>9, <1>13, <1>14 DEF ListInv, Typed

(* The lists' invariant holds in every state of every script. *)
LEMMA ListsInvariant == Spec => []ListInv
<1>1. Init => ListInv
  BY InitLists
<1>2. ListInv /\ [Next]_vars => ListInv'
  BY EveryStepOK, MsgsStepKeeps DEF StepOK, ListInv, Typed
<1> QED
  BY <1>1, <1>2, PTL DEF Spec

(* Every variable of the channels keeps its type (ext/async/channel.c): a  *)
(* scheduler's list holds fibers only, and a list of operations its kind.  *)
THEOREM ChannelTypes == Spec => []TypeOK
<1>1. ListInv => TypeOK
  BY TypedIsTypeOK DEF ListInv
<1> QED
  BY <1>1, ListsInvariant, PTL

(* A fiber that waits is in the lists of the channels it waits for, and an *)
(* operation in a list has its fiber: every callback of a timer, close or  *)
(* cancellation takes out what it should (ASYNC_FREE_OP, cleanup).         *)
THEOREM WaitersAreRegistered == Spec => []WaitersRegistered
BY ListInvRegisters, ListsInvariant, PTL

-----------------------------------------------------------------------------
(* Senders and receivers.                                                  *)

(* A step that changes no buffer and adds no pending send keeps it. *)
LEMMA RendezvousShrinks ==
  ASSUME ListInv, Rendezvous, uses # "select", uses' = uses, ReceiversStep, buffer' = buffer,
         \A c \in Chans : senders[c] = <<>> => senders'[c] = <<>>
  PROVE  Rendezvous'
<1>1. \A c \in Chans :
        /\ senders[c] # <<>> => receivers[c] = <<>> /\ ~HasRoom(c)
        /\ receivers[c] # <<>> => buffer[c] = <<>>
  BY DEF Rendezvous
<1>2. \A c \in Chans : receivers'[c] # <<>> =>
        senders[c] = <<>> /\ buffer[c] = <<>>
  BY <1>1 DEF ReceiversStep, CanFetch
<1>3. \A c \in Chans : HasRoom(c)' <=> HasRoom(c)
  BY DEF HasRoom
<1> QED
  BY <1>1, <1>2, <1>3 DEF Rendezvous

(* A message in the buffer: there was room, and nobody waited. *)
LEMMA RendezvousStored ==
  ASSUME ListInv, Rendezvous, uses # "select", uses' = uses, ReceiversStep,
         NEW c \in Chans, Stored(c)
  PROVE  Rendezvous'
<1>1. \A d \in Chans :
        /\ senders[d] # <<>> => receivers[d] = <<>> /\ ~HasRoom(d)
        /\ receivers[d] # <<>> => buffer[d] = <<>>
  BY DEF Rendezvous
<1>2. sent' # sent
  BY Numbers DEF Stored, Sends
<1>3. \A d \in Chans : receivers'[d] # <<>> => receivers[d] # <<>>
  BY <1>2 DEF ReceiversStep, Still
<1>4. senders' = senders /\ \A d \in Chans \ {c} : buffer'[d] = buffer[d]
  BY Parts DEF Stored, MsgsTyped, ListsOf
<1>5. receivers'[c] = <<>> /\ senders'[c] = <<>>
  BY <1>1, <1>3, <1>4 DEF Stored
<1>6. \A d \in Chans \ {c} : HasRoom(d)' <=> HasRoom(d)
  BY <1>4 DEF HasRoom
<1> QED
  BY <1>1, <1>3, <1>4, <1>5, <1>6 DEF Rendezvous

(* A send that waits: there was no room and no receiver. *)
LEMMA RendezvousParked ==
  ASSUME ListInv, Rendezvous, uses # "select", uses' = uses, ReceiversStep,
         NEW f \in Fibers, NEW where \in SUBSET Chans, Parked(f, where)
  PROVE  Rendezvous'
<1>1. \A d \in Chans :
        /\ senders[d] # <<>> => receivers[d] = <<>> /\ ~HasRoom(d)
        /\ receivers[d] # <<>> => buffer[d] = <<>>
  BY DEF Rendezvous
<1>2. sent' # sent
  BY Numbers DEF Parked, Sends
<1>3. \A d \in Chans : receivers'[d] # <<>> => receivers[d] # <<>>
  BY <1>2 DEF ReceiversStep, Still
<1>4. \A d \in Chans : d \notin where => senders'[d] = senders[d]
  BY DEF Parked, Appended
<1>5. \A d \in where : receivers[d] = <<>> /\ ~HasRoom(d)
  BY DEF Parked
<1>6. buffer' = buffer /\ \A d \in Chans : HasRoom(d)' <=> HasRoom(d)
  BY DEF Parked, HasRoom
<1> QED
  BY <1>1, <1>3, <1>4, <1>5, <1>6 DEF Rendezvous

(* A fetched message: a buffer that others wait for stays full. *)
LEMMA RendezvousFetched ==
  ASSUME ListInv, Rendezvous, uses # "select", uses' = uses, ReceiversStep,
         NEW c \in Chans, Fetched(c)
  PROVE  Rendezvous'
<1>1. \A d \in Chans :
        /\ senders[d] # <<>> => receivers[d] = <<>> /\ ~HasRoom(d)
        /\ receivers[d] # <<>> => buffer[d] = <<>>
  BY DEF Rendezvous
<1>2. receivers[c] = <<>> /\ CanFetch(c)
  BY <1>1 DEF Fetched, CanFetch
<1>3. /\ receivers'[c] = <<>>
      /\ \A d \in Chans : receivers'[d] # <<>> => senders[d] = <<>> /\ buffer[d] = <<>>
  BY <1>1, <1>2 DEF ReceiversStep, CanFetch
<1>4. \A d \in Chans : senders[d] = <<>> => senders'[d] = <<>>
  <2>1. CASE senders' = senders
    BY <2>1
  <2>2. CASE senders' = Without(senders, Head(senders[c]))
    <3>1. PICK m : m = Head(senders[c])
      OBVIOUS
    <3> QED
      BY <2>2, <3>1, SendersWithout
  <2> QED
    BY <2>1, <2>2 DEF Fetched, Over
<1>a. ListsOf(buffer, Msgs) /\ buffer[c] \in Seq(Msgs)
  BY Parts DEF MsgsTyped, ListsOf
<1>5. /\ \A d \in Chans \ {c} : buffer'[d] = buffer[d]
      /\ senders[c] # <<>> => Len(buffer'[c]) = Len(buffer[c])
  <2>1. CASE senders[c] = <<>>
    BY <1>a, <2>1 DEF Fetched, ListsOf
  <2>2. CASE senders[c] # <<>> /\ buffer[c] = <<>>
    BY <2>2 DEF Fetched
  <2>3. CASE senders[c] # <<>> /\ buffer[c] # <<>>
    <3>1. buffer' = [buffer EXCEPT ![c] = Append(Tail(buffer[c]), Head(senders[c]))]
      BY <2>3 DEF Fetched
    <3>2. PICK m \in Msgs : m = Head(senders[c])
      BY <2>3, HeadSends
    <3>3. Tail(buffer[c]) \in Seq(Msgs) /\ Len(Tail(buffer[c])) = Len(buffer[c]) - 1
      BY <1>a, <2>3, TailHolds
    <3>4. PICK t \in Seq(Msgs) : t = Tail(buffer[c])
      BY <3>3
    <3>5. Len(Append(t, m)) = Len(t) + 1
      BY AppendHolds
    <3>6. Len(buffer[c]) \in Nat
      BY <1>a, LenProperties
    <3>7. Len(buffer'[c]) = Len(Append(t, m)) /\ \A d \in Chans \ {c} : buffer'[d] = buffer[d]
      BY <1>a, <3>1, <3>2, <3>4 DEF ListsOf
    <3> QED
      BY <3>3, <3>4, <3>5, <3>6, <3>7
  <2> QED
    BY <2>1, <2>2, <2>3
<1>6. \A d \in Chans : senders'[d] # <<>> => senders[d] # <<>> /\ (HasRoom(d)' <=> HasRoom(d))
  BY <1>4, <1>5 DEF HasRoom
<1>7. ASSUME NEW d \in Chans, receivers'[d] # <<>> PROVE buffer'[d] = <<>>
  BY <1>3, <1>5, <1>7
<1>8. ASSUME NEW d \in Chans, senders'[d] # <<>> PROVE receivers'[d] = <<>> /\ ~HasRoom(d)'
  BY <1>1, <1>3, <1>6, <1>8
<1> QED
  BY <1>7, <1>8 DEF Rendezvous

(* What a send that is over leaves in a list that was empty. *)
LEMMA EmptyStays ==
  ASSUME ListInv, NEW m, senders' = Without(senders, m)
  PROVE  \A c \in Chans : senders[c] = <<>> => senders'[c] = <<>>
BY SendersWithout

(* Every step of a script without a select keeps it. *)
LEMMA RendezvousStep ==
  ASSUME ListInv, Rendezvous, MsgsStep, ReceiversStep
  PROVE  Rendezvous'
<1>0. uses' = uses
  BY DEF MsgsStep
<1>1. CASE uses = "select"
  BY <1>0, <1>1 DEF Rendezvous
<1>2. CASE uses # "select"
  <2>1. CASE Still \/ Refused \/ \E c \in Chans : Handed(c)
    <3>1. buffer' = buffer /\ senders' = senders
      BY <2>1 DEF Still, Refused, Handed
    <3> QED
      BY <1>0, <1>2, <3>1, RendezvousShrinks
  <2>2. CASE \E c \in Chans : Stored(c)
    BY <1>0, <1>2, <2>2, RendezvousStored
  <2>3. CASE \E c \in Chans : Fetched(c)
    BY <1>0, <1>2, <2>3, RendezvousFetched
  <2>4. CASE \E f \in Fibers, where \in SUBSET Chans : Parked(f, where)
    BY <1>0, <1>2, <2>4, RendezvousParked
  <2>5. ASSUME NEW f \in Fibers, Cancelled(f) PROVE Rendezvous'
    <3>1. buffer' = buffer /\ (senders' = Without(senders, msg[f]) \/ senders' = senders)
      BY <2>5 DEF Cancelled
    <3>2. PICK m : m = msg[f]
      OBVIOUS
    <3>3. \A c \in Chans : senders[c] = <<>> => senders'[c] = <<>>
      BY <3>1, <3>2, EmptyStays
    <3> QED
      BY <1>0, <1>2, <3>1, <3>3, RendezvousShrinks
  <2>6. ASSUME NEW m \in Msgs, Ended(m) \/ Freed(m) PROVE Rendezvous'
    <3>1. buffer' = buffer /\ senders' = Without(senders, m)
      BY <2>6 DEF Ended, Freed, Over
    <3> QED
      BY <1>0, <1>2, <3>1, EmptyStays, RendezvousShrinks
  <2> QED
    BY <2>1, <2>2, <2>3, <2>4, <2>5, <2>6 DEF MsgsStep
<1> QED
  BY <1>1, <1>2

-----------------------------------------------------------------------------
(* The order of messages.                                                  *)

(* Everything in one list was sent before anything in the other. *)
Below(s, t) == \A x, y \in Msgs : Contains(s, x) /\ Contains(t, y) => x < y

(* The order of the messages of a channel: taken out, in the buffer, sent. *)
InOrder(g, b, s) ==
  Rising(g) /\ Rising(b) /\ Rising(s) /\ Below(g, b) /\ Below(g, s) /\ Below(b, s)

(* A pending send that is over disturbs no order. *)
LEMMA OrderShrinks ==
  ASSUME NEW g, NEW b, NEW s, NEW t, InOrder(g, b, s), Rising(t),
         \A y : Contains(t, y) => Contains(s, y)
  PROVE  InOrder(g, b, t)
BY DEF InOrder, Below

(* The new message goes to the end of what it is put into. *)
LEMMA OrderSends ==
  ASSUME Msgs \subseteq Int, NEW g \in Seq(Msgs), NEW b \in Seq(Msgs), NEW s \in Seq(Msgs),
         InOrder(g, b, s), NEW e \in Msgs,
         \A x \in Msgs : Contains(g, x) \/ Contains(b, x) \/ Contains(s, x) => x < e
  PROVE  /\ b = <<>> /\ s = <<>> => InOrder(Append(g, e), b, s)
         /\ s = <<>> => InOrder(g, Append(b, e), s)
         /\ \A t : /\ Rising(t)
                   /\ \A y : Contains(t, y) => Contains(s, y) \/ y = e
                   => InOrder(g, b, t)
<1>0. \A x : ~Contains(<<>>, x)
  BY DEF Contains
<1>1. /\ Rising(Append(g, e))
      /\ \A x : Contains(Append(g, e), x) <=> x = e \/ Contains(g, x)
  BY AppendHolds DEF InOrder
<1>2. /\ Rising(Append(b, e))
      /\ \A x : Contains(Append(b, e), x) <=> x = e \/ Contains(b, x)
  BY AppendHolds DEF InOrder
<1>3. b = <<>> /\ s = <<>> => InOrder(Append(g, e), b, s)
  BY <1>0, <1>1 DEF InOrder, Below
<1>4. s = <<>> => InOrder(g, Append(b, e), s)
  BY <1>0, <1>2 DEF InOrder, Below
<1>5. ASSUME NEW t, Rising(t), \A y : Contains(t, y) => Contains(s, y) \/ y = e
      PROVE  InOrder(g, b, t)
  BY <1>5 DEF InOrder, Below
<1> QED
  BY <1>3, <1>4, <1>5

(* A message taken out of a channel is the first that is in it. *)
LEMMA OrderFetches ==
  ASSUME Msgs \subseteq Int, NEW g \in Seq(Msgs), NEW b \in Seq(Msgs), NEW s \in Seq(Msgs),
         InOrder(g, b, s), NEW t, Rising(t),
         \A y : Contains(t, y) => Contains(s, y) /\ (s # <<>> => y # Head(s))
  PROVE  /\ b # <<>> => InOrder(Append(g, Head(b)), Tail(b), t)
         /\ b = <<>> /\ s # <<>> => InOrder(Append(g, Head(s)), b, t)
         /\ b # <<>> /\ s # <<>> => InOrder(Append(g, Head(b)), Append(Tail(b), Head(s)), t)
<1>0. \A x : ~Contains(<<>>, x)
  BY DEF Contains
<1>1. /\ Rising(g) /\ Rising(b) /\ Rising(s) /\ Below(g, b) /\ Below(g, s) /\ Below(b, s)
      /\ \A x : Contains(g, x) \/ Contains(b, x) \/ Contains(s, x) => x \in Msgs
  BY EmptyHolds DEF InOrder
<1>2. ASSUME b # <<>>
      PROVE  \E x \in Msgs, u \in Seq(Msgs) :
               /\ x = Head(b) /\ u = Tail(b) /\ Rising(u)
               /\ \A y : Contains(b, y) <=> y = x \/ Contains(u, y)
               /\ \A y : Contains(u, y) => x < y
  <2>1. /\ Head(b) \in Msgs /\ Tail(b) \in Seq(Msgs) /\ Rising(Tail(b))
        /\ \A y : Contains(b, y) <=> y = Head(b) \/ Contains(Tail(b), y)
        /\ \A y : Contains(Tail(b), y) => Head(b) < y
    BY <1>1, <1>2, TailHolds
  <2> QED
    BY <2>1
<1>3. ASSUME s # <<>>
      PROVE  \E m \in Msgs :
               /\ m = Head(s) /\ Contains(s, m)
               /\ \A y : Contains(t, y) => m < y
  <2>1. /\ Head(s) \in Msgs
        /\ \A y : Contains(s, y) <=> y = Head(s) \/ Contains(Tail(s), y)
        /\ \A y : Contains(Tail(s), y) => Head(s) < y
    BY <1>1, <1>3, TailHolds
  <2> QED
    BY <1>3, <2>1
<1>4. ASSUME NEW x \in Msgs, \A y \in Msgs : Contains(g, y) => y < x
      PROVE  Rising(Append(g, x)) /\ \A y : Contains(Append(g, x), y) <=> y = x \/ Contains(g, y)
  BY <1>1, <1>4, AppendHolds
<1>5. ASSUME b # <<>> PROVE InOrder(Append(g, Head(b)), Tail(b), t)
  <2>1. PICK x \in Msgs, u \in Seq(Msgs) :
          /\ x = Head(b) /\ u = Tail(b) /\ Rising(u)
          /\ \A y : Contains(b, y) <=> y = x \/ Contains(u, y)
          /\ \A y : Contains(u, y) => x < y
    BY <1>2, <1>5
  <2>2. Rising(Append(g, x)) /\ \A y : Contains(Append(g, x), y) <=> y = x \/ Contains(g, y)
    BY <1>1, <1>4, <2>1 DEF Below
  <2>3. InOrder(Append(g, x), u, t)
    BY <1>1, <2>1, <2>2 DEF InOrder, Below
  <2> QED
    BY <2>1, <2>3
<1>6. ASSUME b = <<>>, s # <<>> PROVE InOrder(Append(g, Head(s)), b, t)
  <2>1. PICK m \in Msgs : m = Head(s) /\ Contains(s, m) /\ \A y : Contains(t, y) => m < y
    BY <1>3, <1>6
  <2>2. Rising(Append(g, m)) /\ \A y : Contains(Append(g, m), y) <=> y = m \/ Contains(g, y)
    BY <1>1, <1>4, <2>1 DEF Below
  <2>3. InOrder(Append(g, m), b, t)
    BY <1>0, <1>1, <1>6, <2>1, <2>2 DEF InOrder, Below
  <2> QED
    BY <2>1, <2>3
<1>7. ASSUME b # <<>>, s # <<>>
      PROVE  InOrder(Append(g, Head(b)), Append(Tail(b), Head(s)), t)
  <2>1. PICK x \in Msgs, u \in Seq(Msgs) :
          /\ x = Head(b) /\ u = Tail(b) /\ Rising(u)
          /\ \A y : Contains(b, y) <=> y = x \/ Contains(u, y)
          /\ \A y : Contains(u, y) => x < y
    BY <1>2, <1>7
  <2>2. PICK m \in Msgs : m = Head(s) /\ Contains(s, m) /\ \A y : Contains(t, y) => m < y
    BY <1>3, <1>7
  <2>3. Rising(Append(g, x)) /\ \A y : Contains(Append(g, x), y) <=> y = x \/ Contains(g, y)
    BY <1>1, <1>4, <2>1 DEF Below
  <2>4. \A y \in Msgs : Contains(u, y) => y < m
    BY <1>1, <2>1, <2>2 DEF Below
  <2>5. Rising(Append(u, m)) /\ \A y : Contains(Append(u, m), y) <=> y = m \/ Contains(u, y)
    <3>1. /\ \A y : Contains(Append(u, m), y) <=> y = m \/ Contains(u, y)
          /\ /\ Msgs \subseteq Int /\ Rising(u)
             /\ \A y \in Msgs : Contains(u, y) => y < m
             => Rising(Append(u, m))
      BY AppendHolds
    <3> QED
      BY <2>1, <2>4, <3>1
  <2>6. x < m /\ \A y \in Msgs : Contains(g, y) => y < x /\ y < m
    BY <1>1, <2>1, <2>2 DEF Below
  <2>7. Below(Append(g, x), Append(u, m))
    BY <1>1, <2>1, <2>3, <2>5, <2>6 DEF Below
  <2>8. Below(Append(g, x), t) /\ Below(Append(u, m), t)
    BY <1>1, <2>1, <2>2, <2>3, <2>5 DEF Below
  <2>9. InOrder(Append(g, x), Append(u, m), t)
    BY <2>3, <2>5, <2>7, <2>8 DEF InOrder
  <2> QED
    BY <2>1, <2>2, <2>9
<1> QED
  BY <1>5, <1>6, <1>7

(* What a channel holds, with the types of its lists. *)
LEMMA ListTypes ==
  ASSUME ListInv, NEW c \in Chans
  PROVE  /\ got[c] \in Seq(Msgs) /\ buffer[c] \in Seq(Msgs) /\ senders[c] \in Seq(Msgs)
         /\ DOMAIN got = Chans /\ DOMAIN buffer = Chans /\ DOMAIN senders = Chans
         /\ \A x : Contains(got[c], x) \/ Contains(buffer[c], x) \/ Contains(senders[c], x) => x \in Msgs
<1>1. ListsOf(got, Msgs) /\ ListsOf(buffer, Msgs) /\ ListsOf(senders, Msgs)
  BY Parts DEF MsgsTyped
<1>2. /\ got[c] \in Seq(Msgs) /\ buffer[c] \in Seq(Msgs) /\ senders[c] \in Seq(Msgs)
      /\ DOMAIN got = Chans /\ DOMAIN buffer = Chans /\ DOMAIN senders = Chans
  BY <1>1 DEF ListsOf
<1>3. \A x : Contains(got[c], x) \/ Contains(buffer[c], x) \/ Contains(senders[c], x) => x \in Msgs
  BY <1>2, EmptyHolds
<1> QED
  BY <1>2, <1>3

-----------------------------------------------------------------------------
(* Where messages are.                                                     *)

(* A message is somewhere in those lists. *)
In(lists, m) == \E c \in Chans : Contains(lists[c], m)

(* No message is there twice. *)
OneCopy(lists) ==
  /\ \A c \in Chans : Distinct(lists[c])
  /\ \A c, d \in Chans, m \in Msgs : Contains(lists[c], m) /\ Contains(lists[d], m) => c = d

(* It was put into a channel. *)
Placed(m) == In(got, m) \/ In(buffer, m)

(* A message is in one place: taken out, in a buffer or with its send.     *)
PlaceInv ==
  /\ OneCopy(got) /\ OneCopy(buffer)
  /\ \A m \in Msgs : ~(In(got, m) /\ In(buffer, m))
  /\ \A m \in Msgs : Placed(m) => m <= sent /\ ~In(senders, m)

(* Its fate says whether it arrived; a send that is pending in a channel   *)
(* has its fiber, or its context was cancelled.                            *)
FateInv ==
  \A m \in Msgs :
    /\ fate[m] \in {"accepted", "late"} => Placed(m)
    /\ Placed(m) => fate[m] \in {"accepted", "late"} \/ (uses = "deadline" /\ fate[m] = "failed")
    /\ In(senders, m) => Owners(m) # {} \/ (uses = "deadline" /\ fate[m] = "failed")

(* One message more. *)
LEMMA PutIn ==
  ASSUME NEW l, ListsOf(l, Msgs), OneCopy(l), NEW c \in Chans, NEW e \in Msgs, ~In(l, e)
  PROVE  /\ OneCopy([l EXCEPT ![c] = Append(l[c], e)])
         /\ \A y \in Msgs : In([l EXCEPT ![c] = Append(l[c], e)], y) <=> In(l, y) \/ y = e
<1>1. PICK k : k = [l EXCEPT ![c] = Append(l[c], e)]
  OBVIOUS
<1>2. k[c] = Append(l[c], e) /\ \A d \in Chans \ {c} : k[d] = l[d]
  BY <1>1, PutMore
<1>3. l[c] \in Seq(Msgs)
  BY DEF ListsOf
<1>4. Distinct(l[c]) /\ ~Contains(l[c], e) /\ \A d \in Chans : ~Contains(l[d], e)
  BY DEF OneCopy, In
<1>5. /\ Distinct(Append(l[c], e))
      /\ \A y : Contains(Append(l[c], e), y) <=> y = e \/ Contains(l[c], y)
  BY <1>3, <1>4, AppendHolds
<1>6. \A d \in Chans : \A y : Contains(k[d], y) <=> Contains(l[d], y) \/ (d = c /\ y = e)
  BY <1>2, <1>5
<1>7. OneCopy(k)
  <2>1. \A d \in Chans : Distinct(k[d])
    BY <1>2, <1>5 DEF OneCopy
  <2>2. ASSUME NEW d \in Chans, NEW b \in Chans, NEW m \in Msgs, Contains(k[d], m), Contains(k[b], m)
        PROVE  d = b
    BY <1>4, <1>6, <2>2 DEF OneCopy
  <2> QED
    BY <2>1, <2>2 DEF OneCopy
<1>8. \A y \in Msgs : In(k, y) <=> In(l, y) \/ y = e
  BY <1>6 DEF In
<1> QED
  BY <1>1, <1>7, <1>8

(* The first message of a channel taken away. *)
LEMMA TakenIn ==
  ASSUME NEW l, ListsOf(l, Msgs), OneCopy(l), NEW c \in Chans, l[c] # <<>>
  PROVE  /\ ListsOf([l EXCEPT ![c] = Tail(l[c])], Msgs)
         /\ OneCopy([l EXCEPT ![c] = Tail(l[c])])
         /\ Head(l[c]) \in Msgs /\ In(l, Head(l[c]))
         /\ \A y \in Msgs : In([l EXCEPT ![c] = Tail(l[c])], y) <=> In(l, y) /\ y # Head(l[c])
<1>1. l[c] \in Seq(Msgs) /\ Distinct(l[c])
  BY DEF ListsOf, OneCopy
<1>2. /\ Head(l[c]) \in Msgs /\ Tail(l[c]) \in Seq(Msgs)
      /\ \A x : Contains(l[c], x) <=> x = Head(l[c]) \/ Contains(Tail(l[c]), x)
      /\ Distinct(Tail(l[c])) /\ ~Contains(Tail(l[c]), Head(l[c]))
  BY <1>1, TailHolds
<1>3. PICK t \in Seq(Msgs), x \in Msgs : t = Tail(l[c]) /\ x = Head(l[c])
  BY <1>2
<1>4. PICK k : k = [l EXCEPT ![c] = t]
  OBVIOUS
<1>5. ListsOf(k, Msgs) /\ k[c] = t /\ \A d \in Chans \ {c} : k[d] = l[d]
  <2>1. /\ ListsOf([l EXCEPT ![c] = t], Msgs)
        /\ [l EXCEPT ![c] = t][c] = t
        /\ \A d \in Chans \ {c} : [l EXCEPT ![c] = t][d] = l[d]
    BY PutHolds
  <2> QED
    BY <1>4, <2>1
<1>6. /\ Distinct(t) /\ ~Contains(t, x) /\ Contains(l[c], x)
      /\ \A y : Contains(l[c], y) <=> y = x \/ Contains(t, y)
  BY <1>2, <1>3
<1>7. \A d \in Chans \ {c} : ~Contains(l[d], x)
  BY <1>6 DEF OneCopy
<1>8. \A d \in Chans : \A y : Contains(k[d], y) <=> Contains(l[d], y) /\ y # x
  BY <1>5, <1>6, <1>7
<1>9. OneCopy(k)
  <2>1. \A d \in Chans : Distinct(k[d])
    BY <1>5, <1>6 DEF OneCopy
  <2> QED
    BY <1>8, <2>1 DEF OneCopy
<1>10. In(l, x) /\ \A y \in Msgs : In(k, y) <=> In(l, y) /\ y # x
  BY <1>6, <1>8 DEF In
<1> QED
  BY <1>3, <1>4, <1>5, <1>9, <1>10

(* The pending sends without that message. *)
LEMMA WithoutIn ==
  ASSUME ListInv, NEW m, senders' = Without(senders, m)
  PROVE  \A y : In(senders, y)' <=> In(senders, y) /\ y # m
<1>1. \A c \in Chans : \A y : Contains(senders'[c], y) <=> Contains(senders[c], y) /\ y # m
  BY SendersWithout
<1> QED
  BY <1>1 DEF In

(* Priming the lists is priming what is in them. *)
LEMMA PrimedPlaced ==
  \A y : Placed(y)' <=> In(got', y) \/ In(buffer', y)
BY DEF Placed, In

(* Where messages are after one was fetched. *)
LEMMA FetchedMoves ==
  ASSUME ListInv, PlaceInv, NEW c \in Chans, Fetched(c)
  PROVE  /\ OneCopy(got') /\ OneCopy(buffer') /\ sent' = sent
         /\ \A y \in Msgs : ~(In(got', y) /\ In(buffer', y))
         /\ \/ /\ \A y \in Msgs : Placed(y)' <=> Placed(y)
               /\ UNCHANGED <<senders, msg, fate>>
            \/ \E m \in Msgs :
                 /\ In(senders, m)
                 /\ \A y \in Msgs : Placed(y)' <=> Placed(y) \/ y = m
                 /\ \E becomes \in {"accepted", "late"} : Over(m, becomes)
<1>0. ListsOf(got, Msgs) /\ ListsOf(buffer, Msgs) /\ OneCopy(got) /\ OneCopy(buffer) /\ sent' = sent
  BY Parts DEF MsgsTyped, PlaceInv, Fetched
<1>1. /\ \A y \in Msgs : ~(In(got, y) /\ In(buffer, y))
      /\ \A y \in Msgs : Placed(y) => ~In(senders, y)
  BY DEF PlaceInv
<1>2. CASE senders[c] = <<>>
  <2>1. /\ got' = [got EXCEPT ![c] = Append(got[c], Head(buffer[c]))]
        /\ buffer' = [buffer EXCEPT ![c] = Tail(buffer[c])]
        /\ UNCHANGED <<senders, msg, fate>> /\ buffer[c] # <<>>
    BY <1>2 DEF Fetched, CanFetch
  <2>2. PICK x \in Msgs : x = Head(buffer[c]) /\ In(buffer, x)
    BY <1>0, <2>1, TakenIn
  <2>3. OneCopy(buffer') /\ \A y \in Msgs : In(buffer', y) <=> In(buffer, y) /\ y # x
    BY <1>0, <2>1, <2>2, TakenIn
  <2>4. OneCopy(got') /\ \A y \in Msgs : In(got', y) <=> In(got, y) \/ y = x
    BY <1>0, <1>1, <2>1, <2>2, PutIn
  <2>5. \A y \in Msgs : (Placed(y)' <=> Placed(y)) /\ ~(In(got', y) /\ In(buffer', y))
    BY <1>1, <2>2, <2>3, <2>4, PrimedPlaced DEF Placed
  <2> QED
    BY <1>0, <2>1, <2>3, <2>4, <2>5
<1>3. CASE senders[c] # <<>>
  <2>1. PICK m \in Msgs : m = Head(senders[c]) /\ Contains(senders[c], m)
    BY <1>3, HeadSends
  <2>2. In(senders, m) /\ ~Placed(m)
    BY <1>1, <2>1 DEF In
  <2>3. \E becomes \in {"accepted", "late"} : Over(m, becomes)
    BY <1>3, <2>1 DEF Fetched
  <2>4. CASE buffer[c] = <<>>
    <3>1. got' = [got EXCEPT ![c] = Append(got[c], m)] /\ buffer' = buffer
      BY <1>3, <2>1, <2>4 DEF Fetched
    <3>2. OneCopy(got') /\ \A y \in Msgs : In(got', y) <=> In(got, y) \/ y = m
      BY <1>0, <2>2, <3>1, PutIn DEF Placed
    <3>3. OneCopy(buffer') /\ \A y \in Msgs : In(buffer', y) <=> In(buffer, y)
      BY <1>0, <3>1
    <3>4. \A y \in Msgs : (Placed(y)' <=> Placed(y) \/ y = m) /\ ~(In(got', y) /\ In(buffer', y))
      BY <1>1, <2>2, <3>2, <3>3, PrimedPlaced DEF Placed
    <3> QED
      BY <1>0, <2>2, <2>3, <3>2, <3>3, <3>4
  <2>5. CASE buffer[c] # <<>>
    <3>1. /\ got' = [got EXCEPT ![c] = Append(got[c], Head(buffer[c]))]
          /\ buffer' = [buffer EXCEPT ![c] = Append(Tail(buffer[c]), m)]
      BY <1>3, <2>1, <2>5 DEF Fetched
    <3>x. PICK x \in Msgs : x = Head(buffer[c])
      BY <1>0, <2>5, TakenIn
    <3>k. PICK k : k = [buffer EXCEPT ![c] = Tail(buffer[c])]
      OBVIOUS
    <3>2. /\ x = Head(buffer[c]) /\ In(buffer, x)
          /\ k = [buffer EXCEPT ![c] = Tail(buffer[c])]
          /\ ListsOf(k, Msgs) /\ OneCopy(k)
          /\ \A y \in Msgs : In(k, y) <=> In(buffer, y) /\ y # x
      <4>1. /\ ListsOf([buffer EXCEPT ![c] = Tail(buffer[c])], Msgs)
            /\ OneCopy([buffer EXCEPT ![c] = Tail(buffer[c])])
            /\ Head(buffer[c]) \in Msgs /\ In(buffer, Head(buffer[c]))
            /\ \A y \in Msgs : In([buffer EXCEPT ![c] = Tail(buffer[c])], y) <=>
                                In(buffer, y) /\ y # Head(buffer[c])
        BY <1>0, <2>5, TakenIn
      <4> QED
        BY <4>1, <3>x, <3>k
    <3>3. OneCopy(got') /\ \A y \in Msgs : In(got', y) <=> In(got, y) \/ y = x
      BY <1>0, <1>1, <3>1, <3>2, PutIn
    <3>4. buffer' = [k EXCEPT ![c] = Append(k[c], m)]
      BY <1>0, <3>1, <3>2 DEF ListsOf
    <3>5. ~In(k, m) /\ m # x
      BY <2>2, <3>2 DEF Placed
    <3>a. ListsOf(k, Msgs) /\ OneCopy(k)
      BY <3>2
    <3>6. OneCopy(buffer') /\ \A y \in Msgs : In(buffer', y) <=> In(k, y) \/ y = m
      <4>1. /\ OneCopy([k EXCEPT ![c] = Append(k[c], m)])
            /\ \A y \in Msgs : In([k EXCEPT ![c] = Append(k[c], m)], y) <=> In(k, y) \/ y = m
        BY <3>5, <3>a, PutIn
      <4> QED
        BY <3>4, <4>1
    <3>7. \A y \in Msgs : (Placed(y)' <=> Placed(y) \/ y = m) /\ ~(In(got', y) /\ In(buffer', y))
      BY <1>1, <2>2, <3>2, <3>3, <3>5, <3>6, PrimedPlaced DEF Placed
    <3> QED
      BY <1>0, <2>2, <2>3, <3>3, <3>6, <3>7
  <2> QED
    BY <2>4, <2>5
<1> QED
  BY <1>2, <1>3

(* The numbers of messages, for the steps below. *)
LEMMA NewIsNew ==
  ASSUME ListInv, PlaceInv, NEW becomes, Sends(becomes)
  PROVE  \E e \in Msgs :
           /\ e = sent + 1 /\ sent' = e /\ fate' = [fate EXCEPT ![e] = becomes]
           /\ ~Placed(e) /\ ~In(senders, e) /\ e # 0
           /\ \A m \in Msgs : Placed(m) => m <= e
           /\ \A f \in Fibers : msg[f] # e
<1>1. PICK e \in Msgs : e = sent + 1 /\ sent \in Nat
  BY Numbers DEF Sends
<1>2. \A m \in Msgs : Placed(m) \/ In(senders, m) => m \in Nat /\ m <= sent
  BY Numbers DEF PlaceInv, In
<1>3. \A f \in Fibers : msg[f] # 0 => msg[f] <= sent /\ msg[f] \in Nat
  BY Numbers, Parts DEF SenderInv
<1>4. e \in Nat /\ e # 0
  BY <1>1
<1>5. \A f \in Fibers : msg[f] # e
  BY <1>1, <1>3, <1>4
<1>6. \A m \in Msgs : Placed(m) => m <= e
  BY <1>1, <1>2
<1>7. ~Placed(e) /\ ~In(senders, e)
  BY <1>1, <1>2
<1>8. sent' = e /\ fate' = [fate EXCEPT ![e] = becomes]
  BY <1>1 DEF Sends
<1> QED
  BY <1>1, <1>4, <1>5, <1>6, <1>7, <1>8

(* A message put nowhere, or none: no list has changed. *)
LEMMA NothingPlaced ==
  ASSUME ListInv, PlaceInv, FateInv, UNCHANGED <<buffer, senders, got, msg>>, uses' = uses,
         \/ sent' = sent /\ fate' = fate
         \/ \E becomes \in {"failed", "discarded"} : Sends(becomes)
  PROVE  PlaceInv' /\ FateInv'
<1>1. \A m : /\ Placed(m)' <=> Placed(m)
             /\ In(senders, m)' <=> In(senders, m)
             /\ Owners(m)' = Owners(m)
  BY DEF Placed, In, Owners
<1>2. CASE sent' = sent /\ fate' = fate
  <2>1. PlaceInv'
    BY <1>1, <1>2 DEF PlaceInv, OneCopy, In
  <2>2. FateInv'
    BY <1>1, <1>2 DEF FateInv
  <2> QED
    BY <2>1, <2>2
<1>3. ASSUME NEW becomes \in {"failed", "discarded"}, Sends(becomes)
      PROVE  PlaceInv' /\ FateInv'
  <2>1. PICK e \in Msgs :
          /\ e = sent + 1 /\ sent' = e /\ fate' = [fate EXCEPT ![e] = becomes]
          /\ ~Placed(e) /\ ~In(senders, e) /\ e # 0
          /\ \A m \in Msgs : Placed(m) => m <= e
    BY <1>3, NewIsNew
  <2>2. \A m \in Msgs : fate'[m] = IF m = e THEN becomes ELSE fate[m]
    BY <2>1, Parts DEF MsgsTyped
  <2>3. PlaceInv'
    <3>1. \A m \in Msgs : Placed(m)' => m <= sent' /\ ~In(senders, m)'
      BY <1>1, <2>1 DEF PlaceInv
    <3> QED
      BY <3>1 DEF PlaceInv, OneCopy, In
  <2>4. FateInv'
    BY <1>1, <2>1, <2>2 DEF FateInv
  <2> QED
    BY <2>3, <2>4
<1> QED
  BY <1>2, <1>3

(* A message given to a receiver or put into a buffer. *)
LEMMA NewPlaced ==
  ASSUME ListInv, PlaceInv, FateInv, uses' = uses, \E c \in Chans : Handed(c) \/ Stored(c)
  PROVE  PlaceInv' /\ FateInv'
<1>1. Sends("accepted") /\ UNCHANGED <<senders, msg>>
  BY DEF Handed, Stored
<1>2. PICK e \in Msgs :
        /\ e = sent + 1 /\ sent' = e /\ fate' = [fate EXCEPT ![e] = "accepted"]
        /\ ~Placed(e) /\ ~In(senders, e) /\ e # 0
        /\ \A m \in Msgs : Placed(m) => m <= e
  BY <1>1, NewIsNew
<1>3. ListsOf(got, Msgs) /\ ListsOf(buffer, Msgs) /\ OneCopy(got) /\ OneCopy(buffer)
  BY Parts DEF MsgsTyped, PlaceInv
<1>4. /\ OneCopy(got') /\ OneCopy(buffer')
      /\ \A y \in Msgs : ~(In(got', y) /\ In(buffer', y))
      /\ \A y \in Msgs : In(got', y) \/ In(buffer', y) <=> Placed(y) \/ y = e
  <2>1. ASSUME NEW c \in Chans, Handed(c) PROVE <1>4
    <3>1. got' = [got EXCEPT ![c] = Append(got[c], e)] /\ buffer' = buffer
      BY <1>2, <2>1 DEF Handed
    <3>2. OneCopy(got') /\ \A y \in Msgs : In(got', y) <=> In(got, y) \/ y = e
      BY <1>2, <1>3, <3>1, PutIn DEF Placed
    <3> QED
      BY <1>2, <1>3, <3>1, <3>2 DEF Placed, PlaceInv
  <2>2. ASSUME NEW c \in Chans, Stored(c) PROVE <1>4
    <3>1. buffer' = [buffer EXCEPT ![c] = Append(buffer[c], e)] /\ got' = got
      BY <1>2, <2>2 DEF Stored
    <3>2. OneCopy(buffer') /\ \A y \in Msgs : In(buffer', y) <=> In(buffer, y) \/ y = e
      BY <1>2, <1>3, <3>1, PutIn DEF Placed
    <3> QED
      BY <1>2, <1>3, <3>1, <3>2 DEF Placed, PlaceInv
  <2> QED
    BY <2>1, <2>2
<1>5. \A m \in Msgs : Placed(m)' <=> Placed(m) \/ m = e
  BY <1>4, PrimedPlaced
<1>6. \A m : (In(senders, m)' <=> In(senders, m)) /\ Owners(m)' = Owners(m)
  BY <1>1 DEF In, Owners
<1>7. \A m \in Msgs : fate'[m] = IF m = e THEN "accepted" ELSE fate[m]
  BY <1>2, Parts DEF MsgsTyped
<1>8. PlaceInv'
  <2>1. \A m \in Msgs : Placed(m)' => m <= sent' /\ ~In(senders, m)'
    <3>1. e <= e
      BY <1>2, Numbers
    <3> QED
      BY <1>2, <1>5, <1>6, <3>1 DEF PlaceInv
  <2> QED
    BY <1>4, <2>1 DEF PlaceInv, OneCopy, In
<1>9. FateInv'
  BY <1>2, <1>5, <1>6, <1>7 DEF FateInv
<1> QED
  BY <1>8, <1>9

(* A send that begins to wait, or leaves its operation behind. *)
LEMMA NewParked ==
  ASSUME ListInv, PlaceInv, FateInv, uses' = uses,
         NEW f \in Fibers, NEW where \in SUBSET Chans, Parked(f, where)
  PROVE  PlaceInv' /\ FateInv'
<1>1. /\ UNCHANGED <<buffer, got>> /\ msg[f] = 0
      /\ senders' = Appended(senders, where, sent + 1)
  BY DEF Parked
<1>2. PICK becomes \in {"pending", "failed"} :
        /\ Sends(becomes)
        /\ \/ becomes = "pending" /\ msg' = [msg EXCEPT ![f] = sent + 1]
           \/ becomes = "failed" /\ uses = "deadline" /\ msg' = msg
  BY DEF Parked
<1>3. PICK e \in Msgs :
        /\ e = sent + 1 /\ sent' = e /\ fate' = [fate EXCEPT ![e] = becomes]
        /\ ~Placed(e) /\ ~In(senders, e) /\ e # 0
        /\ \A m \in Msgs : Placed(m) => m <= e
  BY <1>2, NewIsNew
<1>4. \A m \in Msgs : Placed(m)' <=> Placed(m)
  BY <1>1 DEF Placed, In
<1>5. \A m \in Msgs : In(senders, m)' => In(senders, m) \/ m = e
  <2>1. \A c \in Chans : \A y : Contains(Appended(senders, where, e)[c], y) <=>
                                 Contains(senders[c], y) \/ (c \in where /\ y = e)
    <3>1. ListsOf(senders, Msgs)
      BY Parts DEF MsgsTyped
    <3> QED
      BY <3>1, AppendedHolds
  <2> QED
    BY <1>1, <1>3, <2>1 DEF In
<1>6. /\ \A m \in Msgs \ {e} : Owners(m) # {} => Owners(m)' # {}
      /\ Owners(e)' # {} \/ (uses = "deadline" /\ becomes = "failed")
  <2>1. /\ msg'[f] = e \/ (uses = "deadline" /\ becomes = "failed" /\ msg' = msg)
        /\ \A g \in Fibers \ {f} : msg'[g] = msg[g]
    BY <1>2, <1>3, Parts DEF MsgsTyped
  <2>2. \A m \in Msgs : m # 0
    BY Numbers
  <2> QED
    BY <1>1, <2>1, <2>2 DEF Owners
<1>7. \A m \in Msgs : fate'[m] = IF m = e THEN becomes ELSE fate[m]
  BY <1>3, Parts DEF MsgsTyped
<1>8. PlaceInv'
  <2>1. \A m \in Msgs : Placed(m)' => m <= sent' /\ ~In(senders, m)'
    BY <1>3, <1>4, <1>5 DEF PlaceInv
  <2> QED
    BY <1>1, <2>1 DEF PlaceInv, OneCopy, In
<1>9. FateInv'
  BY <1>2, <1>3, <1>4, <1>5, <1>6, <1>7 DEF FateInv
<1> QED
  BY <1>8, <1>9

(* What Over leaves of the fibers, the pending sends and the fates. *)
LEMMA OverIs ==
  ASSUME ListInv, FateInv, NEW m \in Msgs, NEW becomes, Over(m, becomes)
  PROVE  /\ \A y \in Msgs : In(senders, y)' <=> In(senders, y) /\ y # m
         /\ \A y \in Msgs \ {m} : Owners(y)' = Owners(y) /\ fate'[y] = fate[y]
         /\ fate'[m] = becomes \/ (Owners(m) = {} /\ fate'[m] = fate[m])
<1>1. \A y : In(senders, y)' <=> In(senders, y) /\ y # m
  BY WithoutIn DEF Over
<1>2. \A y \in Msgs \ {m} : Owners(y)' = Owners(y)
  <2>1. \A g \in Fibers : msg'[g] = IF msg[g] = m THEN 0 ELSE msg[g]
    BY DEF Over
  <2>2. \A y \in Msgs : y # 0
    BY Numbers
  <2> QED
    BY <2>1, <2>2 DEF Owners
<1>3. /\ \A y \in Msgs \ {m} : fate'[y] = fate[y]
      /\ fate'[m] = becomes \/ (Owners(m) = {} /\ fate'[m] = fate[m])
  BY Parts DEF Over, MsgsTyped
<1> QED
  BY <1>1, <1>2, <1>3

(* A pending send that delivers its message, or ends without. *)
LEMMA OverPlaced ==
  ASSUME ListInv, PlaceInv, FateInv, uses' = uses, sent' = sent,
         NEW m \in Msgs, In(senders, m), NEW becomes, Over(m, becomes),
         OneCopy(got'), OneCopy(buffer'),
         \A y \in Msgs : ~(In(got', y) /\ In(buffer', y)),
         \/ /\ \A y \in Msgs : Placed(y)' <=> Placed(y) \/ y = m
            /\ becomes \in {"accepted", "late"}
         \/ /\ \A y \in Msgs : Placed(y)' <=> Placed(y)
            /\ becomes \notin {"accepted", "late"}
  PROVE  PlaceInv' /\ FateInv'
<1>1. /\ \A y \in Msgs : In(senders, y)' <=> In(senders, y) /\ y # m
      /\ \A y \in Msgs \ {m} : Owners(y)' = Owners(y) /\ fate'[y] = fate[y]
      /\ fate'[m] = becomes \/ (Owners(m) = {} /\ fate'[m] = fate[m])
  BY OverIs
<1>2. ~Placed(m) /\ m <= sent
  <2>1. m <= sent
    BY Numbers DEF In
  <2> QED
    BY <2>1 DEF PlaceInv
<1>3. PlaceInv'
  <2>1. \A y \in Msgs : Placed(y)' => y <= sent' /\ ~In(senders, y)'
    BY <1>1, <1>2 DEF PlaceInv
  <2> QED
    BY <2>1 DEF PlaceInv, OneCopy, In
<1>4. FateInv'
  BY <1>1, <1>2 DEF FateInv
<1> QED
  BY <1>3, <1>4

(* Fetched *)
LEMMA FetchedPlaced ==
  ASSUME ListInv, PlaceInv, FateInv, uses' = uses, NEW c \in Chans, Fetched(c)
  PROVE  PlaceInv' /\ FateInv'
<1>1. /\ OneCopy(got') /\ OneCopy(buffer') /\ sent' = sent
      /\ \A y \in Msgs : ~(In(got', y) /\ In(buffer', y))
  BY FetchedMoves
<1>2. CASE (\A y \in Msgs : Placed(y)' <=> Placed(y)) /\ UNCHANGED <<senders, msg, fate>>
  <2>1. \A m : (In(senders, m)' <=> In(senders, m)) /\ Owners(m)' = Owners(m)
    BY <1>2 DEF In, Owners
  <2>2. \A y \in Msgs : Placed(y)' => y <= sent' /\ ~In(senders, y)'
    BY <1>1, <1>2, <2>1 DEF PlaceInv
  <2>3. PlaceInv'
    BY <1>1, <2>2 DEF PlaceInv, OneCopy, In
  <2>4. FateInv'
    BY <1>2, <2>1 DEF FateInv
  <2> QED
    BY <2>3, <2>4
<1>3. ASSUME NEW m \in Msgs, In(senders, m),
             \A y \in Msgs : Placed(y)' <=> Placed(y) \/ y = m,
             NEW becomes \in {"accepted", "late"}, Over(m, becomes)
      PROVE  PlaceInv' /\ FateInv'
  BY <1>1, <1>3, OverPlaced
<1> QED
  BY <1>2, <1>3, FetchedMoves

(* Ended *)
LEMMA EndedPlaced ==
  ASSUME ListInv, PlaceInv, FateInv, uses' = uses, NEW m \in Msgs, Ended(m)
  PROVE  PlaceInv' /\ FateInv'
<1>1. PICK becomes \in {"discarded", "failed", "closed"} : Over(m, becomes)
  BY DEF Ended
<1>2. In(senders, m) /\ UNCHANGED <<buffer, got, sent>>
  BY DEF Ended, In
<1>3. \A y \in Msgs : Placed(y)' <=> Placed(y)
  BY <1>2 DEF Placed, In
<1>4. OneCopy(got') /\ OneCopy(buffer') /\ \A y \in Msgs : ~(In(got', y) /\ In(buffer', y))
  BY <1>2 DEF PlaceInv
<1> QED
  BY <1>1, <1>2, <1>3, <1>4, OverPlaced

(* Cancelled *)
LEMMA CancelledPlaced ==
  ASSUME ListInv, PlaceInv, FateInv, uses' = uses, NEW f \in Fibers, Cancelled(f)
  PROVE  PlaceInv' /\ FateInv'
<1>0. /\ msg[f] # 0
      /\ senders' = Without(senders, msg[f]) \/ (uses = "deadline" /\ senders' = senders)
      /\ fate' = [fate EXCEPT ![msg[f]] = "failed"]
      /\ msg' = [msg EXCEPT ![f] = 0]
      /\ UNCHANGED <<buffer, got, sent>>
  BY DEF Cancelled
<1>1. PICK m \in Msgs : m = msg[f]
  BY <1>0, Numbers
<1>2. In(senders, m)
  BY <1>0, <1>1, Parts DEF SenderInv, In
<1>3. \A y \in Msgs : Placed(y)' <=> Placed(y)
  BY <1>0 DEF Placed, In
<1>4. \A y \in Msgs : In(senders, y)' => In(senders, y) /\ (y # m \/ uses = "deadline")
  <2>1. CASE senders' = Without(senders, m)
    BY <2>1, WithoutIn
  <2>2. CASE uses = "deadline" /\ senders' = senders
    BY <2>2 DEF In
  <2> QED
    BY <1>0, <1>1, <2>1, <2>2
<1>5. \A y \in Msgs \ {m} : Owners(y)' = Owners(y) /\ fate'[y] = fate[y]
  <2>1. msg'[f] = 0 /\ \A g \in Fibers \ {f} : msg'[g] = msg[g]
    BY <1>0, Parts DEF MsgsTyped
  <2>2. \A y \in Msgs : y # 0
    BY Numbers
  <2>3. \A y \in Msgs \ {m} : Owners(y)' = Owners(y)
    BY <1>1, <2>1, <2>2 DEF Owners
  <2> QED
    BY <1>0, <1>1, <2>3, Parts DEF MsgsTyped
<1>6. fate'[m] = "failed"
  BY <1>0, <1>1, Parts DEF MsgsTyped
<1>7. ~Placed(m)
  BY <1>2 DEF PlaceInv
<1>8. PlaceInv'
  <2>1. \A y \in Msgs : Placed(y)' => y <= sent' /\ ~In(senders, y)'
    BY <1>0, <1>3, <1>4 DEF PlaceInv
  <2> QED
    BY <1>0, <2>1 DEF PlaceInv, OneCopy, In
<1>9. FateInv'
  BY <1>3, <1>4, <1>5, <1>6, <1>7 DEF FateInv
<1> QED
  BY <1>8, <1>9

(* Freed *)
LEMMA FreedPlaced ==
  ASSUME ListInv, PlaceInv, FateInv, uses' = uses, NEW m \in Msgs, Freed(m)
  PROVE  PlaceInv' /\ FateInv'
<1>0. senders' = Without(senders, m) /\ UNCHANGED <<buffer, got, sent, msg, fate>>
  BY DEF Freed
<1>1. \A y : In(senders, y)' => In(senders, y)
  BY <1>0, WithoutIn
<1>2. \A y : (Placed(y)' <=> Placed(y)) /\ Owners(y)' = Owners(y)
  BY <1>0 DEF Placed, In, Owners
<1>3. \A y \in Msgs : Placed(y)' => y <= sent' /\ ~In(senders, y)'
  BY <1>0, <1>1, <1>2 DEF PlaceInv
<1>4. PlaceInv'
  BY <1>0, <1>3 DEF PlaceInv, OneCopy, In
<1>5. FateInv'
  BY <1>0, <1>1, <1>2 DEF FateInv
<1> QED
  BY <1>4, <1>5

(* Every kind of step keeps messages in one place, as their fate says.     *)
LEMMA PlacesStep ==
  ASSUME ListInv, PlaceInv, FateInv, MsgsStep
  PROVE  PlaceInv' /\ FateInv'
<1>0. uses' = uses
  BY DEF MsgsStep
<1>1. CASE Still
  BY <1>0, <1>1, NothingPlaced DEF Still
<1>2. CASE Refused
  BY <1>0, <1>2, NothingPlaced DEF Refused
<1>3. CASE \E c \in Chans : Handed(c) \/ Stored(c)
  BY <1>0, <1>3, NewPlaced
<1> QED
  BY <1>0, <1>1, <1>2, <1>3, NewParked, FetchedPlaced, EndedPlaced, CancelledPlaced, FreedPlaced
     DEF MsgsStep

-----------------------------------------------------------------------------
(* The theorems.                                                           *)

(* A step of a script without a select keeps the order of every channel.   *)
LEMMA OrderStep ==
  ASSUME ListInv, ListInv', Rendezvous, uses # "select", PlaceInv, MsgsStep,
         NEW c \in Chans, InOrder(got[c], buffer[c], senders[c])
  PROVE  InOrder(got'[c], buffer'[c], senders'[c])
<1>1. /\ Msgs \subseteq Int
      /\ got[c] \in Seq(Msgs) /\ buffer[c] \in Seq(Msgs) /\ senders[c] \in Seq(Msgs)
      /\ DOMAIN got = Chans /\ DOMAIN buffer = Chans
  BY Numbers, ListTypes
<1>2. Rising(senders'[c])
  BY DEF ListInv, SenderInv
<1>3. senders[c] # <<>> => receivers[c] = <<>> /\ ~HasRoom(c)
  BY DEF Rendezvous
<1>4. receivers[c] # <<>> => buffer[c] = <<>> /\ senders[c] = <<>>
  BY DEF Rendezvous
<1>5. ASSUME sent + 1 \in Msgs
      PROVE  \E e \in Msgs :
               /\ e = sent + 1
               /\ \A x \in Msgs : Contains(got[c], x) \/ Contains(buffer[c], x)
                                    \/ Contains(senders[c], x) => x < e
  <2>1. \A x \in Msgs : Contains(got[c], x) \/ Contains(buffer[c], x) \/ Contains(senders[c], x)
                          => x <= sent
    BY Numbers DEF PlaceInv, Placed, In
  <2>2. sent \in Nat /\ Msgs \subseteq Int
    BY Numbers
  <2>3. PICK e \in Msgs : e = sent + 1
    BY <1>5
  <2>4. \A x \in Msgs : x <= sent => x < e
    BY <2>2, <2>3
  <2> QED
    BY <2>1, <2>3, <2>4
<1>6. ASSUME \A y : Contains(senders'[c], y) => Contains(senders[c], y),
             got'[c] = got[c], buffer'[c] = buffer[c]
      PROVE  InOrder(got'[c], buffer'[c], senders'[c])
  <2>1. InOrder(got[c], buffer[c], senders'[c])
    BY <1>2, <1>6, OrderShrinks
  <2> QED
    BY <1>6, <2>1
<1>7. ASSUME NEW m, senders' = Without(senders, m)
      PROVE  \A y : Contains(senders'[c], y) <=> Contains(senders[c], y) /\ y # m
  BY <1>7, SendersWithout
<1>8. CASE Still \/ Refused
  BY <1>6, <1>8 DEF Still, Refused
<1>9. ASSUME NEW d \in Chans, Handed(d) PROVE InOrder(got'[c], buffer'[c], senders'[c])
  <2>0. /\ got' = [got EXCEPT ![d] = Append(got[d], sent + 1)]
        /\ buffer' = buffer /\ senders' = senders /\ receivers[d] # <<>> /\ sent + 1 \in Msgs
    BY <1>9, Numbers DEF Handed, Sends
  <2>1. CASE d # c
    BY <1>1, <1>6, <2>0, <2>1
  <2>2. CASE d = c
    <3>1. PICK e \in Msgs :
            /\ e = sent + 1
            /\ \A x \in Msgs : Contains(got[c], x) \/ Contains(buffer[c], x)
                                 \/ Contains(senders[c], x) => x < e
      BY <1>5, <2>0
    <3>2. InOrder(Append(got[c], e), buffer[c], senders[c])
      BY <1>1, <1>4, <2>0, <2>2, <3>1, OrderSends
    <3>3. got'[c] = Append(got[c], e)
      BY <1>1, <2>0, <2>2, <3>1
    <3> QED
      BY <2>0, <3>2, <3>3
  <2> QED
    BY <2>1, <2>2
<1>10. ASSUME NEW d \in Chans, Stored(d) PROVE InOrder(got'[c], buffer'[c], senders'[c])
  <2>0. /\ buffer' = [buffer EXCEPT ![d] = Append(buffer[d], sent + 1)]
        /\ got' = got /\ senders' = senders /\ HasRoom(d) /\ sent + 1 \in Msgs
    BY <1>10, Numbers DEF Stored, Sends
  <2>1. CASE d # c
    BY <1>1, <1>6, <2>0, <2>1
  <2>2. CASE d = c
    <3>1. PICK e \in Msgs :
            /\ e = sent + 1
            /\ \A x \in Msgs : Contains(got[c], x) \/ Contains(buffer[c], x)
                                 \/ Contains(senders[c], x) => x < e
      BY <1>5, <2>0
    <3>2. InOrder(got[c], Append(buffer[c], e), senders[c])
      BY <1>1, <1>3, <2>0, <2>2, <3>1, OrderSends
    <3>3. buffer'[c] = Append(buffer[c], e)
      BY <1>1, <2>0, <2>2, <3>1
    <3> QED
      BY <2>0, <3>2, <3>3
  <2> QED
    BY <2>1, <2>2
<1>11. ASSUME NEW f \in Fibers, NEW where \in SUBSET Chans, Parked(f, where)
       PROVE  InOrder(got'[c], buffer'[c], senders'[c])
  <2>0. /\ senders' = Appended(senders, where, sent + 1)
        /\ got' = got /\ buffer' = buffer /\ sent + 1 \in Msgs
    BY <1>11, Numbers DEF Parked, Sends
  <2>1. PICK e \in Msgs :
          /\ e = sent + 1
          /\ \A x \in Msgs : Contains(got[c], x) \/ Contains(buffer[c], x)
                               \/ Contains(senders[c], x) => x < e
    BY <1>5, <2>0
  <2>2. \A y : Contains(Appended(senders, where, e)[c], y) => Contains(senders[c], y) \/ y = e
    <3>1. ListsOf(senders, Msgs)
      BY Parts DEF MsgsTyped
    <3>2. \A d \in Chans : \A y : Contains(Appended(senders, where, e)[d], y) <=>
                                   Contains(senders[d], y) \/ (d \in where /\ y = e)
      BY <3>1, AppendedHolds
    <3> QED
      BY <3>2
  <2>3. PICK t : t = senders'[c]
    OBVIOUS
  <2>4. Rising(t) /\ \A y : Contains(t, y) => Contains(senders[c], y) \/ y = e
    BY <1>2, <2>0, <2>1, <2>2, <2>3
  <2>5. InOrder(got[c], buffer[c], t)
    BY <1>1, <2>1, <2>4, OrderSends
  <2> QED
    BY <2>0, <2>3, <2>5
<1>12. ASSUME NEW d \in Chans, Fetched(d) PROVE InOrder(got'[c], buffer'[c], senders'[c])
  <2>1. \/ senders' = senders /\ senders[d] = <<>>
        \/ senders' = Without(senders, Head(senders[d])) /\ senders[d] # <<>>
    BY <1>12 DEF Fetched, Over
  <2>2. /\ \A y : Contains(senders'[c], y) => Contains(senders[c], y)
        /\ \A y : Contains(senders'[c], y) /\ c = d /\ senders[c] # <<>> => y # Head(senders[c])
    <3>1. PICK m : m = Head(senders[d])
      OBVIOUS
    <3>2. CASE senders' = senders /\ senders[d] = <<>>
      BY <3>2
    <3>3. CASE senders' = Without(senders, m)
      BY <1>7, <3>1, <3>3
    <3> QED
      BY <2>1, <3>1, <3>2, <3>3
  <2>3. CASE d # c
    <3>1. got'[c] = got[c] /\ buffer'[c] = buffer[c]
      BY <1>1, <1>12, <2>3 DEF Fetched
    <3> QED
      BY <1>6, <2>2, <3>1
  <2>4. CASE d = c
    <3>1. PICK t : t = senders'[c]
      OBVIOUS
    <3>2. Rising(t) /\ \A y : Contains(t, y) => Contains(senders[c], y) /\ (senders[c] # <<>> => y # Head(senders[c]))
      BY <1>2, <2>2, <2>4, <3>1
    <3>3. /\ buffer[c] # <<>> => InOrder(Append(got[c], Head(buffer[c])), Tail(buffer[c]), t)
          /\ buffer[c] = <<>> /\ senders[c] # <<>> =>
               InOrder(Append(got[c], Head(senders[c])), buffer[c], t)
          /\ buffer[c] # <<>> /\ senders[c] # <<>> =>
               InOrder(Append(got[c], Head(buffer[c])), Append(Tail(buffer[c]), Head(senders[c])), t)
      BY <1>1, <3>2, OrderFetches
    <3>4. \/ /\ senders[c] = <<>> /\ buffer[c] # <<>>
             /\ got'[c] = Append(got[c], Head(buffer[c]))
             /\ buffer'[c] = Tail(buffer[c])
          \/ /\ senders[c] # <<>> /\ buffer[c] = <<>>
             /\ got'[c] = Append(got[c], Head(senders[c]))
             /\ buffer'[c] = buffer[c]
          \/ /\ senders[c] # <<>> /\ buffer[c] # <<>>
             /\ got'[c] = Append(got[c], Head(buffer[c]))
             /\ buffer'[c] = Append(Tail(buffer[c]), Head(senders[c]))
      BY <1>1, <1>12, <2>4 DEF Fetched, CanFetch
    <3> QED
      BY <3>1, <3>3, <3>4
  <2> QED
    BY <2>3, <2>4
<1>13. ASSUME NEW f \in Fibers, Cancelled(f) PROVE InOrder(got'[c], buffer'[c], senders'[c])
  <2>1. PICK m : m = msg[f]
    OBVIOUS
  <2>2. senders' = Without(senders, m) \/ senders' = senders
    BY <1>13, <2>1 DEF Cancelled
  <2>3. \A y : Contains(senders'[c], y) => Contains(senders[c], y)
    BY <1>7, <2>2
  <2> QED
    BY <1>6, <1>13, <2>3 DEF Cancelled
<1>14. ASSUME NEW m \in Msgs, Ended(m) \/ Freed(m) PROVE InOrder(got'[c], buffer'[c], senders'[c])
  <2>1. senders' = Without(senders, m) /\ got' = got /\ buffer' = buffer
    BY <1>14 DEF Ended, Freed, Over
  <2> QED
    BY <1>6, <1>7, <2>1
<1> QED
  BY <1>8, <1>9, <1>10, <1>11, <1>12, <1>13, <1>14 DEF MsgsStep

(* Two lists in that order, one behind the other. *)
LEMMA RisingConcat ==
  ASSUME Msgs \subseteq Int, NEW s \in Seq(Msgs), NEW t \in Seq(Msgs),
         Rising(s), Rising(t), Below(s, t)
  PROVE  /\ s \o t \in Seq(Msgs) /\ Rising(s \o t)
         /\ \A x : Contains(s \o t, x) <=> Contains(s, x) \/ Contains(t, x)
<1>1. PICK n \in Nat, k \in Nat : n = Len(s) /\ k = Len(t)
  BY LenProperties
<1>2. PICK u : u = s \o t
  OBVIOUS
<1>3. /\ u \in Seq(Msgs) /\ DOMAIN u = 1 .. n + k
      /\ \A i \in 1 .. n + k : u[i] = IF i <= n THEN s[i] ELSE t[i - n]
      /\ DOMAIN s = 1 .. n /\ DOMAIN t = 1 .. k
  BY <1>1, <1>2, ConcatProperties, LenProperties
<1>4. /\ \A i \in 1 .. n : i \in 1 .. n + k /\ u[i] = s[i]
      /\ \A i \in 1 .. k : n + i \in 1 .. n + k /\ ~(n + i <= n) /\ u[n + i] = t[i]
  <2>1. \A i \in 1 .. k : n + i \in 1 .. n + k /\ ~(n + i <= n) /\ n + i - n = i
    BY <1>1
  <2>2. \A i \in 1 .. n : i \in 1 .. n + k /\ i <= n
    BY <1>1
  <2> QED
    BY <1>3, <2>1, <2>2
<1>5. /\ \A i \in 1 .. n : s[i] \in Msgs /\ Contains(s, s[i])
      /\ \A i \in 1 .. k : t[i] \in Msgs /\ Contains(t, t[i])
  BY <1>1, <1>3, ElementOfSeq DEF Contains
<1>6. \A x : Contains(u, x) <=> Contains(s, x) \/ Contains(t, x)
  <2>1. ASSUME NEW x, NEW i \in 1 .. n + k, u[i] = x PROVE Contains(s, x) \/ Contains(t, x)
    <3>1. CASE i <= n
      <4>1. i \in 1 .. n /\ u[i] = s[i]
        BY <1>1, <1>3, <3>1
      <4> QED
        BY <1>5, <2>1, <4>1
    <3>2. CASE ~(i <= n)
      <4>1. i - n \in 1 .. k /\ u[i] = t[i - n]
        BY <1>1, <1>3, <3>2
      <4> QED
        BY <1>5, <2>1, <4>1
    <3> QED
      BY <3>1, <3>2
  <2>2. \A x : Contains(u, x) <=> \E i \in 1 .. n + k : u[i] = x
    BY <1>1, <1>3 DEF Contains
  <2>3. \A x : Contains(s, x) => \E i \in 1 .. n : s[i] = x
    BY <1>1 DEF Contains
  <2>4. \A x : Contains(t, x) => \E i \in 1 .. k : t[i] = x
    BY <1>1 DEF Contains
  <2> QED
    BY <1>4, <2>1, <2>2, <2>3, <2>4
<1>7. \A i \in 1 .. n, j \in 1 .. k : s[i] < t[j]
  BY <1>5 DEF Below
<1>8. ASSUME NEW i \in 1 .. n + k, NEW j \in 1 .. n + k, i < j PROVE u[i] < u[j]
  <2>1. CASE j <= n
    <3>1. i \in 1 .. n /\ j \in 1 .. n /\ i <= n
      BY <1>1, <1>8, <2>1
    <3>2. s[i] < s[j]
      BY <1>3, <1>8, <3>1 DEF Rising
    <3> QED
      BY <1>4, <3>1, <3>2
  <2>2. CASE i <= n /\ ~(j <= n)
    <3>1. i \in 1 .. n /\ j - n \in 1 .. k
      BY <1>1, <1>8, <2>2
    <3> QED
      BY <1>3, <1>7, <2>2, <3>1
  <2>3. CASE ~(i <= n)
    <3>1. i - n \in 1 .. k /\ j - n \in 1 .. k /\ i - n < j - n /\ ~(j <= n)
      BY <1>1, <1>8, <2>3
    <3>2. t[i - n] < t[j - n]
      BY <1>3, <3>1 DEF Rising
    <3> QED
      BY <1>3, <2>3, <3>1, <3>2
  <2> QED
    BY <2>1, <2>2, <2>3
<1>9. Rising(u)
  BY <1>3, <1>8 DEF Rising
<1> QED
  BY <1>2, <1>3, <1>6, <1>9

(* What is taken out, then the buffer, then the pending sends. *)
LEMMA InOrderConcat ==
  ASSUME Msgs \subseteq Int, NEW g \in Seq(Msgs), NEW b \in Seq(Msgs), NEW s \in Seq(Msgs),
         InOrder(g, b, s)
  PROVE  Rising(g \o b \o s)
<1>1. PICK u : u = g \o b
  OBVIOUS
<1>2. u \in Seq(Msgs) /\ Rising(u) /\ \A x : Contains(u, x) <=> Contains(g, x) \/ Contains(b, x)
  BY <1>1, RisingConcat DEF InOrder
<1>3. Below(u, s)
  BY <1>2 DEF InOrder, Below
<1>4. Rising(u \o s)
  BY <1>2, <1>3, RisingConcat DEF InOrder
<1> QED
  BY <1>1, <1>4

(* The whole invariant of the messages, step by step. *)
MessageInv ==
  /\ ListInv /\ Rendezvous /\ PlaceInv /\ FateInv
  /\ uses # "select" => \A c \in Chans : InOrder(got[c], buffer[c], senders[c])

(* It holds in every state. *)
LEMMA MessagesInvariant == Spec => []MessageInv
<1>1. ASSUME Init PROVE MessageInv
  <2>1. ListInv
    BY <1>1, InitLists
  <2>2. Rendezvous
    BY <1>1 DEF Init, Rendezvous
  <2>3. \A c \in Chans : got[c] = <<>> /\ buffer[c] = <<>> /\ senders[c] = <<>>
    BY <1>1 DEF Init
  <2>4. \A x : ~Contains(<<>>, x)
    BY DEF Contains
  <2>5. Distinct(<<>>) /\ Rising(<<>>)
    BY DEF Distinct, Rising
  <2>6. \A m : ~In(got, m) /\ ~In(buffer, m) /\ ~In(senders, m)
    BY <2>3, <2>4 DEF In
  <2>7. PlaceInv
    BY <2>3, <2>4, <2>5, <2>6 DEF PlaceInv, OneCopy, Placed
  <2>8. \A m \in Msgs : fate[m] = "unsent"
    BY <1>1 DEF Init
  <2>9. FateInv
    BY <2>6, <2>8 DEF FateInv, Placed
  <2>10. \A c \in Chans : InOrder(got[c], buffer[c], senders[c])
    BY <2>3, <2>4, <2>5 DEF InOrder, Below
  <2> QED
    BY <2>1, <2>2, <2>7, <2>9, <2>10 DEF MessageInv
<1>2. ASSUME MessageInv, [Next]_vars PROVE MessageInv'
  <2>1. ListInv' /\ MsgsStep /\ ReceiversStep /\ uses' = uses
    BY <1>2, EveryStepOK, MsgsStepKeeps DEF StepOK, ListInv, Typed, MessageInv, MsgsStep
  <2>2. Rendezvous' /\ PlaceInv' /\ FateInv'
    BY <1>2, <2>1, RendezvousStep, PlacesStep DEF MessageInv
  <2>3. ASSUME uses # "select", NEW c \in Chans PROVE InOrder(got'[c], buffer'[c], senders'[c])
    BY <1>2, <2>1, <2>3, OrderStep DEF MessageInv
  <2>4. (uses # "select" => \A c \in Chans : InOrder(got[c], buffer[c], senders[c]))'
    <3>1. \A c \in Chans : InOrder(got[c], buffer[c], senders[c])' <=>
                            InOrder(got'[c], buffer'[c], senders'[c])
      BY DEF InOrder, Below, Rising, Contains
    <3> QED
      BY <2>1, <2>3, <3>1
  <2> QED
    BY <2>1, <2>2, <2>4 DEF MessageInv
<1> QED
  BY <1>1, <1>2, PTL DEF Spec

(* Whoever comes second finds the first: no send is parked beside a        *)
(* waiting receiver or beside room in the buffer, and no receiver waits    *)
(* beside a message (Channel::send, fetch_noblock), without a select.      *)
THEOREM SendersMeetReceivers == Spec => []Rendezvous
<1>1. MessageInv => Rendezvous
  BY DEF MessageInv
<1> QED
  BY <1>1, MessagesInvariant, PTL

(* Messages leave a channel in the order of the calls that sent them, when *)
(* sends time out, are cancelled or belong to a group too, without select. *)
THEOREM MessagesStayInOrder == Spec => []SentInOrder
<1>1. ASSUME MessageInv PROVE SentInOrder
  <2>1. ASSUME uses # "select", NEW c \in Chans PROVE Rising(got[c] \o buffer[c] \o senders[c])
    <3>1. ListInv /\ InOrder(got[c], buffer[c], senders[c])
      BY <1>1, <2>1 DEF MessageInv
    <3>2. Msgs \subseteq Int /\ got[c] \in Seq(Msgs) /\ buffer[c] \in Seq(Msgs) /\ senders[c] \in Seq(Msgs)
      BY <3>1, Numbers, ListTypes
    <3> QED
      BY <3>1, <3>2, InOrderConcat
  <2> QED
    BY <2>1 DEF SentInOrder, Rising
<1> QED
  BY <1>1, MessagesInvariant, PTL

(* The places of a message: none, or one. *)
LEMMA PlacesAre ==
  ASSUME ListInv, PlaceInv, NEW m \in Msgs
  PROVE  Cardinality(Places(m)) = IF Placed(m) THEN 1 ELSE 0
<1> DEFINE at(name, lists) ==
      UNION {{<<name, c>>} \X {i \in DOMAIN lists[c] : lists[c][i] = m} : c \in Chans}
<1>1. Places(m) = at("buffer", buffer) \cup at("got", got)
  BY DEF Places
<1>2. ASSUME NEW l, \A c \in Chans : l[c] \in Seq(Msgs), ~In(l, m), NEW name
      PROVE  at(name, l) = {}
  <2>1. \A c \in Chans : {i \in DOMAIN l[c] : l[c][i] = m} = {}
    BY <1>2 DEF In, Contains
  <2> QED
    BY <2>1
<1>3. ASSUME NEW l, \A c \in Chans : l[c] \in Seq(Msgs), OneCopy(l), In(l, m), NEW name
      PROVE  \E x : at(name, l) = {x}
  <2>1. PICK c \in Chans : Contains(l[c], m)
    BY <1>3 DEF In
  <2>2. PICK i \in DOMAIN l[c] : l[c][i] = m
    BY <1>3, <2>1 DEF Contains
  <2>3. {j \in DOMAIN l[c] : l[c][j] = m} = {i}
    BY <1>3, <2>2 DEF OneCopy, Distinct
  <2>4. \A d \in Chans \ {c} : {j \in DOMAIN l[d] : l[d][j] = m} = {}
    BY <1>3, <2>1 DEF OneCopy, Contains
  <2>5. at(name, l) = {<<name, c>>} \X {i}
    BY <2>3, <2>4
  <2>6. {<<name, c>>} \X {i} = {<<<<name, c>>, i>>}
    OBVIOUS
  <2> QED
    BY <2>5, <2>6
<1> HIDE DEF at
<1>4. /\ \A c \in Chans : got[c] \in Seq(Msgs) /\ buffer[c] \in Seq(Msgs)
      /\ OneCopy(got) /\ OneCopy(buffer) /\ ~(In(got, m) /\ In(buffer, m))
  BY ListTypes DEF PlaceInv
<1>5. CASE In(got, m)
  <2>1. at("buffer", buffer) = {} /\ \E x : at("got", got) = {x}
    BY <1>2, <1>3, <1>4, <1>5
  <2>2. PICK x : Places(m) = {x}
    BY <1>1, <2>1
  <2> QED
    BY <1>5, <2>2, FS_Singleton DEF Placed
<1>6. CASE In(buffer, m)
  <2>1. at("got", got) = {} /\ \E x : at("buffer", buffer) = {x}
    BY <1>2, <1>3, <1>4, <1>6
  <2>2. PICK x : Places(m) = {x}
    BY <1>1, <2>1
  <2> QED
    BY <1>6, <2>2, FS_Singleton DEF Placed
<1>7. CASE ~Placed(m)
  <2>1. at("got", got) = {} /\ at("buffer", buffer) = {}
    BY <1>2, <1>4, <1>7 DEF Placed
  <2>2. Places(m) = {}
    BY <1>1, <2>1
  <2> QED
    BY <1>7, <2>2, FS_EmptySet
<1> QED
  BY <1>5, <1>6, <1>7 DEF Placed

(* A message is delivered once at most, and what send() did with its fiber *)
(* says whether it was: nothing is lost or delivered after a timeout.      *)
THEOREM MessagesArriveOnce == Spec => []DeliveredOnce
<1>1. ASSUME MessageInv PROVE DeliveredOnce
  <2>1. \A m \in Msgs : Cardinality(Places(m)) = IF Placed(m) THEN 1 ELSE 0
    BY <1>1, PlacesAre DEF MessageInv
  <2>2. FateInv
    BY <1>1 DEF MessageInv
  <2> QED
    BY <2>1, <2>2 DEF DeliveredOnce, FateInv
<1> QED
  BY <1>1, MessagesInvariant, PTL
=============================================================================
