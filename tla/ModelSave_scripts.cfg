\* Saves three levels deep, in scripts with two levels of their own.
CONSTANTS
  order = order
  customer = customer
  part = part
  maker = maker
  note = note
  Recs = {order, customer, part, maker, note}
  Parents <- MCParents
  Children <- MCChildren
  Resultsets <- MCResultsets
  MaxLevel = 3
  MaxWrites = 6
SPECIFICATION Spec
INVARIANTS
  LevelAgrees
  UndoesItsOwn
  NoHalfSave
  ReturnTellsOutcome
