\* Three fibers, one of them with a group; a channel without a buffer and one
\* with room for one message.
CONSTANTS
  c1 = c1
  c2 = c2
  f1 = f1
  f2 = f2
  f3 = f3
  Fibers = {f1, f2, f3}
  Loop = Loop
  Chans <- TwoChans
  Capacity <- Mixed
  Rank <- MCRank
  Grouped = {f1}
  MaxMsgs = 3
  None = None
SPECIFICATION Spec
SYMMETRY PlainFibers
INVARIANTS
  WaitersRegistered
  DeliveredOnce
  Rendezvous
  SentInOrder
