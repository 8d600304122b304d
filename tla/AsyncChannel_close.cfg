\* Three fibers on one channel without a buffer.
CONSTANTS
  c1 = c1
  c2 = c2
  f1 = f1
  f2 = f2
  f3 = f3
  Fibers = {f1, f2, f3}
  Loop = Loop
  Chans <- OneChan
  Capacity <- Unbuffered
  Rank <- MCRank
  Grouped = {}
  MaxMsgs = 2
  None = None
SPECIFICATION FairSpec
PROPERTY CloseReturns
