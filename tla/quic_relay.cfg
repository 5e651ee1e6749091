SPECIFICATION FairSpec
CONSTANTS
  c1 = c1  c2 = c2
  Conns = {c1, c2}
  QuicCap = 1
  AcceptFails = TRUE
  MaxStreams = 2
INVARIANTS SlotsAccounted OneStream
PROPERTIES RelayEnds AcceptedInTheEnd
CHECK_DEADLOCK FALSE
