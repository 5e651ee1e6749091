SPECIFICATION Spec
CONSTANTS
  t1 = t1  t2 = t2  s1 = s1  s2 = s2
  Tasks = {t1, t2}
  PinConfig <- TwoLines
  NumChips = 1
  Slots = {s1}
  HeapCap = 2
  Hold = 2
  Budget = 1
  MaxGap = 1
  MaxTime = 3
  IoctlFails = TRUE
  KmsgFails = TRUE
  NoTask = NoTask
SYMMETRY Symmetry
INVARIANTS TypeOK PacketLive ReplyMatchesEffect LowIsScheduled HoldAtMost
PROPERTY PulseSpec
CHECK_DEADLOCK FALSE
