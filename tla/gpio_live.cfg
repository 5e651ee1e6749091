SPECIFICATION FairSpec
CONSTANTS
  t1 = t1  t2 = t2  s1 = s1  s2 = s2
  Tasks = {t1, t2}
  PinConfig <- MixedLines
  NumChips = 1
  Slots = {s1}
  HeapCap = 2
  Hold = 1
  Budget = 1
  MaxGap = 1
  MaxTime = 2
  IoctlFails = FALSE
  KmsgFails = FALSE
  NoTask = NoTask
PROPERTIES Answered Released Blinks
