SPECIFICATION Spec
CONSTANTS
  Producers = {p1, p2}
  Writer = w
  Streams = {s1, s2}
  Timecodes = {tcA}
  NoTc = noTc
  QueueCap = 2
  FatalThreshold = 3
  MaxPackets = 3
  MaxDts = 1
  CallerContract = TRUE
INVARIANTS
  CloseNeverWedges
CHECK_DEADLOCK FALSE
