SPECIFICATION FairSpec
CONSTANTS
  Producers = {p1, p2}
  Writer = w
  Streams = {s1}
  Timecodes = {tcA}
  NoTc = noTc
  QueueCap = 2
  FatalThreshold = 2
  MaxPackets = 3
  MaxDts = 0
  CallerContract = FALSE
INVARIANTS
  NoLossNoReorder
  TrailerSealsEverything
  EarlyTimecodeTagged
PROPERTIES
  ImplementsRecordingFile
  AcceptedIsSettled
CHECK_DEADLOCK FALSE
