SPECIFICATION FairSpec
CONSTANTS
  Last = 4
  Lead = 1
  Trail = 1
  Slack = 1
  BackSlack = 0
  Chunk = 1
  Span = 2
  Batch = 3
  MaxOvershoot = 1
  Targets = {0, 3}
  OpensSlowly = FALSE
  MaxTicks = 1
  MaxCommands = 2
PROPERTIES
  CommitServesLatestSeek
  CommittedSeekIsShown
  CutNeverOutrunsSeek
  FiredCutIsCovered
  ReactiveJumpIsTheOperators
  SeekIsServed
CHECK_DEADLOCK FALSE
