SPECIFICATION MCSpec
CONSTANTS
  Urls = {a}
  FatalUrls = {a}
  BadUrls = {x}
  Empty = empty
  Grey = grey
  Blue = blue
  MaxChanges = 2
  MaxPosted = 1
  MaxQueue = 1
  Sessions = {s, t}
  Watched = s
  Sockets = {1, 2, 3, 4, 5}
  MaxAddresses = 1
  MaxOpens = 2
  CleanupAtExit = FALSE
  Codecs = {avc, hevc}
  Windows = {1, 2}
  MaxMessages = 4
  MaxInFlight = 2
  MaxFinds = 2
INVARIANTS
  FreshUrlWins
  LiveIsNotSuppressed
  ActiveSessionIsAlive
  NothingLeaks
  RtmpKeepsItsWord
PROPERTIES
  StopTerminates
  SessionsEnd
