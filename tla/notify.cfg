CONSTANTS
  s1 = s1
  s2 = s2
  s3 = s3
  k1 = k1
  NoStream = NoStream
  Streams <- StreamSet
  Keys <- OneKey
  MaxStreams = 2
  MaxSends = 2
  MaxReplies = 2
  MayDisconnect = TRUE
SPECIFICATION FairSpec
CHECK_DEADLOCK FALSE
INVARIANTS Safe
PROPERTIES ReconnectKeepsStream PendingIsWritten
