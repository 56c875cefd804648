SPECIFICATION FairSpec
CONSTANTS
  Socks = {s1, s2, s3}
  MaxLen = 2
  MaxCache = 2
  AckNoDelay = 3
  ForgetsClosed = TRUE
  MaxSended = 9
INVARIANTS NeverBadAck AckScheduled NoStall WindowBound ReceivesOnce
PROPERTIES Released
