CONSTANTS
  NULL = NULL
  Cookies = {c1}
  Fds = {f1}
  MaxAddrs = 2
  MaxStarts = 1
  AcceptCookies = {a1}
  ListenFds = {l1}
  MaxBytes = 1
  RBUFLEN = 2
  WaitLens = {1}
  WBUFLEN = 2
  WriteLens = {1}
  MaxWritten = 1
  SslReqs = {s1, s2, s3}
  StartsFail = FALSE
  ClosesInCallback = TRUE
  Responses <- MCFullChunk
  MaxRLens = {4, 6}
  MAXHDR = 6
  MAXCHLEN = 4
  READMAX = 2
  HTTP_SIZE_MAX = 6
  Recs = {r1, r2, r3, r4}
  NPrio = 3
  MaxSignals = 2
SPECIFICATION Spec
CHECK_DEADLOCK FALSE
INVARIANTS
  PokesOpenConnection
