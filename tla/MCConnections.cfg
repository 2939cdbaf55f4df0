CONSTANTS
  NULL = NULL
  Cookies = {c1, c2, c3}
  Fds = {f1, f2, f3}
  MaxAddrs = 2
  MaxStarts = 4
  AcceptCookies = {a1, a2, a3}
  ListenFds = {l1, l2}
  MaxBytes = 3
  RBUFLEN = 2
  WaitLens = {0, 1, 3}
  WBUFLEN = 2
  WriteLens = {1, 2, 3}
  MaxWritten = 6
  SslReqs = {s1, s2, s3}
  StartsFail = FALSE
  ClosesInCallback = FALSE
  Responses <- MCResponses
  MaxRLens = {4, 6}
  MAXHDR = 6
  MAXCHLEN = 4
  READMAX = 2
  HTTP_SIZE_MAX = 6
  Recs = {r1, r2, r3, r4}
  NPrio = 3
  MaxSignals = 2
SPECIFICATION Spec
CHECK_DEADLOCK FALSE
INVARIANTS
  EventsMatchCookies
  SocketsAccounted
  AllAddressesTried
  ReadInOrder
  WriteInOrder
  NoRequestStranded
  ResponseRight
  ListsConsistent
PROPERTIES
  ConnectOneCallback
  TimeoutEnds
  AcceptOneCallback
  SslOneCallback
  CompleteAnswered
  PromisedOrder
  WaitEnds
