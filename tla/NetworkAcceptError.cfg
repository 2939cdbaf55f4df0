SPECIFICATION AcceptSpec
CONSTANTS
  AcceptCookies = {c1, c2}
  ListenFds = {f1, f2}
  NULL = NULL
INVARIANTS
  ErrorCallsBack
