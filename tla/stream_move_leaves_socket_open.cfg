CONSTANTS
  Streams = {s1, s2}
  Ctxs = {c1}
  CtxMoves = FALSE
  SetterKind = "result"
  HostnameKind = "void"
SPECIFICATION StreamSpec
INVARIANT ReleasedSocketClosed
