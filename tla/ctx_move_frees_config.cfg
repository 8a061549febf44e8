CONSTANTS
  Streams = {s1, s2}
  Ctxs = {c1, c2}
  CtxMoves = TRUE
  SetterKind = "result"
  HostnameKind = "void"
SPECIFICATION StreamSpec
INVARIANT StreamConfigAlive
