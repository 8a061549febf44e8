\* Two streams over one TlsContext object; the context's moves and setters
\* between two objects are checked by tls_context_setters.
CONSTANTS
  Streams = {s1, s2}
  Ctxs = {c1}
  CtxMoves = TRUE
  SetterKind = "result"
  HostnameKind = "void"
SPECIFICATION StreamSpec
INVARIANT StreamTypeOK
INVARIANT ImplsOwnedOnce
INVARIANT ImplsOwnedOnceInductive
