\* Two TlsContext objects, setters returning a result, set_hostname void.
CONSTANTS
  Ctxs = {c1, c2}
  SetterKind = "result"
  HostnameKind = "void"
SPECIFICATION Spec
INVARIANT SetterResultFaithful
