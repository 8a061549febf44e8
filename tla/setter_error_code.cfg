\* The backend's setters return an error_code.
CONSTANTS
  Ctxs = {c1}
  SetterKind = "error_code"
  HostnameKind = "void"
SPECIFICATION Spec
INVARIANT SetterResultFaithful
