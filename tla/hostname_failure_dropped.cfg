\* The backend's set_hostname reports failure in its return value.
CONSTANTS
  Ctxs = {c1}
  SetterKind = "result"
  HostnameKind = "result"
SPECIFICATION Spec
INVARIANT SetterResultFaithful
