\* Two calls, pump thread and an external stopper: results stay sound and
\* the bridge implements the atomic blocking call of AtomicCall.
CONSTANTS
  MaxCalls = 2
  Pumps = {"pump"}
  ExternalStop = TRUE
SPECIFICATION Spec
INVARIANTS TypeOK BridgeResultSound BridgeResultInductive
PROPERTY AtomicSpec
