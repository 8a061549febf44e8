\* One client of the echo server with the default Config (strict_checks on),
\* no network faults: the client should get its line echoed.
CONSTANTS
  Clients = {k1}
  Lines = 1
  StrictModes = {TRUE}
  Faults = FALSE
SPECIFICATION Spec
INVARIANT EchoComplete
CHECK_DEADLOCK FALSE
