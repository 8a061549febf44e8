\* Two clients of one echo server, two lines each, network faults allowed
\* on every connect, read and write.  strict_checks takes both values: true
\* is the default Config the example's `Context ctx;` has; false is the
\* opt-out Context::set_config allows, under which the echo loop runs.  The
\* server blocks in accept() for ever once every client is done, so the
\* program really stops there.
CONSTANTS
  Clients = {k1, k2}
  Lines = 2
  StrictModes = {TRUE, FALSE}
  Faults = TRUE
SPECIFICATION Spec
INVARIANT TypeOK
PROPERTY AllSessionsEnd
CHECK_DEADLOCK FALSE
