\* A single-threaded caller while another thread may call Context::stop().
CONSTANTS
  MaxCalls = 1
  Pumps = {}
  ExternalStop = TRUE
SPECIFICATION Spec
PROPERTIES CallsReturn
