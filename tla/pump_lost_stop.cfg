\* pump.stop() after the calls: ctx.stop() racing the pump thread's loop.
CONSTANTS
  MaxCalls = 1
  Pumps = {"pump"}
  ExternalStop = FALSE
SPECIFICATION Spec
PROPERTIES PumpStopReturns
