\* Two blocking calls on a Context also driven by the ContextPump thread.
CONSTANTS
  MaxCalls = 2
  Pumps = {"pump"}
  ExternalStop = FALSE
SPECIFICATION Spec
PROPERTIES CallsReturn
