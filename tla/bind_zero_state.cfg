\* Scenario B: does bind(0) leave the listener's state unchanged?
SPECIFICATION Spec
PROPERTIES BindZeroKeepsState
