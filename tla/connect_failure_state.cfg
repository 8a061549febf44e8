\* P3: does a failed connect() leave the Socket's state unchanged?
CONSTANTS Sockets = {s1}
SPECIFICATION Spec
PROPERTIES ConnectFailureKeepsState
