\* Is the Socket of a successful accept() connected, as listener.hpp says?
SPECIFICATION Spec
INVARIANTS AcceptedSocketConnected
