\* Every sequence of Socket calls, backend outcomes and strict_checks flips.
CONSTANTS Sockets = {s1, s2}
SPECIFICATION Spec
INVARIANTS TypeOK SocketHandleCoherent
