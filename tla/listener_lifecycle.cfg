\* Every sequence of Listener calls, backend outcomes and strict_checks flips.
SPECIFICATION Spec
INVARIANTS TypeOK ListenerHandleCoherent
