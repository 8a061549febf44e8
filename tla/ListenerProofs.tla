---------------------------- MODULE ListenerProofs ----------------------------
(***************************************************************************)
(* Proofs about the Listener state machine.  ListenerHandleCoherent is     *)
(* inductive together with TypeOK: each action either leaves the Listener  *)
(* state and the acceptor flags alone, or sets them together, and the      *)
(* backend's own refusals (no bind or listen on a closed acceptor) keep    *)
(* the flags below what the state claims.                                  *)
(***************************************************************************)
EXTENDS Listener, TLAPS

(* The Listener's error mapping yields an ErrorCode for every backend      *)
(* result.                                                                 *)
LEMMA MapErrorType ==
  ASSUME NEW r \in Results, NEW f \in ErrorCodes
  PROVE  MapError(r, f) \in ErrorCodes
BY DEF MapError, Results, ErrorCodes

(* Every reachable state is well typed.                                    *)
THEOREM TypeCorrect == Spec => []TypeOK
<1>1. Init => TypeOK
  <2> SUFFICES ASSUME Init PROVE TypeOK
    OBVIOUS
  <2>1. ret \in [op : Ops, code : ErrorCodes]
    BY DEF Init, Ops, ErrorCodes
  <2>2. lst \in States /\ accSt \in SocketStates
    BY DEF Init, States, SocketStates
  <2>3. /\ strict \in BOOLEAN /\ aOpen \in BOOLEAN /\ aBound \in BOOLEAN
        /\ aListen \in BOOLEAN /\ accConn \in BOOLEAN
    BY DEF Init
  <2>4. QED
    BY <2>1, <2>2, <2>3 DEF TypeOK
<1>2. TypeOK /\ [Next]_vars => TypeOK'
  <2> SUFFICES ASSUME TypeOK, [Next]_vars PROVE TypeOK'
    OBVIOUS
  <2> USE DEF TypeOK, States, SocketStates, Ops, acc
  <2>1. \A r \in Results, f \in {"unknown", "accept_failed"} :
          MapError(r, f) \in ErrorCodes
    BY MapErrorType DEF ErrorCodes
  <2>2. {"none", "unknown", "invalid_argument", "invalid_state"} \subseteq ErrorCodes
    BY DEF ErrorCodes
  <2>3. CASE Open
    <3>1. CASE lst # "closed"
      BY <2>2, <2>3, <3>1 DEF Open, Return
    <3>2. CASE lst = "closed"
      <4>1. PICK r \in {"ok", "exc"} :
              /\ aOpen' = (r = "ok")
              /\ lst' = IF r = "ok" THEN "open" ELSE "closed"
              /\ Return("open", MapError(r, "unknown"))
        BY <2>3, <3>2 DEF Open
      <4>2. ret' \in [op : Ops, code : ErrorCodes]
        BY <2>1, <4>1 DEF Return, Results
      <4>3. aOpen' \in BOOLEAN /\ lst' \in States
        BY <4>1
      <4>4. QED
        BY <2>3, <3>2, <4>2, <4>3 DEF Open
    <3>3. QED
      BY <3>1, <3>2
  <2>4. CASE Bind
    <3>1. PICK port \in Ports, o \in {"ok", "exc"}, r \in Results :
            LET opened     == lst = "closed" /\ o = "ok"
                openFailed == lst = "closed" /\ o = "exc"
                lst1       == IF opened THEN "open" ELSE lst
                h1         == aOpen \/ opened
                res        == IF ~h1 \/ aBound THEN "err" ELSE r
            IN
            \/ /\ strict /\ openFailed
               /\ Return("bind", "unknown")
               /\ UNCHANGED <<lst, strict, aOpen, aBound, aListen, acc>>
            \/ /\ ~(strict /\ openFailed)
               /\ port = 0
               /\ lst' = lst1
               /\ aOpen' = h1
               /\ Return("bind", "invalid_argument")
               /\ UNCHANGED <<strict, aBound, aListen, acc>>
            \/ /\ ~(strict /\ openFailed)
               /\ port # 0
               /\ lst' = lst1
               /\ aOpen' = h1
               /\ aBound' = (aBound \/ res = "ok")
               /\ Return("bind", MapError(res, "accept_failed"))
               /\ UNCHANGED <<strict, aListen, acc>>
      BY <2>4 DEF Bind
    <3>2. ret' \in [op : Ops, code : ErrorCodes]
      BY <2>1, <2>2, <3>1 DEF Return, Results
    <3>3. /\ lst' \in States /\ aOpen' \in BOOLEAN /\ aBound' \in BOOLEAN
          /\ aListen' = aListen /\ strict' = strict /\ acc' = acc
      BY <3>1
    <3>4. QED
      BY <3>2, <3>3
  <2>5. CASE Listen
    BY <2>1, <2>2, <2>5 DEF Listen, Return, Results
  <2>6. CASE Accept
    <3>1. ret' \in [op : Ops, code : ErrorCodes]
      BY <2>1, <2>2, <2>6 DEF Accept, Return, Results
    <3>2. accSt' \in SocketStates /\ accConn' \in BOOLEAN
      BY <2>6 DEF Accept
    <3>3. UNCHANGED <<lst, strict, aOpen, aBound, aListen>>
      BY <2>6 DEF Accept
    <3>4. QED
      BY <3>1, <3>2, <3>3
  <2>7. CASE Close
    BY <2>2, <2>7 DEF Close, Return
  <2>8. CASE SetConfig
    BY <2>8 DEF SetConfig
  <2>9. CASE UNCHANGED vars
    BY <2>9 DEF vars
  <2>10. QED
    BY <2>3, <2>4, <2>5, <2>6, <2>7, <2>8, <2>9 DEF Next
<1>3. QED
  BY <1>1, <1>2, PTL DEF Spec

(* The Listener's state agrees with its backend acceptor in every          *)
(* reachable state (ListenerHandleCoherent, checked by run                 *)
(* listener_lifecycle), whatever the order of calls, the backend's         *)
(* failures and the strict_checks flips.                                   *)
THEOREM HandleCoherence == Spec => []ListenerHandleCoherent
<1>1. Init => ListenerHandleCoherent
  BY DEF Init, ListenerHandleCoherent
<1>2. TypeOK /\ ListenerHandleCoherent /\ [Next]_vars => ListenerHandleCoherent'
  <2> SUFFICES ASSUME TypeOK, ListenerHandleCoherent, [Next]_vars
               PROVE ListenerHandleCoherent'
    OBVIOUS
  <2> USE DEF TypeOK, ListenerHandleCoherent, States, acc
  <2>1. CASE Open
    <3>1. CASE lst # "closed"
      BY <2>1, <3>1 DEF Open
    <3>2. CASE lst = "closed"
      <4>1. PICK r \in {"ok", "exc"} :
              /\ aOpen' = (r = "ok")
              /\ lst' = IF r = "ok" THEN "open" ELSE "closed"
        BY <2>1, <3>2 DEF Open
      <4>2. UNCHANGED <<aBound, aListen>>
        BY <2>1, <3>2 DEF Open
      <4>3. QED
        BY <3>2, <4>1, <4>2
    <3>3. QED
      BY <3>1, <3>2
  <2>2. CASE Bind
    <3>1. PICK port \in Ports, o \in {"ok", "exc"}, r \in Results :
            LET opened     == lst = "closed" /\ o = "ok"
                openFailed == lst = "closed" /\ o = "exc"
                h1         == aOpen \/ opened
                res        == IF ~h1 \/ aBound THEN "err" ELSE r
            IN
            \/ /\ strict /\ openFailed
               /\ UNCHANGED <<lst, aOpen, aBound, aListen>>
            \/ /\ lst' = IF opened THEN "open" ELSE lst
               /\ aOpen' = h1
               /\ UNCHANGED <<aBound, aListen>>
            \/ /\ lst' = IF opened THEN "open" ELSE lst
               /\ aOpen' = h1
               /\ aBound' = (aBound \/ res = "ok")
               /\ UNCHANGED aListen
      BY <2>2 DEF Bind
    <3> DEFINE opened == lst = "closed" /\ o = "ok"
    <3>2. CASE lst = "closed"
      <4>1. ~aOpen /\ ~aBound /\ ~aListen
        BY <3>2
      <4>2. CASE o = "ok"
        <5>1. lst' = "open" \/ UNCHANGED <<lst, aOpen, aBound, aListen>>
          BY <3>1, <3>2, <4>2
        <5>2. lst' = "open" => aOpen' /\ ~aListen'
          BY <3>1, <3>2, <4>1, <4>2
        <5>3. QED
          BY <5>1, <5>2
      <4>3. CASE o = "exc"
        <5>1. (IF ~(aOpen \/ opened) \/ aBound THEN "err" ELSE r) = "err"
          BY <4>1, <4>3
        <5>2. QED
          BY <3>1, <3>2, <4>1, <4>3, <5>1
      <4>4. QED
        BY <4>2, <4>3
    <3>3. CASE lst # "closed"
      <4>1. ~opened
        BY <3>3
      <4>2. QED
        BY <3>1, <3>3, <4>1
    <3>4. QED
      BY <3>2, <3>3
  <2>3. CASE Listen
    BY <2>3 DEF Listen, Return
  <2>4. CASE Accept
    BY <2>4 DEF Accept, Return
  <2>5. CASE Close
    BY <2>5 DEF Close, Return
  <2>6. CASE SetConfig
    BY <2>6 DEF SetConfig
  <2>7. CASE UNCHANGED vars
    BY <2>7 DEF vars
  <2>8. QED
    BY <2>1, <2>2, <2>3, <2>4, <2>5, <2>6, <2>7 DEF Next
<1>3. QED
  BY <1>1, <1>2, TypeCorrect, PTL DEF Spec

=============================================================================
