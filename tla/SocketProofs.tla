---------------------------- MODULE SocketProofs ----------------------------
(***************************************************************************)
(* Proofs about the Socket state machine, for every set of Sockets.        *)
(* TypeOK and SocketHandleCoherent are each inductive on their own (the    *)
(* second needs the first only to know the shape of the variables): every *)
(* action either leaves a socket's (st, hOpen, hConn) alone or sets all    *)
(* three together.                                                         *)
(***************************************************************************)
EXTENDS Socket, TLAPS

(* map_io_error_to_code yields an ErrorCode for every backend result.      *)
LEMMA MapIoErrorType ==
  ASSUME NEW r \in Results, NEW f \in ErrorCodes
  PROVE  MapIoError(r, f) \in ErrorCodes
BY DEF MapIoError, Results, ErrorCodes

(* Recording a call's result in ret keeps ret well typed.                 *)
LEMMA ReturnType ==
  ASSUME NEW s \in Sockets, NEW op \in Ops, NEW code \in ErrorCodes,
         NEW n \in {0, 1}, ret \in [Sockets -> Ret], Return(s, op, code, n)
  PROVE  ret' \in [Sockets -> Ret]
BY DEF Return, Ret

(* Every reachable state is well typed.                                    *)
THEOREM TypeCorrect == Spec => []TypeOK
<1>1. Init => TypeOK
  <2> SUFFICES ASSUME Init PROVE TypeOK
    OBVIOUS
  <2>1. st \in [Sockets -> States]
    BY DEF Init, States
  <2>2. ret \in [Sockets -> Ret]
    BY DEF Init, Ret, Ops, ErrorCodes
  <2>3. QED
    BY <2>1, <2>2 DEF Init, TypeOK
<1>2. TypeOK /\ [Next]_vars => TypeOK'
  <2> SUFFICES ASSUME TypeOK, [Next]_vars PROVE TypeOK'
    OBVIOUS
  <2> USE DEF TypeOK
  <2>1. ASSUME NEW s \in Sockets, Open(s) PROVE TypeOK'
    <3>1. CASE st[s] # "closed"
      BY <2>1, <3>1, ReturnType DEF Open, Ops, ErrorCodes
    <3>2. CASE st[s] = "closed"
      <4>1. PICK r \in {"ok", "exc"} :
                 /\ hOpen' = [hOpen EXCEPT ![s] = (r = "ok")]
                 /\ st' = [st EXCEPT ![s] = IF r = "ok" THEN "open" ELSE "closed"]
                 /\ Return(s, "open", MapIoError(r, "unknown"), 0)
        BY <2>1, <3>2 DEF Open
      <4>2. MapIoError(r, "unknown") \in ErrorCodes
        BY MapIoErrorType DEF Results, ErrorCodes
      <4>3. ret' \in [Sockets -> Ret]
        BY <4>1, <4>2, ReturnType DEF Ops
      <4>4. st' \in [Sockets -> States]
        BY <4>1 DEF States
      <4>5. QED
        BY <2>1, <3>2, <4>1, <4>3, <4>4 DEF Open
    <3>3. QED
      BY <3>1, <3>2
  <2>2. ASSUME NEW s \in Sockets, Connect(s) PROVE TypeOK'
    <3>1. PICK ep \in Endpoints, o \in {"ok", "exc"}, r \in Results :
            LET opened     == st[s] = "closed" /\ o = "ok"
                openFailed == st[s] = "closed" /\ o = "exc"
                st1        == IF opened THEN "open" ELSE st[s]
                h1         == hOpen[s] \/ opened
                res        == IF ~h1 \/ hConn[s] THEN "err" ELSE r
            IN
            \/ /\ strict /\ openFailed
               /\ Return(s, "connect", "unknown", 0)
               /\ UNCHANGED <<st, strict, hOpen, hConn, peerEof>>
            \/ /\ ~(strict /\ openFailed)
               /\ ~parse_endpoint(ep)
               /\ st' = [st EXCEPT ![s] = st1]
               /\ hOpen' = [hOpen EXCEPT ![s] = h1]
               /\ Return(s, "connect", "invalid_argument", 0)
               /\ UNCHANGED <<strict, hConn, peerEof>>
            \/ /\ ~(strict /\ openFailed)
               /\ parse_endpoint(ep)
               /\ st' = [st EXCEPT ![s] = IF res = "ok" THEN "connected" ELSE st1]
               /\ hOpen' = [hOpen EXCEPT ![s] = h1]
               /\ hConn' = [hConn EXCEPT ![s] = hConn[s] \/ res = "ok"]
               /\ peerEof' = [peerEof EXCEPT ![s] = peerEof[s] /\ res # "ok"]
               /\ Return(s, "connect", MapIoError(res, "connect_failed"), 0)
               /\ UNCHANGED strict
      BY <2>2 DEF Connect
    <3> DEFINE res == IF ~(hOpen[s] \/ (st[s] = "closed" /\ o = "ok")) \/ hConn[s]
                      THEN "err" ELSE r
    <3>2. MapIoError(res, "connect_failed") \in ErrorCodes
      BY MapIoErrorType DEF Results, ErrorCodes
    <3>3. /\ "connect" \in Ops
          /\ {"unknown", "invalid_argument", "none"} \subseteq ErrorCodes
          /\ {"open", "connected"} \subseteq States
      BY DEF Ops, ErrorCodes, States
    <3>4. ret' \in [Sockets -> Ret]
      BY <3>1, <3>2, <3>3, ReturnType
    <3>5. st' \in [Sockets -> States]
      BY <3>1, <3>3
    <3>6. /\ hOpen' \in [Sockets -> BOOLEAN]
          /\ hConn' \in [Sockets -> BOOLEAN]
          /\ peerEof' \in [Sockets -> BOOLEAN]
          /\ strict' \in BOOLEAN
      BY <3>1
    <3>7. QED
      BY <3>4, <3>5, <3>6
  <2>3. ASSUME NEW s \in Sockets, NEW op \in Ops, NEW f \in ErrorCodes,
               IoCall(s, op, f)
        PROVE  TypeOK'
    <3>1. PICK valid \in BOOLEAN, r \in Results :
            LET res  == IF hConn[s] THEN r ELSE "err"
                code == IF ~valid THEN "invalid_argument"
                        ELSE IF strict /\ st[s] # "connected" THEN "invalid_state"
                        ELSE MapIoError(res, f)
                eof  == op = "read_some" /\ peerEof[s]
            IN
            /\ Return(s, op, code, IF code = "none" /\ ~eof THEN 1 ELSE 0)
            /\ UNCHANGED <<st, strict, hOpen, hConn, peerEof>>
      BY <2>3 DEF IoCall
    <3>2. MapIoError(IF hConn[s] THEN r ELSE "err", f) \in ErrorCodes
      BY MapIoErrorType DEF Results
    <3>3. {"invalid_argument", "invalid_state"} \subseteq ErrorCodes
      BY DEF ErrorCodes
    <3>4. QED
      BY <3>1, <3>2, <3>3, ReturnType
  <2>4. ASSUME NEW s \in Sockets, Close(s) PROVE TypeOK'
    BY <2>4, ReturnType DEF Close, Ops, ErrorCodes, States
  <2>5. ASSUME NEW s \in Sockets, PeerClose(s) PROVE TypeOK'
    BY <2>5 DEF PeerClose
  <2>6. CASE SetConfig
    BY <2>6 DEF SetConfig
  <2>7. CASE UNCHANGED vars
    BY <2>7 DEF vars
  <2>8. QED
    <3>1. "read_some" \in Ops /\ "write_some" \in Ops
          /\ "read_failed" \in ErrorCodes /\ "write_failed" \in ErrorCodes
      BY DEF Ops, ErrorCodes
    <3>2. QED
      BY <2>1, <2>2, <2>3, <2>4, <2>5, <2>6, <2>7, <3>1
         DEF Next, ReadSome, WriteSome
<1>3. QED
  BY <1>1, <1>2, PTL DEF Spec

(* The wrapper's state agrees with its backend handle in every reachable   *)
(* state (SocketHandleCoherent, checked by run socket_lifecycle).          *)
THEOREM HandleCoherence == Spec => []SocketHandleCoherent
<1>1. Init => SocketHandleCoherent
  BY DEF Init, SocketHandleCoherent
<1>2. TypeOK /\ SocketHandleCoherent /\ [Next]_vars => SocketHandleCoherent'
  <2> SUFFICES ASSUME TypeOK, SocketHandleCoherent, [Next]_vars
               PROVE SocketHandleCoherent'
    OBVIOUS
  <2> USE DEF TypeOK, SocketHandleCoherent
  <2>1. ASSUME NEW s \in Sockets, Open(s) PROVE SocketHandleCoherent'
    <3>1. CASE st[s] # "closed"
      BY <2>1, <3>1 DEF Open
    <3>2. CASE st[s] = "closed"
      <4>1. PICK r \in {"ok", "exc"} :
                 /\ hOpen' = [hOpen EXCEPT ![s] = (r = "ok")]
                 /\ st' = [st EXCEPT ![s] = IF r = "ok" THEN "open" ELSE "closed"]
                 /\ hConn' = hConn
        BY <2>1, <3>2 DEF Open
      <4>2. QED
        BY <3>2, <4>1
    <3>3. QED
      BY <3>1, <3>2
  <2>2. ASSUME NEW s \in Sockets, Connect(s) PROVE SocketHandleCoherent'
    <3>1. PICK ep \in Endpoints, o \in {"ok", "exc"}, r \in Results :
            LET opened     == st[s] = "closed" /\ o = "ok"
                openFailed == st[s] = "closed" /\ o = "exc"
                st1        == IF opened THEN "open" ELSE st[s]
                h1         == hOpen[s] \/ opened
                res        == IF ~h1 \/ hConn[s] THEN "err" ELSE r
            IN
            \/ /\ strict /\ openFailed
               /\ Return(s, "connect", "unknown", 0)
               /\ UNCHANGED <<st, strict, hOpen, hConn, peerEof>>
            \/ /\ ~(strict /\ openFailed)
               /\ ~parse_endpoint(ep)
               /\ st' = [st EXCEPT ![s] = st1]
               /\ hOpen' = [hOpen EXCEPT ![s] = h1]
               /\ Return(s, "connect", "invalid_argument", 0)
               /\ UNCHANGED <<strict, hConn, peerEof>>
            \/ /\ ~(strict /\ openFailed)
               /\ parse_endpoint(ep)
               /\ st' = [st EXCEPT ![s] = IF res = "ok" THEN "connected" ELSE st1]
               /\ hOpen' = [hOpen EXCEPT ![s] = h1]
               /\ hConn' = [hConn EXCEPT ![s] = hConn[s] \/ res = "ok"]
               /\ peerEof' = [peerEof EXCEPT ![s] = peerEof[s] /\ res # "ok"]
               /\ Return(s, "connect", MapIoError(res, "connect_failed"), 0)
               /\ UNCHANGED strict
      BY <2>2 DEF Connect
    <3> DEFINE res == IF ~(hOpen[s] \/ (st[s] = "closed" /\ o = "ok")) \/ hConn[s]
                      THEN "err" ELSE r
    <3>2. CASE strict /\ st[s] = "closed" /\ o = "exc"
      BY <3>1, <3>2 DEF Return
    <3>3. CASE ~(strict /\ st[s] = "closed" /\ o = "exc") /\ ~parse_endpoint(ep)
      BY <3>1, <3>3 DEF Return
    <3>4. CASE ~(strict /\ st[s] = "closed" /\ o = "exc") /\ parse_endpoint(ep)
      <4>1. /\ st' = [st EXCEPT ![s] = IF res = "ok" THEN "connected"
                           ELSE IF st[s] = "closed" /\ o = "ok" THEN "open" ELSE st[s]]
            /\ hOpen' = [hOpen EXCEPT ![s] = hOpen[s] \/ (st[s] = "closed" /\ o = "ok")]
            /\ hConn' = [hConn EXCEPT ![s] = hConn[s] \/ res = "ok"]
        BY <3>1, <3>4
      <4>2. res = "ok" => (hOpen[s] \/ (st[s] = "closed" /\ o = "ok")) /\ ~hConn[s]
        OBVIOUS
      <4>3. QED
        BY <4>1, <4>2 DEF States
    <3>5. QED
      BY <3>2, <3>3, <3>4
  <2>3. ASSUME NEW s \in Sockets, NEW op \in Ops, NEW f \in ErrorCodes,
               IoCall(s, op, f)
        PROVE  SocketHandleCoherent'
    BY <2>3 DEF IoCall, Return
  <2>4. ASSUME NEW s \in Sockets, Close(s) PROVE SocketHandleCoherent'
    BY <2>4 DEF Close, Return
  <2>5. ASSUME NEW s \in Sockets, PeerClose(s) PROVE SocketHandleCoherent'
    BY <2>5 DEF PeerClose
  <2>6. CASE SetConfig
    BY <2>6 DEF SetConfig
  <2>7. CASE UNCHANGED vars
    BY <2>7 DEF vars
  <2>8. QED
    <3>1. "read_some" \in Ops /\ "write_some" \in Ops
          /\ "read_failed" \in ErrorCodes /\ "write_failed" \in ErrorCodes
      BY DEF Ops, ErrorCodes
    <3>2. QED
      BY <2>1, <2>2, <2>3, <2>4, <2>5, <2>6, <2>7, <3>1
         DEF Next, ReadSome, WriteSome
<1>3. QED
  BY <1>1, <1>2, TypeCorrect, PTL DEF Spec

=============================================================================
