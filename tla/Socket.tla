------------------------------- MODULE Socket -------------------------------
(***************************************************************************)
(* Socket (src/src/socket.cpp): the closed -> open -> connected state      *)
(* machine of the TCP socket wrapper, over the backend tcp_socket it owns. *)
(*                                                                         *)
(* Each public call is one action.  The calls that go through the Blocking *)
(* Bridge (connect, read_some, write_some) are atomic here: the caller is  *)
(* blocked for the whole call and nothing else touches the Socket (the    *)
(* module BlockingBridge checks that a bridged call returns exactly the    *)
(* result its coroutine produced).  The backend is the environment: each  *)
(* of its operations may succeed, report an error_code or throw, except    *)
(* where the handle's own state decides (no connect on a closed handle,    *)
(* no I/O on an unconnected one).  Context::set_config may flip            *)
(* strict_checks between calls; every call reads it once, at its start.   *)
(* The Sockets of one Context share its Config.                            *)
(***************************************************************************)
EXTENDS Naturals

CONSTANT Sockets   \* the Socket objects bound to one Context

ASSUME SocketsAssumption == Sockets # {}

States == {"closed", "open", "connected"}

(* The ErrorCodes a Socket call can return.                                *)
ErrorCodes == {"none", "unknown", "invalid_argument", "invalid_state",
               "connect_failed", "read_failed", "write_failed"}

(* What a backend operation reports: success, an error_code, an exception. *)
Results == {"ok", "err", "exc"}

(* TcpEndpoint values, by what parse_endpoint does with them: a loopback    *)
(* alias ("localhost", "127.0.0.1"), another numeric IPv4 address, a host  *)
(* name (parse_ipv4_address fails), and any address with port 0.           *)
Endpoints == {"loopback", "numeric", "hostname", "port0"}

Ops == {"none", "open", "connect", "read_some", "write_some", "close"}

Ret == [op : Ops, code : ErrorCodes, bytes : {0, 1}]

VARIABLES
  st,      \* st[s]: Socket::Impl::st
  strict,  \* ctx->config().strict_checks
  hOpen,   \* hOpen[s]: the backend tcp_socket is open
  hConn,   \* hConn[s]: the backend tcp_socket is connected to a peer
  peerEof, \* peerEof[s]: the peer has closed its side of the connection
  ret      \* ret[s]: the last call [op, code returned, bytes: 0 or some]

vars == <<st, strict, hOpen, hConn, peerEof, ret>>

TypeOK ==
  /\ st \in [Sockets -> States]
  /\ strict \in BOOLEAN
  /\ hOpen \in [Sockets -> BOOLEAN]
  /\ hConn \in [Sockets -> BOOLEAN]
  /\ peerEof \in [Sockets -> BOOLEAN]
  /\ ret \in [Sockets -> Ret]

(* Fresh Socket(ctx) objects: closed, over closed handles; the Context's   *)
(* Config may have either strict_checks value.                             *)
Init ==
  /\ st = [s \in Sockets |-> "closed"]
  /\ strict \in BOOLEAN
  /\ hOpen = [s \in Sockets |-> FALSE]
  /\ hConn = [s \in Sockets |-> FALSE]
  /\ peerEof = [s \in Sockets |-> FALSE]
  /\ ret = [s \in Sockets |-> [op |-> "none", code |-> "none", bytes |-> 0]]

\* Mutant: the backend result stored without mapping it to an ErrorCode.
MapIoErrorUnmapped(r, fallback) == r

(* map_io_error_to_code and the catch (...) of the coroutine: the fixed    *)
(* fallback of the call site for an error_code, unknown for an exception.  *)
MapIoError(r, fallback) ==
  CASE r = "ok" -> "none" [] r = "err" -> fallback [] r = "exc" -> "unknown"

parse_endpoint(ep) == ep \in {"loopback", "numeric"}

Return(s, op, code, n) == ret' = [ret EXCEPT ![s] = [op |-> op, code |-> code, bytes |-> n]]

-----------------------------------------------------------------------------
(* Socket::open(): idempotent once open; sock.open() may throw.            *)
Open(s) ==
  \/ /\ st[s] # "closed"
     /\ Return(s, "open", "none", 0)
     /\ UNCHANGED <<st, strict, hOpen, hConn, peerEof>>
  \/ /\ st[s] = "closed"
     /\ \E r \in {"ok", "exc"} :
          /\ hOpen' = [hOpen EXCEPT ![s] = (r = "ok")]
          /\ st' = [st EXCEPT ![s] = IF r = "ok" THEN "open" ELSE "closed"]
          /\ Return(s, "open", MapIoError(r, "unknown"), 0)
     /\ UNCHANGED <<strict, hConn, peerEof>>

(* Socket::connect(ep).  On a closed socket open() runs first: in strict   *)
(* mode its failure is returned, otherwise ignored.  Then parse_endpoint,  *)
(* then the bridged sock.connect(target): success sets st = connected.     *)
(* `o` is the outcome of the implicit open(), `r` of the backend connect.  *)
Connect(s) ==
  \E ep \in Endpoints, o \in {"ok", "exc"}, r \in Results :
    LET opened     == st[s] = "closed" /\ o = "ok"   \* open() ran and succeeded
        openFailed == st[s] = "closed" /\ o = "exc"
        st1        == IF opened THEN "open" ELSE st[s] \* state after open()
        h1         == hOpen[s] \/ opened
        \* the backend refuses a connect on a closed or connected handle
        res        == IF ~h1 \/ hConn[s] THEN "err" ELSE r
    IN
    \/ /\ strict /\ openFailed
       /\ Return(s, "connect", "unknown", 0)
       /\ UNCHANGED <<st, strict, hOpen, hConn, peerEof>>
    \/ /\ ~(strict /\ openFailed)
       /\ ~parse_endpoint(ep)
       /\ st' = [st EXCEPT ![s] = st1]
       /\ hOpen' = [hOpen EXCEPT ![s] = h1]
       /\ Return(s, "connect", "invalid_argument", 0)
       /\ UNCHANGED <<strict, hConn, peerEof>>
    \/ /\ ~(strict /\ openFailed)
       /\ parse_endpoint(ep)
       /\ st' = [st EXCEPT ![s] = IF res = "ok" THEN "connected" ELSE st1]
       /\ hOpen' = [hOpen EXCEPT ![s] = h1]
       /\ hConn' = [hConn EXCEPT ![s] = hConn[s] \/ res = "ok"]
       /\ peerEof' = [peerEof EXCEPT ![s] = peerEof[s] /\ res # "ok"]
       /\ Return(s, "connect", MapIoError(res, "connect_failed"), 0)
       /\ UNCHANGED strict

(* Socket::read_some / write_some: argument check, then in strict mode the *)
(* state check, then the bridged backend I/O.  `valid` is                  *)
(* `data != nullptr && size > 0`.  Neither changes the socket's state.  A  *)
(* read after the peer's FIN succeeds with 0 bytes: the layer does not     *)
(* turn it into connection_closed.                                         *)
IoCall(s, op, fallback) ==
  \E valid \in BOOLEAN, r \in Results :
    LET res  == IF hConn[s] THEN r ELSE "err"
        code == IF ~valid THEN "invalid_argument"
                ELSE IF strict /\ st[s] # "connected" THEN "invalid_state"
                ELSE MapIoError(res, fallback)
        eof  == op = "read_some" /\ peerEof[s]
    IN
    /\ Return(s, op, code, IF code = "none" /\ ~eof THEN 1 ELSE 0)
    /\ UNCHANGED <<st, strict, hOpen, hConn, peerEof>>

ReadSome(s) == IoCall(s, "read_some", "read_failed")

WriteSome(s) == IoCall(s, "write_some", "write_failed")

\* Mutant: close() forgets to reset st.
CloseKeepState(s) ==
  /\ hOpen' = [hOpen EXCEPT ![s] = FALSE]
  /\ hConn' = [hConn EXCEPT ![s] = FALSE]
  /\ peerEof' = [peerEof EXCEPT ![s] = FALSE]
  /\ Return(s, "close", "none", 0)
  /\ UNCHANGED <<st, strict>>

(* Socket::close(): sock.close(), any exception swallowed, st = closed.    *)
Close(s) ==
  /\ hOpen' = [hOpen EXCEPT ![s] = FALSE]
  /\ hConn' = [hConn EXCEPT ![s] = FALSE]
  /\ peerEof' = [peerEof EXCEPT ![s] = FALSE]
  /\ st' = [st EXCEPT ![s] = "closed"]
  /\ Return(s, "close", "none", 0)
  /\ UNCHANGED strict

(* Context::set_config with another strict_checks, between two calls.      *)
SetConfig ==
  /\ strict' = ~strict
  /\ UNCHANGED <<st, hOpen, hConn, peerEof, ret>>

(* The peer of socket s closes its side of the connection (environment).  *)
PeerClose(s) ==
  /\ hConn[s]
  /\ ~peerEof[s]
  /\ peerEof' = [peerEof EXCEPT ![s] = TRUE]
  /\ UNCHANGED <<st, strict, hOpen, hConn, ret>>

Next ==
  \/ \E s \in Sockets :
       \/ Open(s) \/ Connect(s) \/ ReadSome(s) \/ WriteSome(s) \/ Close(s)
       \/ PeerClose(s)
  \/ SetConfig

Spec == Init /\ [][Next]_vars

-----------------------------------------------------------------------------
(* The wrapper's state never claims more than the backend handle has: a    *)
(* closed Socket holds a closed handle, an open one an open unconnected    *)
(* handle, a connected one a connected handle; across every order of       *)
(* open/connect/read/write/close, failures of each, and strict_checks      *)
(* toggled between calls.                                                  *)
SocketHandleCoherent ==
  \A s \in Sockets :
    /\ st[s] = "closed" => ~hOpen[s] /\ ~hConn[s]
    /\ st[s] = "open" => hOpen[s] /\ ~hConn[s]
    /\ st[s] = "connected" => hOpen[s] /\ hConn[s]

(* P3 of the spec: a connect() that fails leaves the Socket's state as it  *)
(* was before the call (Socket::connect).                                  *)
ConnectFailureKeepsState ==
  [][\A s \in Sockets :
       ret'[s].op = "connect" /\ ret'[s].code # "none" => st'[s] = st[s]]_vars

=============================================================================
