------------------------------ MODULE Listener ------------------------------
(***************************************************************************)
(* Listener (src/src/listener.cpp): the closed -> open -> listening state  *)
(* machine of the TCP acceptor wrapper over the backend tcp_acceptor, and  *)
(* the Socket that accept() hands back in its AcceptResult.               *)
(*                                                                         *)
(* As in module Socket, each public call is one action; accept() goes     *)
(* through the Blocking Bridge and is atomic for its caller.  The backend  *)
(* acceptor may succeed, report an error_code or throw, except where its  *)
(* own state decides: bind and listen need an open handle, a second bind  *)
(* is refused, accept needs a listening handle.  listen() on an open but  *)
(* unbound handle succeeds (the OS binds an ephemeral port).               *)
(*                                                                         *)
(* accepted is the Socket of the latest AcceptResult: its wrapper state    *)
(* (Socket::Impl::st) and whether its backend tcp_socket holds an accepted *)
(* connection.  Each accept() builds a fresh one, the previous result     *)
(* being gone by then (echo_server.cpp, the accept loop).                 *)
(***************************************************************************)
EXTENDS Naturals

States == {"closed", "open", "listening"}
SocketStates == {"closed", "open", "connected"}

(* The ErrorCodes a Listener call can return.                              *)
ErrorCodes == {"none", "unknown", "invalid_argument", "invalid_state",
               "accept_failed"}

(* What a backend operation reports: success, an error_code, an exception. *)
Results == {"ok", "err", "exc"}

(* bind()'s port argument: 0, or any other port.                           *)
Ports == {0, 1}

Ops == {"none", "open", "bind", "listen", "accept", "close"}

VARIABLES
  lst,      \* Listener::Impl::st
  strict,   \* ctx->config().strict_checks
  aOpen,    \* the backend tcp_acceptor is open
  aBound,   \* the backend tcp_acceptor is bound to a local port
  aListen,  \* the backend tcp_acceptor is listening
  ret,      \* the last call: [op, code]
  accSt,    \* AcceptResult::socket: Socket::Impl::st
  accConn   \* AcceptResult::socket: its tcp_socket holds an accepted connection

vars == <<lst, strict, aOpen, aBound, aListen, ret, accSt, accConn>>
acc == <<accSt, accConn>>

TypeOK ==
  /\ lst \in States
  /\ strict \in BOOLEAN
  /\ aOpen \in BOOLEAN
  /\ aBound \in BOOLEAN
  /\ aListen \in BOOLEAN
  /\ ret \in [op : Ops, code : ErrorCodes]
  /\ accSt \in SocketStates
  /\ accConn \in BOOLEAN

Init ==
  /\ lst = "closed"
  /\ strict \in BOOLEAN
  /\ aOpen = FALSE
  /\ aBound = FALSE
  /\ aListen = FALSE
  /\ ret = [op |-> "none", code |-> "none"]
  /\ accSt = "closed"
  /\ accConn = FALSE

\* Mutant: the backend result returned without mapping it to an ErrorCode.
MapErrorUnmapped(r, fallback) == r

(* The Listener's error mapping: the call site's fallback for an           *)
(* error_code (accept_failed, for bind and listen as well), unknown for an  *)
(* exception caught by catch (...).                                         *)
MapError(r, fallback) ==
  CASE r = "ok" -> "none" [] r = "err" -> fallback [] r = "exc" -> "unknown"

Return(op, code) == ret' = [op |-> op, code |-> code]

-----------------------------------------------------------------------------
(* Listener::open(): idempotent once open; acc.open() may throw.           *)
Open ==
  \/ /\ lst # "closed"
     /\ Return("open", "none")
     /\ UNCHANGED <<lst, strict, aOpen, aBound, aListen, acc>>
  \/ /\ lst = "closed"
     /\ \E r \in {"ok", "exc"} :
          /\ aOpen' = (r = "ok")
          /\ lst' = IF r = "ok" THEN "open" ELSE "closed"
          /\ Return("open", MapError(r, "unknown"))
     /\ UNCHANGED <<strict, aBound, aListen, acc>>

(* Listener::bind(port).  On a closed listener open() runs first: in       *)
(* strict mode its failure is returned, otherwise ignored.  Then port 0 is *)
(* rejected, then acc.bind(endpoint(port)).  bind never changes lst.       *)
(* `o` is the outcome of the implicit open(), `r` of the backend bind.     *)
Bind ==
  \E port \in Ports, o \in {"ok", "exc"}, r \in Results :
    LET opened     == lst = "closed" /\ o = "ok"
        openFailed == lst = "closed" /\ o = "exc"
        lst1       == IF opened THEN "open" ELSE lst
        h1         == aOpen \/ opened
        \* the backend refuses bind on a closed or already bound handle
        res        == IF ~h1 \/ aBound THEN "err" ELSE r
    IN
    \/ /\ strict /\ openFailed
       /\ Return("bind", "unknown")
       /\ UNCHANGED <<lst, strict, aOpen, aBound, aListen, acc>>
    \/ /\ ~(strict /\ openFailed)
       /\ port = 0
       /\ lst' = lst1
       /\ aOpen' = h1
       /\ Return("bind", "invalid_argument")
       /\ UNCHANGED <<strict, aBound, aListen, acc>>
    \/ /\ ~(strict /\ openFailed)
       /\ port # 0
       /\ lst' = lst1
       /\ aOpen' = h1
       /\ aBound' = (aBound \/ res = "ok")
       /\ Return("bind", MapError(res, "accept_failed"))
       /\ UNCHANGED <<strict, aListen, acc>>

(* Listener::listen(backlog): in strict mode a closed listener is          *)
(* invalid_state; a backlog <= 0 becomes 128 (no effect on this model);     *)
(* then acc.listen(backlog), whose success sets lst = listening.           *)
Listen ==
  \/ /\ strict /\ lst = "closed"
     /\ Return("listen", "invalid_state")
     /\ UNCHANGED <<lst, strict, aOpen, aBound, aListen, acc>>
  \/ /\ ~(strict /\ lst = "closed")
     /\ \E r \in Results :
          LET res == IF aOpen THEN r ELSE "err" IN
          /\ aListen' = (aListen \/ res = "ok")
          /\ aBound' = (aBound \/ res = "ok")
          /\ lst' = IF res = "ok" THEN "listening" ELSE lst
          /\ Return("listen", MapError(res, "accept_failed"))
     /\ UNCHANGED <<strict, aOpen, acc>>

(* Listener::accept(): AcceptResult out(ctx) holds a fresh Socket, which   *)
(* is close()d at once; in strict mode a listener that is not listening is *)
(* invalid_state; otherwise the bridged acc.accept on native_sock fills the *)
(* socket's backend handle, and on any error the socket is close()d.        *)
(* native_sock is never null for a fresh Socket, so the not_initialized    *)
(* branch is unreachable.                                                  *)
Accept ==
  \/ /\ strict /\ lst # "listening"
     /\ Return("accept", "invalid_state")
     /\ accSt' = "closed"
     /\ accConn' = FALSE
     /\ UNCHANGED <<lst, strict, aOpen, aBound, aListen>>
  \/ /\ ~(strict /\ lst # "listening")
     /\ \E r \in Results :
          LET res == IF aListen THEN r ELSE "err" IN
          /\ Return("accept", MapError(res, "accept_failed"))
          /\ accConn' = (res = "ok")
          /\ accSt' = "closed"
     /\ UNCHANGED <<lst, strict, aOpen, aBound, aListen>>

\* Mutant: close() forgets to reset st.
CloseKeepState ==
  /\ aOpen' = FALSE
  /\ aBound' = FALSE
  /\ aListen' = FALSE
  /\ Return("close", "none")
  /\ UNCHANGED <<lst, strict, acc>>

(* Listener::close(): acc.close(), any exception swallowed, st = closed.   *)
Close ==
  /\ aOpen' = FALSE
  /\ aBound' = FALSE
  /\ aListen' = FALSE
  /\ lst' = "closed"
  /\ Return("close", "none")
  /\ UNCHANGED <<strict, acc>>

(* Context::set_config with another strict_checks, between two calls.      *)
SetConfig ==
  /\ strict' = ~strict
  /\ UNCHANGED <<lst, aOpen, aBound, aListen, ret, acc>>

Next == Open \/ Bind \/ Listen \/ Accept \/ Close \/ SetConfig

Spec == Init /\ [][Next]_vars

-----------------------------------------------------------------------------
(* The Listener's state never claims more than its backend acceptor has:   *)
(* closed means a closed, unbound acceptor; open an open one that is not   *)
(* listening; listening an open, bound, listening one.  Across every order *)
(* of calls, failures and strict_checks flips.                             *)
ListenerHandleCoherent ==
  /\ lst = "closed" => ~aOpen /\ ~aBound /\ ~aListen
  /\ lst = "open" => aOpen /\ ~aListen
  /\ lst = "listening" => aOpen /\ aBound /\ aListen

(* listener.hpp on accept(): On success, returns {none, Socket(ctx)} with  *)
(* a connected socket; and so the spec (4.4).  A successful accept() must  *)
(* hand back a Socket whose state is connected, or the strict read_some /  *)
(* write_some of echo_server.cpp and test_tcp_echo.cpp refuse to use it.   *)
AcceptedSocketConnected ==
  ret.op = "accept" /\ ret.code = "none" => accSt = "connected" /\ accConn

(* Scenario B of the spec: bind(0) returns invalid_argument without        *)
(* changing the listener's state.                                          *)
BindZeroKeepsState ==
  [][ret'.op = "bind" /\ ret'.code = "invalid_argument" => lst' = lst]_vars

=============================================================================
