------------------------------ MODULE TlsStream ------------------------------
(***************************************************************************)
(* TlsStream (src/tls_stream.cpp) composed with the TlsContext objects it  *)
(* is built from.  A stream's Impl keeps two pointers taken at             *)
(* construction: ctx_wrap, the TlsContext *object*, through which          *)
(* handshake() asks role(), and the backend stream's reference to that     *)
(* object's Impl's corosio::tls_context, which the backend uses for the    *)
(* handshake.  Moving or destroying TlsContext objects afterwards can      *)
(* separate the two.                                                       *)
(*                                                                         *)
(* The Impl of stream object s is named s, and so is the Socket it wraps   *)
(* (one Socket per stream, connected when the stream is made).  Each       *)
(* bridged call (handshake, read_some, write_some, shutdown) is one step:  *)
(* its caller is blocked for its whole length, and BlockingBridge checks   *)
(* the bridge itself.  The backend TLS session of Impl j is tls[j].        *)
(***************************************************************************)
EXTENDS TlsContext

CONSTANTS
  Streams,    \* the TlsStream objects
  CtxMoves    \* whether the program moves TlsContext objects

ASSUME StreamsAssumption == Streams # {} /\ Null \notin Streams
ASSUME CtxMovesAssumption == CtxMoves \in BOOLEAN

TlsStates == {"none", "established", "shutdown"}
StreamOps == {"-", "handshake", "read_some", "write_some", "shutdown", "close"}
StreamCodes == {"none", "unknown", "invalid_argument", "not_initialized",
                "tls_handshake_failed", "read_failed", "write_failed",
                "tls_shutdown_failed"}

VARIABLES
  sobj,     \* sobj[s]: life of TlsStream object s
  simpl,    \* simpl[s]: the Impl s's impl_ points to, or Null
  sfreed,   \* sfreed[j]: how often stream Impl j was deleted
  ctxWrap,  \* ctxWrap[j]: Impl::ctx_wrap, the TlsContext object
  cfgOf,    \* cfgOf[j]: the TlsContext Impl whose tls_context the backend stream uses
  tls,      \* tls[j]: the backend TLS session of Impl j
  mode,     \* mode[j]: the mode of Impl j's last handshake, or "-"
  sock,     \* sock[j]: the Socket Impl j wraps: "connected" or "closed"
  sret      \* the last stream call: its name, the stream Impl, its code

streamVars == <<sobj, simpl, sfreed, ctxWrap, cfgOf, tls, mode, sock, sret>>
vars == <<ctxVars, streamVars>>

StreamTypeOK ==
  /\ TypeOK
  /\ sobj \in [Streams -> ObjStates]
  /\ simpl \in [Streams -> Streams \cup {Null}]
  /\ sfreed \in [Streams -> 0..2]
  /\ ctxWrap \in [Streams -> Ctxs]
  /\ cfgOf \in [Streams -> Ctxs]
  /\ tls \in [Streams -> TlsStates]
  /\ mode \in [Streams -> Roles \cup {"-"}]
  /\ sock \in [Streams -> {"connected", "closed"}]
  /\ sret \in [op : StreamOps, impl : Streams \cup {Null}, code : StreamCodes]

Init ==
  /\ CtxInit
  /\ sobj = [s \in Streams |-> "unborn"]
  /\ simpl = [s \in Streams |-> Null]
  /\ sfreed = [j \in Streams |-> 0]
  /\ ctxWrap = [j \in Streams |-> CHOOSE c \in Ctxs : TRUE]
  /\ cfgOf = ctxWrap
  /\ tls = [j \in Streams |-> "none"]
  /\ mode = [j \in Streams |-> "-"]
  /\ sock = [j \in Streams |-> "connected"]
  /\ sret = [op |-> "-", impl |-> Null, code |-> "none"]

(* Stream Impls some stream object holds.                                  *)
LiveImpls == {simpl[s] : s \in Streams} \ {Null}

Ret(op, j, code) == sret' = [op |-> op, impl |-> j, code |-> code]

(* map_tls_error: the call's fallback code, whatever the error.           *)
\* Mutant: the backend's error passed through unmapped.
MapTlsErrorRaw(fallback) == "backend_error"
MapTlsError(fallback) == fallback

(* How a bridged call ends: the backend succeeds (only when `ok` allows),  *)
(* reports an error_code, or throws; mapped to none, map_tls_error's code  *)
(* or unknown.                                                             *)
BridgedCode(ok, fallback) ==
  {c \in {"none", MapTlsError(fallback), "unknown"} : c = "none" => ok}

-----------------------------------------------------------------------------
(* TlsStream(Socket&, TlsContext&): the Impl records the Socket, the       *)
(* TlsContext object and, in the backend stream, its Impl's tls_context.   *)
(* A moved-from TlsContext has no Impl: native_handle() is null and        *)
(* dereferencing it is undefined, so the model makes streams only from     *)
(* TlsContext objects that own one.                                        *)
StreamConstruct(s, c) ==
  /\ sobj[s] = "unborn" /\ cobj[c] = "alive" /\ cimpl[c] # Null
  /\ sobj' = [sobj EXCEPT ![s] = "alive"]
  /\ simpl' = [simpl EXCEPT ![s] = s]
  /\ ctxWrap' = [ctxWrap EXCEPT ![s] = c]
  /\ cfgOf' = [cfgOf EXCEPT ![s] = cimpl[c]]
  /\ UNCHANGED <<sfreed, tls, mode, sock, sret, ctxVars>>

(* handshake(): the mode is chosen from ctx_wrap->role() inside the        *)
(* coroutine; the backend handshakes only a fresh session over a           *)
(* connected socket.                                                       *)
Handshake(s) ==
  /\ sobj[s] = "alive"
  /\ LET j == simpl[s] IN
     \/ j = Null /\ Ret("handshake", Null, "not_initialized")
                 /\ UNCHANGED <<tls, mode>>
     \/ /\ j # Null
        /\ \E code \in BridgedCode(tls[j] = "none" /\ sock[j] = "connected",
                                   "tls_handshake_failed") :
             /\ Ret("handshake", j, code)
             /\ tls' = IF code = "none" THEN [tls EXCEPT ![j] = "established"] ELSE tls
             /\ mode' = [mode EXCEPT ![j] = Role(ctxWrap[j])]
  /\ UNCHANGED <<sobj, simpl, sfreed, ctxWrap, cfgOf, sock, ctxVars>>

(* read_some / write_some: not_initialized without an Impl,                *)
(* invalid_argument for a null buffer or a zero size, otherwise bridged to *)
(* the record layer, which works only on an established session.  Neither  *)
(* call checks the handshake state itself.                                 *)
StreamIo(s, op) ==
  /\ sobj[s] = "alive"
  /\ LET j == simpl[s]
         fallback == IF op = "read_some" THEN "read_failed" ELSE "write_failed"
     IN
     \/ j = Null /\ Ret(op, Null, "not_initialized")
     \/ j # Null /\ Ret(op, j, "invalid_argument")
     \/ /\ j # Null
        /\ \E code \in BridgedCode(tls[j] = "established" /\ sock[j] = "connected",
                                   fallback) :
             Ret(op, j, code)
  /\ UNCHANGED <<sobj, simpl, sfreed, ctxWrap, cfgOf, tls, mode, sock, ctxVars>>

(* The shutdown of Impl j's session: close_notify on an established        *)
(* session over a connected socket.                                        *)
ShutdownImpl(j, code) ==
  /\ code \in BridgedCode(tls[j] = "established" /\ sock[j] = "connected",
                          "tls_shutdown_failed")
  /\ tls' = IF code = "none" THEN [tls EXCEPT ![j] = "shutdown"] ELSE tls

Shutdown(s) ==
  /\ sobj[s] = "alive"
  /\ LET j == simpl[s] IN
     \/ j = Null /\ Ret("shutdown", Null, "not_initialized") /\ UNCHANGED tls
     \/ j # Null /\ \E code \in StreamCodes : ShutdownImpl(j, code)
                                              /\ Ret("shutdown", j, code)
  /\ UNCHANGED <<sobj, simpl, sfreed, ctxWrap, cfgOf, mode, sock, ctxVars>>

(* close() on Impl j: shutdown(), its result and any exception swallowed,  *)
(* then sock_wrap->close(), which closes the Socket whatever happened.     *)
CloseImpl(j) ==
  \E code \in StreamCodes :
    /\ ShutdownImpl(j, code)
    /\ sock' = [sock EXCEPT ![j] = "closed"]
    /\ Ret("close", j, code)

Close(s) ==
  /\ sobj[s] = "alive" /\ simpl[s] # Null
  /\ CloseImpl(simpl[s])
  /\ UNCHANGED <<sobj, simpl, sfreed, ctxWrap, cfgOf, mode, ctxVars>>

(* ~TlsStream(): close() and delete the Impl, if it has one.               *)
StreamDestroy(s) ==
  /\ sobj[s] = "alive"
  /\ sobj' = [sobj EXCEPT ![s] = "dead"]
  /\ simpl' = [simpl EXCEPT ![s] = Null]
  /\ \/ simpl[s] = Null /\ UNCHANGED <<sfreed, tls, sock, sret>>
     \/ /\ simpl[s] # Null
        /\ CloseImpl(simpl[s])
        /\ sfreed' = [sfreed EXCEPT ![simpl[s]] = @ + 1]
  /\ UNCHANGED <<ctxWrap, cfgOf, mode, ctxVars>>

(* TlsStream(TlsStream&&) and operator=(TlsStream&&): the same pointer     *)
(* moves as TlsContext's; the assignment deletes the old Impl without      *)
(* closing it.                                                             *)
StreamMoveConstruct(s, other) ==
  /\ sobj[s] = "unborn" /\ sobj[other] = "alive"
  /\ sobj' = [sobj EXCEPT ![s] = "alive"]
  /\ simpl' = [simpl EXCEPT ![s] = simpl[other], ![other] = Null]
  /\ UNCHANGED <<sfreed, ctxWrap, cfgOf, tls, mode, sock, sret, ctxVars>>

\* Mutant: the assignment copies other's pointer without nulling it.
StreamMoveAssignKeepOther(s, other) ==
  /\ sobj[s] = "alive" /\ sobj[other] = "alive" /\ s # other
  /\ sfreed' = IF simpl[s] = Null THEN sfreed ELSE [sfreed EXCEPT ![simpl[s]] = @ + 1]
  /\ simpl' = [simpl EXCEPT ![s] = simpl[other]]
  /\ UNCHANGED <<sobj, ctxWrap, cfgOf, tls, mode, sock, sret, ctxVars>>

StreamMoveAssign(s, other) ==
  /\ sobj[s] = "alive" /\ sobj[other] = "alive" /\ s # other
  /\ sfreed' = IF simpl[s] = Null THEN sfreed ELSE [sfreed EXCEPT ![simpl[s]] = @ + 1]
  /\ simpl' = [simpl EXCEPT ![s] = simpl[other], ![other] = Null]
  /\ UNCHANGED <<sobj, ctxWrap, cfgOf, tls, mode, sock, sret, ctxVars>>

(* The application closes the Socket itself (Socket::close()).            *)
SocketClose(j) ==
  /\ sock[j] = "connected"
  /\ sock' = [sock EXCEPT ![j] = "closed"]
  /\ UNCHANGED <<sobj, simpl, sfreed, ctxWrap, cfgOf, tls, mode, sret, ctxVars>>

(* TlsContext objects change around the streams.  A TlsContext object      *)
(* must outlive the streams made from it (the documented contract), so it  *)
(* is destroyed only when no live stream Impl names it.                    *)
CtxLife ==
  /\ \E c \in Ctxs :
       \/ CtxConstruct(c)
       \/ CtxDestroy(c) /\ \A j \in LiveImpls : ctxWrap[j] # c
       \/ CtxMoves /\ \E other \in Ctxs : CtxMoveConstruct(c, other)
                                         \/ CtxMoveAssign(c, other)
  /\ UNCHANGED streamVars

(* No object is alive any more: the program has ended.                    *)
Terminated ==
  /\ \A s \in Streams : sobj[s] # "alive"
  /\ \A c \in Ctxs : cobj[c] # "alive"
  /\ UNCHANGED vars

Next ==
  \/ CtxLife
  \/ \E s \in Streams :
       \/ \E c \in Ctxs : StreamConstruct(s, c)
       \/ Handshake(s) \/ Shutdown(s) \/ Close(s) \/ StreamDestroy(s)
       \/ \E op \in {"read_some", "write_some"} : StreamIo(s, op)
       \/ \E other \in Streams : StreamMoveConstruct(s, other)
                                \/ StreamMoveAssign(s, other)
       \/ SocketClose(s)
  \/ Terminated

StreamSpec == Init /\ [][Next]_vars

-----------------------------------------------------------------------------
(* The handshake runs in the role the stream's configuration was made      *)
(* for: the mode handshake() passes to the backend (from                   *)
(* ctx_wrap->role()) is the role of the TlsContext Impl whose tls_context   *)
(* the backend stream uses (spec 4.7: the mode is selected from the        *)
(* TlsContext's configured role).  A server stream must not run a client   *)
(* handshake with the server's certificate configuration.                  *)
HandshakeRoleMatchesConfig ==
  \A j \in Streams : mode[j] # "-" => mode[j] = role[cfgOf[j]]

(* A stream never outlives the configuration it uses: while a stream Impl  *)
(* exists, the TlsContext Impl its backend stream refers to has not been    *)
(* deleted.  The spec makes the TlsContext object outlive the stream; the  *)
(* backend stream however refers to that object's Impl.                    *)
StreamConfigAlive ==
  \A j \in LiveImpls : cfreed[cfgOf[j]] = 0

(* Under every order of constructions, moves, self-moves and destructions *)
(* of streams and TlsContexts, each Impl has at most one owner: no two     *)
(* stream objects hold the same Impl, an Impl held by an object has never  *)
(* been deleted, and no stream or TlsContext Impl is deleted twice (the    *)
(* move constructors and assignments of tls_stream.cpp and                 *)
(* tls_context.cpp, with their self-move check and destructors).            *)
ImplsOwnedOnce ==
  /\ \A s, t \in Streams : s # t /\ simpl[s] # Null => simpl[s] # simpl[t]
  /\ \A j \in Streams : sfreed[j] <= 1 /\ (j \in LiveImpls => sfreed[j] = 0)
  /\ \A i \in Ctxs : cfreed[i] <= 1

(* ImplsOwnedOnce strengthened so that every step preserves it, for        *)
(* streams and TlsContexts alike: an object that holds an Impl is alive;   *)
(* no two TlsContext objects hold the same Impl and a held one was never   *)
(* deleted; an object not yet constructed holds nothing, and its Impl      *)
(* (named after it, made by its constructor) is neither held nor deleted.  *)
ImplsOwnedOnceInductive ==
  /\ ImplsOwnedOnce
  /\ \A s \in Streams : simpl[s] # Null => sobj[s] = "alive"
  /\ \A s \in Streams : sobj[s] = "unborn" =>
       simpl[s] = Null /\ s \notin LiveImpls /\ sfreed[s] = 0
  /\ \A c, d \in Ctxs : c # d /\ cimpl[c] # Null => cimpl[c] # cimpl[d]
  /\ \A c \in Ctxs : cimpl[c] # Null => cobj[c] = "alive" /\ cfreed[cimpl[c]] = 0
  /\ \A c \in Ctxs : cobj[c] = "unborn" =>
       cimpl[c] = Null /\ (\A d \in Ctxs : cimpl[d] # c) /\ cfreed[c] = 0

(* A stream Impl is released only after its Socket was closed: the         *)
(* destructor closes before it deletes, so no released stream leaves its   *)
(* connection open without a close_notify.                                 *)
ReleasedSocketClosed ==
  \A j \in Streams : sfreed[j] > 0 => sock[j] = "closed"

=============================================================================
