# TLA+ models of net_corosio

net_corosio (`src/`) wraps an asynchronous, coroutine-based networking backend
(corosio/capy) behind blocking calls. This directory holds TLA+ models of its
parts, TLC configurations that model-check them on small instances, and TLAPS
proofs that hold for every value of the constants.

## 1. The system (inventory)

| Part | Source | State | Operations that change state |
|---|---|---|---|
| Error model | `include/.../error.hpp` | none | value type; `map_io_error_to_code` maps an error_code to the call site's fallback |
| Config | `include/.../config.hpp` | `strict_checks` and sizes | replaced by `Context::set_config` |
| Execution Context | `src/context.cpp` | `cfg`, the `io_context`, atomic `stop_requested` | `run()` clears the flag and then runs the io_context; `stop()` sets the flag and then stops the io_context; `set_config` |
| Blocking Bridge | the same block in `socket.cpp`, `listener.cpp`, `resolver.cpp`, `tls_stream.cpp` | `done` and `out` on the caller's stack | `run_async(task)`, then `while(!done) run_one()`; the coroutine writes `out` and then stores `done` |
| Socket | `src/socket.cpp` | `st` (closed/open/connected), backend `tcp_socket` | open, connect, read_some, write_some, close |
| Listener | `src/listener.cpp` | `st` (closed/open/listening), backend `tcp_acceptor` | open, bind, listen, accept (returns a fresh Socket), close |
| Resolver | `src/resolver.cpp` | none besides the bridge | resolve |
| TLS Context | `src/tls_context.cpp` | `impl_` → Impl with the role and the backend `tls_context` | construct, move, move-assign, destroy, `role()`, ten setters and `set_alpn`, all mapped by `call_and_map` |
| TLS Stream | `src/tls_stream.cpp` | `impl_` → Impl with `sock_wrap`, `ctx_wrap` and the backend stream bound to the context Impl's `tls_context` | construct, move, move-assign, destroy (close, then delete), handshake, read_some, write_some, shutdown, close |
| Echo example | `examples/echo_server.cpp`, `echo_client.cpp` | server: accept loop, one session at a time; client: a line loop | accept, read, echo, close; connect, write a line, read it back |
| ContextPump (tests) | `tests/test_tcp_echo.cpp` | a thread | `loop`: `while(!stop_requested()) run();`; `stop`: `ctx.stop(); join()` |

How they interact:
- Every Socket, Listener, Resolver and TlsStream holds a pointer to its Context's io_context.
- Every blocking call goes through the Blocking Bridge on that io_context.
- `strict_checks` from the Context's Config decides whether calls check the state machine before they reach the backend.
- The tests run a ContextPump thread on the same Context as the calls.
- A TlsStream wraps a Socket and a TlsContext object: it asks that object for its role, while its backend stream uses the tls_context of the Impl the object had when the stream was made.
- The echo example is a server process (Listener, then one accepted Socket at a time) and client processes (one Socket each).

The behaviours that make this hard to test:
- which thread (the caller in `run_one`, or a pump in `run`) runs a coroutine's resumption;
- `stop()` racing `run()` on the flag and on the io_context;
- multi-step calls (an implicit `open()` inside `connect`/`bind`) that fail halfway;
- `strict_checks` changing between calls.

## 2. Modules

**BlockingBridge.tla** models the bridge, the Context's `run`/`stop`, and the ContextPump.

CONSTANTS:
- `MaxCalls`: the number of successive blocking calls of the thread "main";
- `Pumps`: `{}` or `{"pump"}`;
- `ExternalStop`: whether a third party may call `stop()`.

Each call `k` has a coroutine `phase[k]`: none → queued → io → ready → wrote → done. The steps are:
- `Submit` is run_async.
- `RunStart` runs the coroutine up to its `co_await`.
- `IoComplete` is the backend completing and queuing the resumption.
- `RunResume` writes `out`.
- `StoreDone` is `done.store`.

The last three run on whichever thread is inside `run_one`/`run`. Main's loop is `CheckDone`/`RunOne*`. `stopped` models the io_context's stopped flag. `run_one`/`run` return 0 at once on a stopped io_context; nothing in the code calls `restart()`.

**Socket.tla** models the Socket state machine for a set `Sockets` of Sockets sharing one Config. Each public call is one action. A bridged call is atomic, because its caller is blocked for its whole length; BlockingBridge checks the bridge itself. The backend may succeed, return an error_code or throw, except where the handle's own state decides. Endpoints are abstracted into loopback, numeric, hostname and port 0, by what `parse_endpoint` does with them. `peerEof`/`PeerClose` model the peer's FIN, which the layer reports as a 0-byte success.

**Listener.tla** models the Listener state machine with its acceptor's open/bound/listening flags, and the state of the Socket that `accept()` returns.

**Resolver.tla** models `resolve()` and the life of Resolver objects. The lookup is one action, with its failure points as alternatives: the backend reports an error, or an exception is thrown before or during the loop that converts entries. The objects are constructed from a Context or by moving another object, move-assigned (self-assignment included) and destroyed. `impl`, `made` and `freed` record who holds which Impl and how often each was deleted; the Impl of object `r` is named `r`.

**AtomicCall.tla** is the abstract specification of a blocking call: the caller's calls happen one after another; the current call's I/O completes once with some result (`Complete`), then the call returns that result's code (`Return`). BlockingBridge instantiates it as `Atomic == INSTANCE AtomicCall WITH aResult <- result, aRetval <- retval, aCall <- call, CodeOf <- Code`: the caller sees only the backend's result, what each call returned and which call is current. `AtomicSpec == Atomic!Spec` is checked as a PROPERTY.

**TlsContext.tla** models TlsContext objects (`cobj`), the Impl each holds (`cimpl`), how often each Impl was deleted (`cfreed`), the Impls' roles and the last setter call (`cret`: its name, what the backend did, the code returned). Each setter is one action with its early returns: not_initialized without an Impl, invalid_argument for an empty string, and otherwise the backend call. `CallAndMap` is `detail::call_and_map`, a dispatch on the C++ type of the backend's return value:
- void gives none;
- bool goes to `handle_ret_as_error_code`;
- a type with `value()` (std::error_code) goes to `handle_ret_as_result`'s bool branch;
- a type with `error()` is tested through `error()`;
- an exception gives unknown.

The backend's return types are not part of this repository, so they are the constants `SetterKind` and `HostnameKind`. `set_hostname`'s lambda returns void whatever the backend returns.

**TlsStream.tla** extends TlsContext with TlsStream objects and their Impls. `ctxWrap[j]` is the TlsContext *object* the Impl points to; `cfgOf[j]` is the context Impl whose tls_context the backend stream was bound to at construction. `handshake()` takes its mode from `Role(ctxWrap[j])`, as `ctx_wrap->role()` does. Each bridged call (handshake, read_some, write_some, shutdown) is one step ending in none, the fallback (`map_tls_error` returns it unchanged) or unknown. `close()` shuts down, swallowing the result, and then closes the Socket; the destructor runs close and then deletes; the move assignment deletes without closing. TlsContext objects are made, moved and destroyed around the streams. Following the documented contract, an object is destroyed only when no live stream points to it. `CtxMoves` switches the context moves on.

**EchoSession.tla** composes the echo example's processes: one server and a set `Clients` of clients, each with `Lines` lines of input. Data is counted in lines, and each direction of a connection records how its side ended (open, FIN, or RST when unread data remained). The Socket calls behave as in socket.cpp and listener.cpp: `accept()` hands back a Socket whose state is closed, and with `strict` on, read_some on it returns invalid_state. `StrictModes` gives the values of `strict_checks`: true is the default Config the example's `Context ctx;` has (config.hpp:38), false the opt-out `Context::set_config` allows. `Faults` switches on network failures of connect, read and write. Every action that makes a network call takes the network's outcome `net` (`"ok"` or `"fault"`), so that fairness can be put on the steps where the network delivers only. The history variable `faulted` records whether a fault has happened; EchoComplete (every client gets every line back while no fault happened) is stated with it and is violated under the default Config (echo_strict_default.cfg).

**BridgeProofs.tla**, **SocketProofs.tla**, **ListenerProofs.tla**, **ResolverProofs.tla**, **TlsProofs.tla** and **EchoProofs.tla** hold the TLAPS proofs about those modules.

Each `MC_*.tla` extends its module for TLC; the `.cfg` files give the constants.

## 3. Runs

| Run | Constants | Checks | Result |
|---|---|---|---|
| bridge_pump | 2 calls, pump, no external stop | CallsReturn | passes |
| bridge_stop_safety | 2 calls, pump, external stop | TypeOK, BridgeResultSound, BridgeResultInductive, AtomicSpec | passes |
| pump_lost_stop | 1 call, pump | PumpStopReturns | violated: lost stop |
| bridge_stop_hang | 1 call, no pump, external stop | CallsReturn | violated: call never returns |
| resolver_ownership | 2 Resolvers, up to 2 entries | TypeOK, ImplOwnership, ImplOwnershipInductive | passes |
| socket_lifecycle | 2 sockets | TypeOK, SocketHandleCoherent | passes |
| listener_lifecycle | one Listener | TypeOK, ListenerHandleCoherent | passes |
| accept_socket_state | one Listener | AcceptedSocketConnected | violated |
| tls_context_setters | 2 contexts, result-typed backend | SetterResultFaithful | passes |
| tls_stream_lifecycle | 2 streams, 1 context, context moves | StreamTypeOK, ImplsOwnedOnce, ImplsOwnedOnceInductive | passes |
| ctx_move_frees_config | 2 streams, 2 contexts, context moves | StreamConfigAlive | violated: config deleted under the stream |
| echo_session | 2 clients, 2 lines, strict on and off, faults | TypeOK, AllSessionsEnd | passes |

The other findings have a configuration of their own; run it with `tlc -config <cfg> <MC module>`. These are not among the runs above.

| cfg | MC module | Property | Result |
|---|---|---|---|
| resolve_failure_empty.cfg | MC_Resolver | ResolveFailureEmpty | violated: partial list on exception |
| connect_failure_state.cfg | MC_Socket | ConnectFailureKeepsState | violated |
| bind_zero_state.cfg | MC_Listener | BindZeroKeepsState | violated |
| hostname_failure_dropped.cfg | MC_TlsContext | SetterResultFaithful | violated: set_hostname drops the failure |
| setter_error_code.cfg | MC_TlsContext | SetterResultFaithful | violated: success and failure swapped |
| ctx_move_stale_role.cfg | MC_TlsStream | HandshakeRoleMatchesConfig | violated: wrong handshake mode |
| stream_move_leaves_socket_open.cfg | MC_TlsStream | ReleasedSocketClosed | violated: move-assign skips close |
| echo_strict_default.cfg | MC_EchoSession | EchoComplete | violated: no echo with the default config |

Why the bounds are enough:
- Two calls let the pump run one call's resumption while main is already in the next call's loop.
- Two Resolver objects reach every move between two objects and self-move; two entries make order and a partial list observable.
- Two Sockets check that one Socket's action leaves the other alone under a shared, flipping `strict`.
- The backend's three outcomes (ok / error_code / exception) and every endpoint class are all enumerated.
- Two TlsContext objects with moves reach both ways a stream loses its configuration: a move out of its object, then a move-assign or destroy of the new owner. Two streams reach a move-assign between streams. The context-move runs with two streams and two contexts are the largest TLS instances; the passing runs split that space (moves with one context, two contexts without moves).
- Two echo clients make one wait in the backlog, with its lines already sent, while the server serves the other. Two lines per client make the inner loop go round. With faults on, every connect, read and write may also fail, on either side and at any point of a session. strict_checks takes both values in the same run: on, the server's first read fails and it closes with the client's line unread (an RST); off, the echo loop runs.

### Findings

- **accept:** a successful `accept()` returns a Socket whose `st` is still `closed` (listener.cpp:213). In strict mode that Socket cannot be read or written.
- **connect:** a failed `connect()` on a closed Socket leaves it `open`, because `open()` runs before `parse_endpoint` (socket.cpp:176-183). The spec's P3 says otherwise.
- **bind(0):** `bind(0)` opens a closed Listener and then returns `invalid_argument` (listener.cpp:116-128). Scenario B says otherwise.
- **stop during a call:** after `stop()` a blocking call in flight never returns: `run_one` returns 0 and `done` is never stored (socket.cpp:215). Section 5 of the spec says stop makes the bridge return.
- **resolve:** an exception in the middle of converting the lookup's entries (resolver.cpp:100) returns `unknown` with the entries already converted. Section 4.5 of the spec says the sequence is empty.
- **set_hostname:** its lambda returns void, so the backend's failure is dropped and the setter returns none (tls_context.cpp:189).
- **call_and_map:** for a backend returning std::error_code (or bool), success is reported as the fallback error and failure as none (tls_context.cpp:25-77). Only a result type with `error()` is mapped correctly.
- **handshake role:** handshake() asks the TlsContext *object* for its role, but the backend stream uses the configuration of the Impl that object had at construction. A moved-from object answers client, and one that was move-assigned answers another configuration's role (tls_stream.cpp:161).
- **context use after free:** after a move out of a TlsContext, a move-assign into the new owner or its destruction deletes the Impl a live stream's backend still uses (tls_context.cpp:152, 161).
- **stream move-assign:** `TlsStream::operator=` deletes the old Impl without `close()`: no close_notify, and the Socket stays open (tls_stream.cpp:131). The destructor does close.
- **echo with the default config:** strict_checks is true by default, and the Socket from `accept()` is `closed`. So echo_server's first read_some fails with invalid_state, the server closes every connection without echoing, and the client prints "server closed connection".
- **lost stop:** `Context::run()` clears `stop_requested` (context.cpp:73), so a `stop()` between the pump's check and its `run()` is lost, and `ContextPump::stop()` hangs in `join`.

## 4. Fairness

Three kinds of step are fair:
- **Threads:** main and the pump (`WF` on each thread's steps). OS threads that can run are eventually scheduled.
- **Backend completions:** `WF` on `IoComplete`. The backend finishes what it started. With no timeout in the code, this assumption is exactly what a hanging peer would break (listed as a hazard).
- **External stopper:** not fair. Nobody has to call `stop()`.
- **Echo processes:** `WF_vars(ServerStep("ok"))` and `WF_vars(ClientStep(c, "ok"))` for each client: the steps where the network delivers. They are separate OS processes, and a process that can go on eventually does. A network failure is a step the spec allows but never forces, so a call blocked on its peer (read_some with nothing to read, accept() with an empty backlog) stays blocked: no call has a timeout. The clients' input is assumed to deliver its next line or its end; a user who never types is outside this assumption (hazard at echo_server.cpp:55).

The echo runs do not check deadlock: once every client is done, the server blocks in `accept()` for ever, and the system really stops there. AllSessionsEnd checks that nothing stops earlier.

## 5. Proofs

SocketProofs proves two theorems for every non-empty set of Sockets (assumption `SocketsAssumption`):
- `TypeCorrect`: `Spec => []TypeOK`;
- `HandleCoherence`: `Spec => []SocketHandleCoherent`.

`SocketHandleCoherent` is inductive together with `TypeOK`. The proof has one step per action, and Connect is split by its three outcomes:
- an implicit open that fails;
- a bad endpoint;
- the bridged connect.

The step case for Connect rests on one fact: the backend connects only an open, unconnected handle, so `res = "ok"` implies the handle was open and not connected. Lemmas `MapIoErrorType` and `ReturnType` give the type of the error mapping and of recording a result.

ListenerProofs proves the same two theorems for the Listener (`TypeCorrect`, `HandleCoherence`). Bind is the hard step. On a closed Listener whose implicit open fails, the backend refuses the bind, because the acceptor is closed. So `aBound` stays FALSE while `lst` stays `closed`. The proof splits on whether the Listener was closed and on the outcome of the implicit open.

ResolverProofs proves `OwnershipInvariant` (`Spec => [](OwnTypeOK /\ ImplOwnershipInductive)`) and, from it, `ImplOwnedOnce` (`Spec => []ImplOwnership`). These hold for every set of Resolver objects (assumption `ResolversAssumption`: the set is non-empty and does not contain the null pointer). ImplOwnership alone is not inductive. `ImplOwnershipInductive`, which TLC also checks in resolver_ownership, adds three facts:
- a held Impl was made and its holder is alive;
- an unborn object's Impl is not made yet;
- an Impl not made has not been deleted.

Construct needs the last two to show its fresh Impl is owned once; MoveConstruct needs the first.

BridgeProofs proves `BridgeInvariant` (`Spec => [](TypeOK /\ BridgeResultInductive)`) and, from it, `ResultSound` (`Spec => []BridgeResultSound`). They hold for every number of calls, with or without the pump thread and the external stopper (assumptions `MaxCallsAssumption`, `PumpsAssumption`).

BridgeResultSound alone is not inductive. `CheckDone` copies `out` into the return value as soon as it sees `done`, so the proof needs to know what `done` implies. `BridgeResultInductive`, which TLC also checks in bridge_stop_safety, adds:
- `done` is set only in phase `done`, after the coroutine's last write;
- once the I/O has completed, `result` is a backend result, and from the resumption on, `out` holds its mapped code;
- calls main has not reached yet are untouched, so `Submit` starts from a clean frame;
- a thread inside a resumption (`pc = "inh"`) knows its call, which is in phase `wrote`, and no two threads are inside the same call's resumption.

Three lemmas cover the handler steps on any thread: `RunStartInv`, `RunResumeInv` and `StoreDoneInv`. The main and pump cases of the proof only show which thread runs the step. The ordering bug that the RunResumeDoneFirst mutant plants (`done` before `out`) breaks the first conjunct.

BridgeProofs also proves `Refinement`: `Spec => AtomicSpec`, i.e. the bridge implements AtomicCall under the mapping above, for every number of calls, with or without the pump and the stopper. The proof follows the usual pattern:
- `Init` maps to `Atomic!Init`;
- every step, under the invariant, is an `Atomic!Next` step or leaves `<<result, retval, call>>` unchanged (`RefinementStep`).

It needs, beside `BridgeResultInductive`, a second invariant, `CallOrder` (lemma `CallOrderInvariant`):
- every call before `call` has returned;
- a coroutine's result is unset until its I/O completes;
- only the current call's coroutine is active.

With them, `IoComplete(k)` is `Complete(k)` (k is the current call, and its result is unset), and `CheckDone` leaving the loop is `Return` (`out` holds the code of the call's own result). All other steps leave the caller's view unchanged.

BridgeProofs also proves `TypeCorrect` (`Spec => []TypeOK`) directly from `BridgeInvariant`.

ResolverProofs also proves `TypeCorrect` (`Spec => []TypeOK`), for every bound `MaxEntries` on the entries. The ownership variables' shape comes from `OwnershipInvariant` (a counted delete stays within `0..2` only because no Impl is deleted twice); what resolve() stores is typed by a separate inductive part, `ResultTypeOK`. Two lemmas about the lookup carry it:
- `LookupEntries`: a list drawn from `BoundedSeq(BackendEntries(svc), MaxEntries)` is a sequence of raw entries;
- `ConvertedEntries`: converting the entries in order gives a sequence of Endpoints of the same length, and so does every prefix of it (the partial list left by an exception).

TlsProofs proves four theorems about TlsContext and TlsStream, for any sets of objects (assumptions `CtxsAssumption`, `StreamsAssumption`).
- `SetterFaithful`: `ASSUME SetterKind = "result", HostnameKind = "void" PROVE Spec => []SetterResultFaithful`.
  - The hypothesis names the one combination of backend return types under which call_and_map and set_hostname report failures faithfully; those types are not in this repository.
  - The lemmas `ResultMapping`, `VoidMapping` and `SetterMapping` compute `CallAndMap` for each setter.
  - The cfgs hostname_failure_dropped and setter_error_code show the other combinations failing.
- `StreamInvariant`: `StreamSpec => [](StreamTypeOK /\ ImplsOwnedOnceInductive)`, and from it:
  - `StreamTypeCorrect` (`[]StreamTypeOK`);
  - `OwnedOnce` (`[]ImplsOwnedOnce`).

ImplsOwnedOnce alone is not inductive. `ImplsOwnedOnceInductive`, which TLC also checks in tls_stream_lifecycle, adds these facts, for stream and TlsContext objects alike:
- an object holding an Impl is alive;
- a held TlsContext Impl has one holder and was never deleted;
- an unborn object holds nothing, and its Impl is neither held nor deleted.

StreamConstruct and CtxConstruct need the last fact for the Impl they make. The destructors and move assignments need the second to keep each deletion count at one. The type invariant rests on the same facts, because the counts are typed `0..2`. The proof splits the invariant into a TlsContext part (`CtxPart`), which only the context actions change, and a stream part (`StreamShape`, `StreamOwn`, with LiveImpls spelt out), which they leave alone; lemma `SplitGivesIInv` gives back the invariant the run checks. Lemma `CtxLifeStep` handles the four TlsContext actions, `CallsShape` the calls that leave ownership alone, `ConstructStep` and `ReleaseStep` the constructors, destructors and moves.

EchoProofs proves two theorems for every set of clients and every number of lines (assumption `EchoAssumption`):
- `TypeCorrect`: `Spec => []TypeOK`, for strict_checks on or off and with or without faults. TypeOK is not inductive: the counts stay in `0..Lines` only because a client's `sent` and `got` differ exactly by the line it has in flight and it writes only while lines are left, and the server touches `cur`'s connection only while it serves one. `CountsInv` adds these facts; lemmas `ClientStepCounts` and `ServerStepCounts` take one step per action and per outcome of each call.
- `StrictNeverEchoes`: `ASSUME StrictModes = {TRUE} PROVE Spec => [](\A c \in Clients : got[c] = 0)`. Under the default Config, no client ever gets a line back. The invariant `StrictInv` says the accepted Socket stays `closed`, so every server read_some fails its strict check, the server never reaches write_some, and no echoed data is ever in flight. This is the "echo with the default config" finding, for every number of clients and lines.

Only TLC checks the following:
- the liveness properties (CallsReturn, PumpStopReturns, AllSessionsEnd). They rest on fairness and ENABLED, which are out of TLAPS's reach here;
- the properties that are violated on purpose (the findings), and HandshakeRoleMatchesConfig, which holds only without context moves.

## 6. Not modelled (yet)

- **TlsStream's bridge:** each TLS call is one step. Its `while(!done) run_one()` loop is the one BlockingBridge models, so `close()` and the destructor hang after `stop()` as in the bridge_stop_hang finding.
- **Executor:** a pointer wrapper.
- **Socket and Listener moves, and `native_handle` everywhere:** ownership transfer only. The Resolver, TlsContext and TlsStream moves are modelled.
- **`to_native` and the TLS file formats and versions:** conversions between two enums that do not change control.
- **https_client and the benchmarks:** sequences of the calls modelled above, with timing and printing.
- **A torn read of `cfg` under a concurrent `set_config`:** a data race. The model flips `strict_checks` only between calls.
- **asio's automatic stop of an io_context that runs out of work:** not modelled. Only an explicit `stop()` stops it.

## 7. Plan

In order:
1. Action properties with their proofs. One example: a Resolver or TlsStream step deletes only the Impl its own object held.
2. The TLS bridge composed with BlockingBridge, so that TlsStream's destructor hangs after `stop()` in a run of its own.
