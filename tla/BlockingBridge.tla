--------------------------- MODULE BlockingBridge ---------------------------
(***************************************************************************)
(* The Blocking Bridge of net_corosio and the Context that owns its event  *)
(* loop.  Every blocking primitive (Socket::connect/read_some/write_some,  *)
(* Listener::accept, Resolver::resolve, TlsStream calls) all do one thing:  *)
(* put an `out` slot and an atomic `done` flag on its stack frame, submit  *)
(* a coroutine with capy::run_async to the io_context, then loop          *)
(* `while (!done) ioc->run_one();` on the calling thread.  The coroutine  *)
(* suspends at its co_await on the backend operation, is resumed when the  *)
(* I/O completes, writes `out` and then stores `done`.                     *)
(*                                                                         *)
(* Threads: "main" issues MaxCalls blocking calls one after another on one *)
(* Context; when Pumps = {"pump"} a second thread runs the ContextPump     *)
(* loop of tests/test_tcp_echo.cpp (`while (!stop_requested()) run();`)    *)
(* on the same Context, and main ends with pump.stop() (ctx.stop(); join). *)
(* When ExternalStop is TRUE a further thread may call Context::stop() at  *)
(* any moment, as the spec allows ("safe to call from any thread").        *)
(*                                                                         *)
(* The io_context is abstracted to what the bridge relies on: a `stopped`  *)
(* flag, handlers that are queued (start of a coroutine, resumption after  *)
(* I/O), and outstanding work.  run_one() on a stopped io_context, or one  *)
(* without work, returns 0 at once; otherwise it runs one queued handler,  *)
(* or blocks until one is queued or the io_context is stopped.  run()      *)
(* runs handlers until it is stopped or out of work.  Nothing in the code  *)
(* calls restart(), so `stopped` is never cleared.                         *)
(***************************************************************************)
EXTENDS Naturals

CONSTANTS
  MaxCalls,      \* number of blocking calls main makes, one at a time
  Pumps,         \* {} or {"pump"}: the ContextPump thread of the tests
  ExternalStop   \* whether another thread may call Context::stop() at any time

ASSUME MaxCallsAssumption == MaxCalls \in Nat \ {0}
ASSUME PumpsAssumption == Pumps \subseteq {"pump"}
ASSUME ExternalStopAssumption == ExternalStop \in BOOLEAN

Calls == 1..MaxCalls

(* What the backend operation reports when the coroutine resumes: success, *)
(* an error_code, or an exception thrown by the co_await.                  *)
Results == {"ok", "err", "exc"}

(* The ErrorCode the coroutine stores in `out` for each backend result: the *)
(* call site's fixed fallback (connect_failed, read_failed, ...) for an     *)
(* error_code, unknown for an exception.                                    *)
Codes == {"none", "op_failed", "unknown"}
\* Mutant: the backend result stored without map_io_error_to_code.
CodeUnmapped(r) == r
Code(r) == CASE r = "ok" -> "none" [] r = "err" -> "op_failed" [] r = "exc" -> "unknown"

(* Life of the coroutine submitted by call k.                               *)
(*   none      not yet submitted                                            *)
(*   queued    submitted by run_async, its start is a queued handler        *)
(*   io        suspended at the co_await, the backend operation in flight   *)
(*   ready     I/O completed, its resumption is a queued handler            *)
(*   wrote     a thread is running the resumption and has written `out`     *)
(*   done      `done` stored; the coroutine no longer touches the frame    *)
Phases == {"none", "queued", "io", "ready", "wrote", "done"}

Threads == {"main"} \cup Pumps

VARIABLES
  stopReq,   \* Context::Impl::stop_requested
  stopped,   \* the io_context's stopped flag
  phase,     \* phase[k]: the coroutine of call k
  result,    \* result[k]: what the backend reported to call k's coroutine
  out,       \* out[k]: the result slot on call k's stack frame
  done,      \* done[k]: the completion flag on call k's stack frame
  retval,    \* retval[k]: what call k returned to its caller, or "pending"
  call,      \* the call main is in (MaxCalls + 1 once all have returned)
  pc,        \* pc[t]: where thread t is
  ex         \* ex[t]: the call whose resumption thread t is running, or 0

vars == <<stopReq, stopped, phase, result, out, done, retval, call, pc, ex>>

MainPcs == {"call", "check", "runone", "inh", "stop", "join", "exit"}
PumpPcs == {"check", "run", "running", "inh", "sleep", "exit"}

TypeOK ==
  /\ stopReq \in BOOLEAN
  /\ stopped \in BOOLEAN
  /\ phase \in [Calls -> Phases]
  /\ result \in [Calls -> Results \cup {"unset"}]
  /\ out \in [Calls -> Codes]
  /\ done \in [Calls -> BOOLEAN]
  /\ retval \in [Calls -> Codes \cup {"pending"}]
  /\ call \in 1..(MaxCalls + 1)
  /\ pc \in [Threads -> MainPcs \cup PumpPcs]
  /\ ex \in [Threads -> 0..MaxCalls]

Init ==
  /\ stopReq = FALSE
  /\ stopped = FALSE
  /\ phase = [k \in Calls |-> "none"]
  /\ result = [k \in Calls |-> "unset"]
  /\ out = [k \in Calls |-> "unknown"]
  /\ done = [k \in Calls |-> FALSE]
  /\ retval = [k \in Calls |-> "pending"]
  /\ call = 1
  /\ pc = [t \in Threads |-> IF t = "main" THEN "call" ELSE "check"]
  /\ ex = [t \in Threads |-> 0]

(* Whether the io_context has outstanding work.                            *)
HasWork == \E k \in Calls : phase[k] \in {"queued", "io", "ready", "wrote"}

-----------------------------------------------------------------------------
(* Handlers, run by whichever thread is inside run_one() or run().         *)

(* The start of call k's coroutine: it runs up to the co_await on the      *)
(* backend operation and suspends; `ret` is where the running thread goes  *)
(* when the handler returns.                                               *)
RunStart(t, k, ret) ==
  /\ phase[k] = "queued"
  /\ phase' = [phase EXCEPT ![k] = "io"]
  /\ pc' = [pc EXCEPT ![t] = ret]
  /\ UNCHANGED <<stopReq, stopped, result, out, done, retval, call, ex>>

(* The resumption of call k's coroutine after its I/O completed: the       *)
(* result is inspected and `out` written (the error branch, the success    *)
(* branch, or the catch (...) branch).                                     *)
\* Mutant: done stored when the resumption starts, before `out` is written.
RunResumeDoneFirst(t, k) ==
  /\ phase[k] = "ready"
  /\ phase' = [phase EXCEPT ![k] = "wrote"]
  /\ done' = [done EXCEPT ![k] = TRUE]
  /\ pc' = [pc EXCEPT ![t] = "inh"]
  /\ ex' = [ex EXCEPT ![t] = k]
  /\ UNCHANGED <<stopReq, stopped, result, out, retval, call>>

RunResume(t, k) ==
  /\ phase[k] = "ready"
  /\ phase' = [phase EXCEPT ![k] = "wrote"]
  /\ out' = [out EXCEPT ![k] = Code(result[k])]
  /\ pc' = [pc EXCEPT ![t] = "inh"]
  /\ ex' = [ex EXCEPT ![t] = k]
  /\ UNCHANGED <<stopReq, stopped, result, done, retval, call>>

(* The end of the resumption: done.store(true, release), on the error path *)
(* before co_return and otherwise after the try block.  The thread returns *)
(* to `ret`.                                                               *)
\* Mutant: the error branch co_returns without done.store(true).
StoreDoneOkOnly(t, ret) ==
  LET k == ex[t] IN
  /\ pc[t] = "inh"
  /\ phase[k] = "wrote"
  /\ phase' = [phase EXCEPT ![k] = "done"]
  /\ done' = [done EXCEPT ![k] = (result[k] # "err")]
  /\ pc' = [pc EXCEPT ![t] = ret]
  /\ ex' = [ex EXCEPT ![t] = 0]
  /\ UNCHANGED <<stopReq, stopped, result, out, retval, call>>

StoreDone(t, ret) ==
  LET k == ex[t] IN
  /\ pc[t] = "inh"
  /\ phase[k] = "wrote"
  /\ phase' = [phase EXCEPT ![k] = "done"]
  /\ done' = [done EXCEPT ![k] = TRUE]
  /\ pc' = [pc EXCEPT ![t] = ret]
  /\ ex' = [ex EXCEPT ![t] = 0]
  /\ UNCHANGED <<stopReq, stopped, result, out, retval, call>>

(* The backend operation of call k completes with result r and queues the  *)
(* coroutine's resumption.  The environment: the peer, the OS.             *)
IoComplete(k) ==
  /\ phase[k] = "io"
  /\ \E r \in Results :
       /\ result' = [result EXCEPT ![k] = r]
       /\ phase' = [phase EXCEPT ![k] = "ready"]
  /\ UNCHANGED <<stopReq, stopped, out, done, retval, call, pc, ex>>

-----------------------------------------------------------------------------
(* Context::stop(): stop_requested = true, then ioc.stop().                 *)
CtxStop ==
  /\ stopReq' = TRUE
  /\ stopped' = TRUE

(* The caller side of the bridge, on thread "main".                        *)

(* Stack frame set up (`done{false}`, `out{unknown}`) and the coroutine     *)
(* submitted with capy::run_async.                                          *)
Submit ==
  /\ pc["main"] = "call"
  /\ call <= MaxCalls
  /\ out' = [out EXCEPT ![call] = "unknown"]
  /\ done' = [done EXCEPT ![call] = FALSE]
  /\ phase' = [phase EXCEPT ![call] = "queued"]
  /\ pc' = [pc EXCEPT !["main"] = "check"]
  /\ UNCHANGED <<stopReq, stopped, result, retval, call, ex>>

(* `while (!done.load(acquire))`: leave the loop and return `out`, or go    *)
(* round once more.                                                         *)
CheckDone ==
  /\ pc["main"] = "check"
  /\ IF done[call]
       THEN /\ retval' = [retval EXCEPT ![call] = out[call]]
            /\ call' = call + 1
            /\ pc' = [pc EXCEPT !["main"] =
                        IF call < MaxCalls THEN "call"
                        ELSE IF Pumps = {} THEN "exit" ELSE "stop"]
       ELSE /\ pc' = [pc EXCEPT !["main"] = "runone"]
            /\ UNCHANGED <<retval, call>>
  /\ UNCHANGED <<stopReq, stopped, phase, result, out, done, ex>>

(* ioc->run_one() returning 0 at once: the io_context is stopped or has no *)
(* work left.                                                              *)
RunOneReturn ==
  /\ pc["main"] = "runone"
  /\ stopped \/ ~HasWork
  /\ pc' = [pc EXCEPT !["main"] = "check"]
  /\ UNCHANGED <<stopReq, stopped, phase, result, out, done, retval, call, ex>>

(* ioc->run_one() running one queued handler.  With only I/O in flight it  *)
(* blocks: no step of main is enabled until IoComplete or a stop.          *)
RunOneStart ==
  /\ pc["main"] = "runone"
  /\ ~stopped
  /\ \E k \in Calls : RunStart("main", k, "check")

RunOneResume ==
  /\ pc["main"] = "runone"
  /\ ~stopped
  /\ \E k \in Calls : RunResume("main", k)

MainStoreDone == StoreDone("main", "check")

(* pump.stop() at the end of run_client_once/run_server_once: ctx.stop(),   *)
(* then join the pump thread.                                               *)
MainStopPump ==
  /\ pc["main"] = "stop"
  /\ CtxStop
  /\ pc' = [pc EXCEPT !["main"] = "join"]
  /\ UNCHANGED <<phase, result, out, done, retval, call, ex>>

MainJoin ==
  /\ pc["main"] = "join"
  /\ \A p \in Pumps : pc[p] = "exit"
  /\ pc' = [pc EXCEPT !["main"] = "exit"]
  /\ UNCHANGED <<stopReq, stopped, phase, result, out, done, retval, call, ex>>

-----------------------------------------------------------------------------
(* The ContextPump thread: `while (!ctx_.stop_requested()) { ctx_.run();   *)
(* sleep_short(); }` where Context::run() stores stop_requested = false    *)
(* and then calls ioc.run().                                                *)

PumpCheck(p) ==
  /\ pc[p] = "check"
  /\ pc' = [pc EXCEPT ![p] = IF stopReq THEN "exit" ELSE "run"]
  /\ UNCHANGED <<stopReq, stopped, phase, result, out, done, retval, call, ex>>

(* Context::run(): stop_requested.store(false), then enter ioc.run().       *)
PumpRun(p) ==
  /\ pc[p] = "run"
  /\ stopReq' = FALSE
  /\ pc' = [pc EXCEPT ![p] = "running"]
  /\ UNCHANGED <<stopped, phase, result, out, done, retval, call, ex>>

(* ioc.run() returns when the io_context is stopped or out of work.         *)
PumpRunReturn(p) ==
  /\ pc[p] = "running"
  /\ stopped \/ ~HasWork
  /\ pc' = [pc EXCEPT ![p] = "sleep"]
  /\ UNCHANGED <<stopReq, stopped, phase, result, out, done, retval, call, ex>>

PumpRunStart(p) ==
  /\ pc[p] = "running"
  /\ ~stopped
  /\ \E k \in Calls : RunStart(p, k, "running")

PumpRunResume(p) ==
  /\ pc[p] = "running"
  /\ ~stopped
  /\ \E k \in Calls : RunResume(p, k)

PumpStoreDone(p) == StoreDone(p, "running")

PumpSleep(p) ==
  /\ pc[p] = "sleep"
  /\ pc' = [pc EXCEPT ![p] = "check"]
  /\ UNCHANGED <<stopReq, stopped, phase, result, out, done, retval, call, ex>>

(* Context::stop() called by some other thread.                             *)
ExternalCtxStop ==
  /\ ExternalStop
  /\ ~stopped
  /\ CtxStop
  /\ UNCHANGED <<phase, result, out, done, retval, call, pc, ex>>

(* Every thread has finished: the program has exited.                       *)
Terminated ==
  /\ \A t \in Threads : pc[t] = "exit"
  /\ UNCHANGED vars

MainStep ==
  \/ Submit \/ CheckDone \/ RunOneReturn \/ RunOneStart \/ RunOneResume
  \/ MainStoreDone \/ MainStopPump \/ MainJoin

PumpStep(p) ==
  \/ PumpCheck(p) \/ PumpRun(p) \/ PumpRunReturn(p) \/ PumpRunStart(p)
  \/ PumpRunResume(p) \/ PumpStoreDone(p) \/ PumpSleep(p)

Next ==
  \/ MainStep
  \/ \E p \in Pumps : PumpStep(p)
  \/ \E k \in Calls : IoComplete(k)
  \/ ExternalCtxStop
  \/ Terminated

(* Both threads are scheduled by the OS and keep running while they can;   *)
(* the backend completes every operation it was given (the peer answers;   *)
(* the code has no timeout).  The external stopper is not fair: it may     *)
(* never call stop().                                                      *)
Fairness ==
  /\ WF_vars(MainStep)
  /\ \A p \in Pumps : WF_vars(PumpStep(p))
  /\ \A k \in Calls : WF_vars(IoComplete(k))

Spec == Init /\ [][Next]_vars /\ Fairness

-----------------------------------------------------------------------------
(* Properties.                                                              *)

(* The bridge's contract (Socket::connect and its five copies): a call     *)
(* that has returned returned exactly the code its coroutine derived from  *)
(* the backend result, and that coroutine had already stored `done`, so it *)
(* never writes `out` or `done` in the caller's dead stack frame.  Whether *)
(* main or the pump thread ran the resumption must not matter.             *)
BridgeResultSound ==
  \A k \in Calls :
    retval[k] # "pending" =>
      /\ phase[k] = "done"
      /\ retval[k] = Code(result[k])

(* BridgeResultSound strengthened so that every step preserves it.  The   *)
(* coroutine's life fixes what the caller may see: `done` is only set once *)
(* the coroutine is past its last write, `out` holds the mapped result from *)
(* the resumption on, the result never changes after the I/O completed,    *)
(* and the calls main has not reached yet are untouched, so Submit always  *)
(* starts from a clean frame.  A thread inside a resumption knows which    *)
(* call it is running, and no two threads run the same resumption.        *)
BridgeResultInductive ==
  /\ BridgeResultSound
  /\ \A k \in Calls :
       /\ done[k] => phase[k] = "done"
       /\ phase[k] \in {"ready", "wrote", "done"} => result[k] \in Results
       /\ phase[k] \in {"wrote", "done"} => out[k] = Code(result[k])
       /\ k > call => phase[k] = "none" /\ retval[k] = "pending"
  /\ pc["main"] \in {"call", "check", "runone", "inh"} => call <= MaxCalls
  /\ pc["main"] = "call" => phase[call] = "none" /\ retval[call] = "pending"
  /\ \A t \in Threads : pc[t] = "inh" => ex[t] \in Calls /\ phase[ex[t]] = "wrote"
  /\ \A t, u \in Threads :
       t # u /\ pc[t] = "inh" /\ pc[u] = "inh" => ex[t] # ex[u]

(* The abstract blocking call, with the bridge's variables as its own:     *)
(* the result the backend reported, what the call returned, and the call   *)
(* main is in.                                                             *)
Atomic == INSTANCE AtomicCall WITH aResult <- result, aRetval <- retval,
                                   aCall <- call, CodeOf <- Code

(* The bridge implements an atomic blocking call (AtomicCall): seen from   *)
(* the caller, each call's I/O completes once while it is the current      *)
(* call, and the call then returns the code of that result and no other,   *)
(* before the next call starts; every other step of either thread, every   *)
(* handler and every stop is invisible to the caller.                      *)
AtomicSpec == Atomic!Spec

(* Every blocking call that has been submitted eventually returns: the     *)
(* run_one loop makes progress whichever thread runs the handlers.         *)
CallsReturn ==
  \A k \in Calls : (phase[k] = "queued") ~> (retval[k] # "pending")

(* pump.stop() returns: after ctx.stop() the pump thread leaves its loop   *)
(* and main's join completes (test_tcp_echo.cpp, ContextPump).             *)
PumpStopReturns ==
  (pc["main"] = "join") ~> (pc["main"] = "exit")

=============================================================================
