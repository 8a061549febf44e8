----------------------------- MODULE BridgeProofs -----------------------------
(***************************************************************************)
(* Proof that the Blocking Bridge returns each call's own result, for any  *)
(* number of calls, with or without the ContextPump thread and an external *)
(* stopper.  BridgeResultSound is not inductive: a step of CheckDone reads *)
(* `out` once `done` is set, so the proof needs what the coroutine's life  *)
(* guarantees about `done`, `out` and `result` (BridgeResultInductive).    *)
(***************************************************************************)
EXTENDS BlockingBridge, TLAPS

IInv == TypeOK /\ BridgeResultInductive

AllPcs == MainPcs \cup PumpPcs

(* The parts of IInv a handler step can disturb, by the call it touches.   *)
(* A handler runs only on a thread inside run_one() or run(), so main, if  *)
(* it is that thread, is inside a call (call <= MaxCalls).                  *)
RunningThread(t) == t = "main" => pc["main"] \in {"runone", "inh"}

(* The start of a coroutine preserves the invariant, on any thread.        *)
LEMMA RunStartInv ==
  ASSUME IInv, NEW t \in Threads, NEW k \in Calls, NEW r \in {"check", "running"},
         pc[t] # "inh", RunningThread(t), t = "main" <=> r = "check",
         RunStart(t, k, r)
  PROVE  IInv'
<1> USE DEF IInv, TypeOK, BridgeResultInductive, BridgeResultSound, RunStart,
            RunningThread
<1>1. TypeOK'
  BY DEF Phases, MainPcs, PumpPcs
<1>2. BridgeResultInductive'
  BY DEF Phases
<1>3. QED
  BY <1>1, <1>2

(* The resumption writes `out` before anyone may read it.                  *)
LEMMA RunResumeInv ==
  ASSUME IInv, NEW t \in Threads, NEW k \in Calls, pc[t] # "inh",
         RunningThread(t), RunResume(t, k)
  PROVE  IInv'
<1> USE DEF IInv, TypeOK, BridgeResultInductive, BridgeResultSound, RunResume,
            RunningThread
<1>1. result[k] \in Results
  OBVIOUS
<1>2. Code(result[k]) \in Codes
  BY <1>1 DEF Code, Codes, Results
<1>3. TypeOK'
  BY <1>2 DEF Phases, MainPcs, PumpPcs, Calls
<1>4. \A c \in Calls : phase'[c] \in {"wrote", "done"} => out'[c] = Code(result'[c])
  OBVIOUS
<1>5. \A u \in Threads : pc'[u] = "inh" => ex'[u] \in Calls /\ phase'[ex'[u]] = "wrote"
  OBVIOUS
<1>6. \A u, v \in Threads :
        u # v /\ pc'[u] = "inh" /\ pc'[v] = "inh" => ex'[u] # ex'[v]
  OBVIOUS
<1>7. BridgeResultSound' /\ pc'["main"] \in {"call", "check", "runone", "inh"} => call' <= MaxCalls
  OBVIOUS
<1>8. BridgeResultInductive'
  BY <1>4, <1>5, <1>6, <1>7
<1>9. QED
  BY <1>3, <1>8

(* Storing `done` ends the coroutine's writes.                             *)
LEMMA StoreDoneInv ==
  ASSUME IInv, NEW t \in Threads, NEW r \in {"check", "running"},
         t = "main" <=> r = "check", StoreDone(t, r)
  PROVE  IInv'
<1> USE DEF IInv, TypeOK, BridgeResultInductive, BridgeResultSound, StoreDone
<1>1. ex[t] \in Calls /\ phase[ex[t]] = "wrote"
  OBVIOUS
<1>2. TypeOK'
  BY <1>1, MaxCallsAssumption DEF Phases, MainPcs, PumpPcs, Calls
<1>3. BridgeResultInductive'
  BY <1>1 DEF Phases
<1>4. QED
  BY <1>2, <1>3

(* Every reachable state satisfies BridgeResultInductive and TypeOK.       *)
THEOREM BridgeInvariant == Spec => [](TypeOK /\ BridgeResultInductive)
<1>1. Init => IInv
  <2> SUFFICES ASSUME Init PROVE IInv
    OBVIOUS
  <2>1. TypeOK
    <3>1. pc \in [Threads -> MainPcs \cup PumpPcs]
      BY DEF Init, MainPcs, PumpPcs
    <3>2. ex \in [Threads -> 0..MaxCalls]
      BY MaxCallsAssumption DEF Init
    <3>3. /\ phase \in [Calls -> Phases]
          /\ result \in [Calls -> Results \cup {"unset"}]
          /\ out \in [Calls -> Codes]
          /\ done \in [Calls -> BOOLEAN]
          /\ retval \in [Calls -> Codes \cup {"pending"}]
      BY DEF Init, Phases, Results, Codes
    <3>4. call \in 1..(MaxCalls + 1) /\ stopReq \in BOOLEAN /\ stopped \in BOOLEAN
      <4>1. call = 1 /\ stopReq = FALSE /\ stopped = FALSE
        BY DEF Init
      <4>2. call \in 1..(MaxCalls + 1)
        BY <4>1, MaxCallsAssumption, SMT
      <4>3. QED
        BY <4>1, <4>2, Zenon
    <3>5. QED
      BY <3>1, <3>2, <3>3, <3>4 DEF TypeOK
  <2>2. BridgeResultInductive
    BY MaxCallsAssumption DEF Init, BridgeResultInductive, BridgeResultSound,
       Calls, Threads
  <2>3. QED
    BY <2>1, <2>2 DEF IInv
<1>2. IInv /\ [Next]_vars => IInv'
  <2> SUFFICES ASSUME IInv, [Next]_vars PROVE IInv'
    OBVIOUS
  <2> USE MaxCallsAssumption, PumpsAssumption
          DEF Threads, Calls, Results, Codes, Phases, MainPcs, PumpPcs
  <2>1. CASE MainStep
    <3> USE DEF MainPcs, PumpPcs, AllPcs
    <3>1. CASE Submit
      BY <3>1, MaxCallsAssumption DEF IInv, TypeOK, BridgeResultInductive,
         BridgeResultSound, Submit, Phases, Codes, Calls
    <3>2. CASE CheckDone
      BY <3>2, MaxCallsAssumption DEF IInv, TypeOK, BridgeResultInductive,
         BridgeResultSound, CheckDone, Calls
    <3>3. CASE RunOneReturn
      BY <3>3 DEF IInv, TypeOK, BridgeResultInductive, BridgeResultSound,
         RunOneReturn
    <3>0. "main" \in Threads /\ pc["main"] = "runone" => RunningThread("main")
      BY DEF Threads, RunningThread
    <3>4. CASE RunOneStart
      <4>1. PICK k \in Calls : pc["main"] = "runone" /\ RunStart("main", k, "check")
        BY <3>4 DEF RunOneStart
      <4>2. QED
        BY <3>0, <4>1, RunStartInv
    <3>5. CASE RunOneResume
      <4>1. PICK k \in Calls : pc["main"] = "runone" /\ RunResume("main", k)
        BY <3>5 DEF RunOneResume
      <4>2. QED
        BY <3>0, <4>1, RunResumeInv
    <3>6. CASE MainStoreDone
      BY <3>0, <3>6, StoreDoneInv DEF MainStoreDone
    <3>7. CASE MainStopPump
      BY <3>7 DEF IInv, TypeOK, BridgeResultInductive, BridgeResultSound,
         MainStopPump, CtxStop
    <3>8. CASE MainJoin
      BY <3>8 DEF IInv, TypeOK, BridgeResultInductive, BridgeResultSound,
         MainJoin
    <3>9. QED
      BY <2>1, <3>1, <3>2, <3>3, <3>4, <3>5, <3>6, <3>7, <3>8 DEF MainStep
  <2>2. ASSUME NEW p \in Pumps, PumpStep(p) PROVE IInv'
    <3> USE DEF MainPcs, PumpPcs, AllPcs
    <3>1. p \in Threads /\ p # "main"
      BY PumpsAssumption DEF Threads
    <3>2. CASE PumpCheck(p) \/ PumpRun(p) \/ PumpRunReturn(p) \/ PumpSleep(p)
      <4>1. /\ pc' = [pc EXCEPT ![p] = pc'[p]] /\ pc'[p] \in PumpPcs \ {"inh"}
            /\ UNCHANGED <<stopped, phase, result, out, done, retval, call, ex>>
            /\ stopReq' \in BOOLEAN
        BY <3>2, <3>1 DEF IInv, TypeOK, PumpCheck, PumpRun, PumpRunReturn, PumpSleep
      <4>2. QED
        BY <3>1, <4>1 DEF IInv, TypeOK, BridgeResultInductive, BridgeResultSound
    <3>3. CASE PumpRunStart(p)
      <4>1. PICK k \in Calls : pc[p] = "running" /\ RunStart(p, k, "running")
        BY <3>3 DEF PumpRunStart
      <4>2. RunningThread(p)
        BY <3>1 DEF RunningThread
      <4>3. QED
        BY <3>1, <4>1, <4>2, RunStartInv
    <3>4. CASE PumpRunResume(p)
      <4>1. PICK k \in Calls : pc[p] = "running" /\ RunResume(p, k)
        BY <3>4 DEF PumpRunResume
      <4>2. RunningThread(p)
        BY <3>1 DEF RunningThread
      <4>3. QED
        BY <3>1, <4>1, <4>2, RunResumeInv
    <3>5. CASE PumpStoreDone(p)
      BY <3>1, <3>5, StoreDoneInv DEF PumpStoreDone
    <3>6. QED
      BY <2>2, <3>2, <3>3, <3>4, <3>5 DEF PumpStep
  <2>3. ASSUME NEW k \in Calls, IoComplete(k) PROVE IInv'
    <3>1. PICK r \in Results :
            /\ phase[k] = "io"
            /\ result' = [result EXCEPT ![k] = r]
            /\ phase' = [phase EXCEPT ![k] = "ready"]
            /\ UNCHANGED <<stopReq, stopped, out, done, retval, call, pc, ex>>
      BY <2>3 DEF IoComplete
    <3>2. QED
      BY <3>1 DEF IInv, TypeOK, BridgeResultInductive, BridgeResultSound
  <2>4. CASE ExternalCtxStop
    BY <2>4 DEF IInv, TypeOK, BridgeResultInductive, BridgeResultSound,
       ExternalCtxStop, CtxStop
  <2>5. CASE Terminated \/ UNCHANGED vars
    BY <2>5 DEF IInv, TypeOK, BridgeResultInductive, BridgeResultSound,
       Terminated, vars
  <2>6. QED
    BY <2>1, <2>2, <2>3, <2>4, <2>5 DEF Next
<1>3. QED
  BY <1>1, <1>2, PTL DEF Spec, IInv

(* Every reachable state of the bridge is well typed, for any number of    *)
(* calls, with or without the pump thread and an external stopper (TypeOK, *)
(* checked by runs bridge_pump and bridge_stop_safety).                    *)
THEOREM TypeCorrect == Spec => []TypeOK
BY BridgeInvariant, PTL

(* A blocking call returns exactly the code its own coroutine derived from *)
(* the backend's result, whichever thread ran it (BridgeResultSound,       *)
(* checked by runs bridge_pump and bridge_stop_safety).                    *)
THEOREM ResultSound == Spec => []BridgeResultSound
BY BridgeInvariant, PTL DEF BridgeResultInductive

-----------------------------------------------------------------------------
(* Refinement of AtomicCall.  Beyond IInv it needs what the single caller *)
(* guarantees about order: every call before `call` has returned, only    *)
(* the current call's coroutine is active, and a coroutine's result stays *)
(* unset until its I/O completes.                                          *)
CallOrder ==
  \A k \in Calls :
    /\ k < call => retval[k] # "pending"
    /\ phase[k] \in {"none", "queued", "io"} => result[k] = "unset"
    /\ phase[k] \in {"queued", "io", "ready", "wrote"} => k = call

LEMMA CallOrderStep ==
  ASSUME IInv, CallOrder, [Next]_vars
  PROVE  CallOrder'
<1> USE MaxCallsAssumption, PumpsAssumption
        DEF Threads, Calls, Results, Codes, Phases, IInv, TypeOK,
            BridgeResultInductive, BridgeResultSound, CallOrder
<1>1. CASE Submit
  BY <1>1 DEF Submit
<1>2. CASE CheckDone
  <2>1. CASE done[call]
    <3>1. call \in Calls /\ phase[call] = "done"
      BY <1>2, <2>1 DEF CheckDone
    <3>2. retval' = [retval EXCEPT ![call] = out[call]] /\ call' = call + 1
      BY <1>2, <2>1 DEF CheckDone
    <3>3. UNCHANGED <<phase, result>>
      BY <1>2 DEF CheckDone
    <3>4. retval'[call] # "pending"
      BY <3>1, <3>2
    <3>5. QED
      BY <3>1, <3>2, <3>3, <3>4
  <2>2. CASE ~done[call]
    BY <1>2, <2>2 DEF CheckDone
  <2>3. QED
    BY <2>1, <2>2
<1>3. ASSUME NEW t \in Threads, NEW k \in Calls, NEW r, RunStart(t, k, r)
      PROVE  CallOrder'
  BY <1>3 DEF RunStart
<1>4. ASSUME NEW t \in Threads, NEW k \in Calls, RunResume(t, k)
      PROVE  CallOrder'
  BY <1>4 DEF RunResume
<1>5. ASSUME NEW t \in Threads, NEW r, StoreDone(t, r)
      PROVE  CallOrder'
  BY <1>5 DEF StoreDone
<1>6. ASSUME NEW k \in Calls, IoComplete(k)
      PROVE  CallOrder'
  BY <1>6 DEF IoComplete
<1>7. CASE UNCHANGED <<phase, result, retval, call>>
  BY <1>7
<1>8. QED
  BY <1>1, <1>2, <1>3, <1>4, <1>5, <1>6, <1>7
  DEF Next, MainStep, PumpStep, RunOneReturn, RunOneStart, RunOneResume,
      MainStoreDone, MainStopPump, MainJoin, PumpCheck, PumpRun, PumpRunReturn,
      PumpRunStart, PumpRunResume, PumpStoreDone, PumpSleep, ExternalCtxStop,
      Terminated, vars

LEMMA CallOrderInvariant == Spec => []CallOrder
<1>1. Init => CallOrder
  BY DEF Init, CallOrder, Calls
<1>2. IInv /\ CallOrder /\ [Next]_vars => CallOrder'
  BY CallOrderStep
<1>3. QED
  BY <1>1, <1>2, BridgeInvariant, PTL DEF Spec, IInv

(* Every step of the bridge is a step of AtomicCall or leaves the caller's *)
(* view (result, retval, call) unchanged.                                  *)
LEMMA RefinementStep ==
  ASSUME IInv, CallOrder, [Next]_vars
  PROVE  [Atomic!Next]_<<result, retval, call>>
<1> USE MaxCallsAssumption, PumpsAssumption
        DEF Threads, Calls, Results, Codes, Phases, IInv, TypeOK,
            BridgeResultInductive, BridgeResultSound, CallOrder
<1>1. CASE CheckDone /\ done[call]
  <2>1. call \in Calls /\ phase[call] = "done"
    BY <1>1 DEF CheckDone
  <2>2. result[call] \in Results /\ out[call] = Code(result[call])
    BY <2>1
  <2>3. retval' = [retval EXCEPT ![call] = Code(result[call])]
    BY <1>1, <2>2 DEF CheckDone
  <2>4. QED
    BY <1>1, <2>1, <2>2, <2>3 DEF CheckDone, Atomic!Next, Atomic!Return, Atomic!Calls
<1>2. ASSUME NEW k \in Calls, IoComplete(k)
      PROVE  [Atomic!Next]_<<result, retval, call>>
  <2>1. k = call /\ result[k] = "unset"
    BY <1>2 DEF IoComplete
  <2>2. QED
    BY <1>2, <2>1 DEF IoComplete, Atomic!Next, Atomic!Complete, Atomic!Calls
<1>3. CASE UNCHANGED <<result, retval, call>>
  BY <1>3
<1>4. QED
  BY <1>1, <1>2, <1>3
  DEF Next, MainStep, PumpStep, Submit, CheckDone, RunOneReturn, RunOneStart,
      RunOneResume, RunStart, RunResume, StoreDone, MainStoreDone, MainStopPump,
      MainJoin, PumpCheck, PumpRun, PumpRunReturn, PumpRunStart, PumpRunResume,
      PumpStoreDone, PumpSleep, ExternalCtxStop, Terminated, vars

(* The Blocking Bridge implements the atomic blocking call (AtomicSpec,    *)
(* checked by run bridge_refines_atomic), for any number of calls, with or *)
(* without the pump thread and an external stopper: whatever the threads   *)
(* interleave, the caller sees each call complete once and return the code *)
(* of its own result, in order.                                            *)
THEOREM Refinement == Spec => AtomicSpec
<1>1. Init => Atomic!Init
  BY DEF Init, Atomic!Init, Atomic!Calls, Calls
<1>2. IInv /\ CallOrder /\ [Next]_vars => [Atomic!Next]_<<result, retval, call>>
  BY RefinementStep
<1>3. QED
  BY <1>1, <1>2, BridgeInvariant, CallOrderInvariant, PTL
  DEF Spec, AtomicSpec, Atomic!Spec, Atomic!avars, IInv

=============================================================================
