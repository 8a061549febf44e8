------------------------------ MODULE AtomicCall ------------------------------
(***************************************************************************)
(* What a blocking call of net_corosio promises its caller, whatever       *)
(* threads, handlers and io_context steps it takes inside: the calls of    *)
(* one caller happen one after another; while call k is the current one,   *)
(* its backend operation completes once with some result; then the call    *)
(* returns the code mapped from that result, and the next call begins.     *)
(* The Blocking Bridge (BlockingBridge.tla) implements this specification  *)
(* under a refinement mapping.                                             *)
(***************************************************************************)
EXTENDS Naturals

CONSTANTS
  MaxCalls,    \* number of calls the caller makes
  Results,     \* what a backend operation can report
  CodeOf(_)    \* the ErrorCode a call returns for a result

Calls == 1..MaxCalls

VARIABLES
  aResult,   \* aResult[k]: the result of call k's operation, or "unset"
  aRetval,   \* aRetval[k]: what call k returned, or "pending"
  aCall      \* the current call (MaxCalls + 1 once all have returned)

avars == <<aResult, aRetval, aCall>>

Init ==
  /\ aResult = [k \in Calls |-> "unset"]
  /\ aRetval = [k \in Calls |-> "pending"]
  /\ aCall = 1

(* The current call's operation completes, once.                          *)
Complete(k) ==
  /\ k = aCall
  /\ aResult[k] = "unset"
  /\ \E r \in Results : aResult' = [aResult EXCEPT ![k] = r]
  /\ UNCHANGED <<aRetval, aCall>>

(* The current call returns the code of its own result.                    *)
Return ==
  /\ aCall \in Calls
  /\ aResult[aCall] # "unset"
  /\ aRetval' = [aRetval EXCEPT ![aCall] = CodeOf(aResult[aCall])]
  /\ aCall' = aCall + 1
  /\ UNCHANGED aResult

Next == (\E k \in Calls : Complete(k)) \/ Return

Spec == Init /\ [][Next]_avars

=============================================================================
