------------------------------ MODULE Resolver ------------------------------
(***************************************************************************)
(* Resolver (src/src/resolver.cpp): a name lookup bridged to the backend   *)
(* resolver, and the ownership of the Resolver's Impl across moves and     *)
(* destruction.                                                           *)
(*                                                                         *)
(* resolve() is one action: the caller is blocked for the whole bridged    *)
(* call (module BlockingBridge checks the bridge).  The coroutine          *)
(* resolve_task may throw at any point before it stores none: building     *)
(* the backend resolver, the co_await, or converting any entry (to_string, *)
(* push_back).  An exception after k entries were pushed leaves those k    *)
(* entries in out.endpoints.                                               *)
(*                                                                         *)
(* Objects: every name in Resolvers is one Resolver object, constructed at *)
(* most once, either from a Context (with a fresh Impl, named after the    *)
(* object) or by moving another object.  impl[r] is its impl_ pointer.     *)
(***************************************************************************)
EXTENDS Naturals, Sequences, SequencesExt

CONSTANTS
  Resolvers,   \* the Resolver objects of the program
  MaxEntries   \* most entries a backend lookup returns

ASSUME ResolversAssumption == Resolvers # {} /\ "null" \notin Resolvers
ASSUME MaxEntriesAssumption == MaxEntries \in Nat

Impls == Resolvers
Null == "null"

(* What the backend lookup can return for one entry: the family, an       *)
(* address, and the port: 0 for an empty service, else the service's port. *)
Services == {"", "http"}
ServicePort(svc) == IF svc = "" THEN 0 ELSE 80
BackendEntries(svc) == [v4 : BOOLEAN, addr : {"a1"}, port : {ServicePort(svc)}]
RawEntries == BackendEntries("") \cup BackendEntries("http")

(* A net_corosio Endpoint.                                                 *)
Endpoints == [ip : {"v4", "v6"}, address : {"a1"}, port : {0, 80}]

ErrorCodes == {"none", "unknown", "not_initialized", "resolve_failed"}

ObjStates == {"unborn", "alive", "dead"}

VARIABLES
  obj,     \* obj[r]: the object's lifetime
  impl,    \* impl[r]: its impl_ pointer, an Impl or Null
  made,    \* the Impls allocated by new Impl(ctx)
  freed,   \* freed[i]: how many times Impl i was deleted
  answer,  \* answer[r]: the backend's entries for r's last lookup
  ret      \* ret[r]: the ResolveResult of r's last resolve()

vars == <<obj, impl, made, freed, answer, ret>>

TypeOK ==
  /\ obj \in [Resolvers -> ObjStates]
  /\ impl \in [Resolvers -> Impls \cup {Null}]
  /\ made \subseteq Impls
  /\ freed \in [Impls -> 0..2]
  /\ answer \in [Resolvers -> Seq(RawEntries)]
  /\ ret \in [Resolvers -> [error : ErrorCodes, endpoints : Seq(Endpoints)]]

Init ==
  /\ obj = [r \in Resolvers |-> "unborn"]
  /\ impl = [r \in Resolvers |-> Null]
  /\ made = {}
  /\ freed = [i \in Impls |-> 0]
  /\ answer = [r \in Resolvers |-> <<>>]
  /\ ret = [r \in Resolvers |-> [error |-> "none", endpoints |-> <<>>]]

(* delete impl_: deleting Null is a no-op; a second delete is counted.     *)
Delete(i) ==
  freed' = IF i = Null THEN freed ELSE [freed EXCEPT ![i] = @ + 1]

-----------------------------------------------------------------------------
(* Resolver(Context&): impl_(new Impl(ctx)).                               *)
Construct(r) ==
  /\ obj[r] = "unborn"
  /\ obj' = [obj EXCEPT ![r] = "alive"]
  /\ impl' = [impl EXCEPT ![r] = r]
  /\ made' = made \cup {r}
  /\ UNCHANGED <<freed, answer, ret>>

(* Resolver(Resolver&& other): take other's impl_, null it in other.       *)
MoveConstruct(r, other) ==
  /\ obj[r] = "unborn"
  /\ obj[other] = "alive"
  /\ obj' = [obj EXCEPT ![r] = "alive"]
  /\ impl' = [impl EXCEPT ![r] = impl[other], ![other] = Null]
  /\ UNCHANGED <<made, freed, answer, ret>>

\* Mutant: the moved-from object keeps its pointer.
MoveAssignKeepOther(r, other) ==
  /\ obj[r] = "alive" /\ obj[other] = "alive"
  /\ IF r # other
       THEN /\ Delete(impl[r])
            /\ impl' = [impl EXCEPT ![r] = impl[other]]
       ELSE UNCHANGED <<impl, freed>>
  /\ UNCHANGED <<obj, made, answer, ret>>

(* operator=(Resolver&& other): unless self-assignment, delete the own     *)
(* Impl, take other's, null it in other.                                   *)
MoveAssign(r, other) ==
  /\ obj[r] = "alive" /\ obj[other] = "alive"
  /\ IF r # other
       THEN /\ Delete(impl[r])
            /\ impl' = [impl EXCEPT ![r] = impl[other], ![other] = Null]
       ELSE UNCHANGED <<impl, freed>>
  /\ UNCHANGED <<obj, made, answer, ret>>

(* ~Resolver(): delete impl_ (no null check: deleting null is a no-op).    *)
Destroy(r) ==
  /\ obj[r] = "alive"
  /\ Delete(impl[r])
  /\ obj' = [obj EXCEPT ![r] = "dead"]
  /\ impl' = [impl EXCEPT ![r] = Null]
  /\ UNCHANGED <<made, answer, ret>>

\* Mutant: the backend entry stored as it is, not converted to an Endpoint.
ToEndpointRaw(e) == e

(* to_string of the backend address and the v4/v6 classification.         *)
ToEndpoint(e) ==
  [ip |-> IF e.v4 THEN "v4" ELSE "v6", address |-> e.addr, port |-> e.port]

(* Resolver::resolve(host, service) with resolve_task.  A moved-from       *)
(* Resolver returns not_initialized.  Otherwise the lookup fails (ec ->    *)
(* resolve_failed), or returns entries that are converted in order; an     *)
(* exception after k of them were pushed returns unknown with those k.     *)
Resolve(r) ==
  /\ obj[r] = "alive"
  /\ \/ /\ impl[r] = Null
        /\ ret' = [ret EXCEPT ![r] = [error |-> "not_initialized", endpoints |-> <<>>]]
        /\ UNCHANGED answer
     \/ /\ impl[r] # Null
        /\ \E svc \in Services : \E es \in BoundedSeq(BackendEntries(svc), MaxEntries) :
             LET eps == [j \in 1..Len(es) |-> ToEndpoint(es[j])] IN
             /\ answer' = [answer EXCEPT ![r] = es]
             /\ \/ ret' = [ret EXCEPT ![r] = [error |-> "resolve_failed", endpoints |-> <<>>]]
                \/ ret' = [ret EXCEPT ![r] = [error |-> "none", endpoints |-> eps]]
                \/ \E k \in 0..Len(es) :
                     /\ k = 0 \/ k < Len(es)
                     /\ ret' = [ret EXCEPT ![r] = [error |-> "unknown",
                                                   endpoints |-> SubSeq(eps, 1, k)]]
  /\ UNCHANGED <<obj, impl, made, freed>>

Next ==
  \E r \in Resolvers :
    \/ Construct(r) \/ Destroy(r) \/ Resolve(r)
    \/ \E other \in Resolvers : MoveConstruct(r, other) \/ MoveAssign(r, other)

(* The program ends when every object it made is destroyed.                *)
Done ==
  /\ \A r \in Resolvers : obj[r] = "dead"
  /\ UNCHANGED vars

Spec == Init /\ [][Next \/ Done]_vars

-----------------------------------------------------------------------------
(* The spec (5, Ownership): each primitive's internal handle is            *)
(* exclusively owned and freed exactly once.  Across any sequence of move  *)
(* constructions, move assignments (self-assignment included) and          *)
(* destructions: no Impl is deleted twice, no live object points to a      *)
(* deleted Impl, no two live objects share one, and an Impl that was made  *)
(* is either still owned or deleted (no leak).                             *)
ImplOwnership ==
  /\ \A i \in Impls : freed[i] <= 1
  /\ \A r \in Resolvers : impl[r] # Null => freed[impl[r]] = 0
  /\ \A r, q \in Resolvers : r # q /\ impl[r] # Null => impl[r] # impl[q]
  /\ \A i \in Impls :
       i \in made => freed[i] = 1 \/ \E r \in Resolvers : impl[r] = i

(* ImplOwnership strengthened so that each step preserves it: a held Impl *)
(* was made, is held by a live object only; an object not yet constructed  *)
(* holds nothing and its Impl (named after it) is not yet made, so nothing *)
(* can hold or have deleted it.                                            *)
ImplOwnershipInductive ==
  /\ ImplOwnership
  /\ \A r \in Resolvers : impl[r] # Null => impl[r] \in made /\ obj[r] = "alive"
  /\ \A r \in Resolvers : obj[r] = "unborn" => r \notin made
  /\ \A i \in Impls : i \notin made => freed[i] = 0

(* The spec (4.5): any internal fault or resolution failure yields an      *)
(* empty endpoint sequence.                                                *)
ResolveFailureEmpty ==
  \A r \in Resolvers : ret[r].error # "none" => ret[r].endpoints = <<>>

=============================================================================
