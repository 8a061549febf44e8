---------------------------- MODULE ResolverProofs ----------------------------
(***************************************************************************)
(* Proofs about the Resolver objects, for every set of objects and every   *)
(* bound on the lookup's entries.  ImplOwnership is not inductive by       *)
(* itself: Construct(r) makes Impl r, and only the facts that an unborn    *)
(* object's Impl is not yet made, and that an Impl not yet made is neither *)
(* held nor deleted, show the new Impl is owned once.  MoveConstruct needs *)
(* that a held Impl belongs to a live object.  ImplOwnershipInductive adds *)
(* these facts.                                                            *)
(***************************************************************************)
EXTENDS Resolver, SequenceTheorems, TLAPS

(* The object and ownership part of TypeOK: what the ownership proof needs *)
(* of the variables' shape.                                                *)
OwnTypeOK ==
  /\ obj \in [Resolvers -> ObjStates]
  /\ impl \in [Resolvers -> Impls \cup {Null}]
  /\ made \subseteq Impls
  /\ freed \in [Impls -> 0..2]

(* The ownership invariant with the shape facts its proof needs.         *)
IInv == OwnTypeOK /\ ImplOwnershipInductive

(* Resolve() and the end of the program touch no ownership variable.       *)
LEMMA ResolveKeepsOwnership ==
  ASSUME NEW r \in Resolvers, Resolve(r)
  PROVE  UNCHANGED <<obj, impl, made, freed>>
BY DEF Resolve

(* Every Impl is owned by one live object or deleted exactly once, in     *)
(* every reachable state (ImplOwnershipInductive, checked by run          *)
(* resolver_ownership), whatever the moves and destructions.              *)
THEOREM OwnershipInvariant == Spec => [](OwnTypeOK /\ ImplOwnershipInductive)
<1>1. Init => IInv
  BY DEF Init, IInv, OwnTypeOK, ImplOwnershipInductive, ImplOwnership, Impls,
         ObjStates, Null
<1>2. IInv /\ [Next \/ Done]_vars => IInv'
  <2> SUFFICES ASSUME IInv, [Next \/ Done]_vars PROVE IInv'
    OBVIOUS
  <2> USE DEF IInv, OwnTypeOK, ImplOwnershipInductive, ImplOwnership, Impls,
              ObjStates
  <2>1. ASSUME NEW r \in Resolvers, Construct(r) PROVE IInv'
    BY <2>1, ResolversAssumption DEF Construct, Null
  <2>2. ASSUME NEW r \in Resolvers, NEW other \in Resolvers,
               MoveConstruct(r, other)
        PROVE  IInv'
    BY <2>2 DEF MoveConstruct
  <2>3. ASSUME NEW r \in Resolvers, NEW other \in Resolvers,
               MoveAssign(r, other)
        PROVE  IInv'
    <3>1. CASE r = other
      BY <2>3, <3>1 DEF MoveAssign
    <3>2. CASE r # other
      BY <2>3, <3>2, ResolversAssumption DEF MoveAssign, Delete, Null
    <3>3. QED
      BY <3>1, <3>2
  <2>4. ASSUME NEW r \in Resolvers, Destroy(r) PROVE IInv'
    BY <2>4, ResolversAssumption DEF Destroy, Delete, Null
  <2>5. ASSUME NEW r \in Resolvers, Resolve(r) PROVE IInv'
    BY <2>5, ResolveKeepsOwnership
  <2>6. CASE Done \/ UNCHANGED vars
    BY <2>6 DEF Done, vars
  <2>7. QED
    BY <2>1, <2>2, <2>3, <2>4, <2>5, <2>6 DEF Next
<1>3. QED
  BY <1>1, <1>2, PTL DEF Spec, IInv

(* The spec's ownership rule, for every set of Resolver objects.           *)
THEOREM ImplOwnedOnce == Spec => []ImplOwnership
BY OwnershipInvariant, PTL DEF ImplOwnershipInductive

-----------------------------------------------------------------------------
(* The entries one lookup returns: at most MaxEntries raw backend entries. *)
LEMMA LookupEntries ==
  ASSUME NEW svc \in Services,
         NEW es \in BoundedSeq(BackendEntries(svc), MaxEntries)
  PROVE  es \in Seq(RawEntries)
<1>1. PICK m \in 0..MaxEntries : es \in [1..m -> BackendEntries(svc)]
  BY DEF BoundedSeq, SeqOf
<1>2. BackendEntries(svc) \subseteq RawEntries
  BY DEF RawEntries, Services
<1>3. QED
  BY <1>1, <1>2, MaxEntriesAssumption

(* Converting entries in order (ToEndpoint, the loop of resolve_task)      *)
(* gives a sequence of Endpoints of the same length, and so does any       *)
(* prefix of it.                                                           *)
LEMMA ConvertedEntries ==
  ASSUME NEW es \in Seq(RawEntries)
  PROVE  LET eps == [j \in 1..Len(es) |-> ToEndpoint(es[j])] IN
         /\ eps \in Seq(Endpoints)
         /\ Len(eps) = Len(es)
         /\ \A k \in 0..Len(es) : SubSeq(eps, 1, k) \in Seq(Endpoints)
<1> DEFINE eps == [j \in 1..Len(es) |-> ToEndpoint(es[j])]
<1>1. \A e \in RawEntries : ToEndpoint(e) \in Endpoints
  BY DEF RawEntries, BackendEntries, ServicePort, ToEndpoint, Endpoints
<1>2. eps \in Seq(Endpoints) /\ Len(eps) = Len(es)
  BY <1>1
<1>3. \A k \in 0..Len(es) : SubSeq(eps, 1, k) \in Seq(Endpoints)
  BY <1>2
<1>4. QED
  BY <1>2, <1>3

(* The part of TypeOK about what resolve() returns.                       *)
ResultTypeOK ==
  /\ answer \in [Resolvers -> Seq(RawEntries)]
  /\ ret \in [Resolvers -> [error : ErrorCodes, endpoints : Seq(Endpoints)]]

(* Every reachable state of any number of Resolver objects is well typed:  *)
(* resolve() stores the backend's entries and a ResolveResult of           *)
(* converted Endpoints, whichever way the lookup ends, and the ownership   *)
(* variables keep their shape (from OwnershipInvariant: a counted delete   *)
(* stays within 0..2 only because no Impl is deleted twice).               *)
THEOREM TypeCorrect == Spec => []TypeOK
<1>1. Init => ResultTypeOK
  BY DEF Init, ResultTypeOK, ErrorCodes
<1>2. ResultTypeOK /\ [Next \/ Done]_vars => ResultTypeOK'
  <2> SUFFICES ASSUME ResultTypeOK, [Next \/ Done]_vars PROVE ResultTypeOK'
    OBVIOUS
  <2> USE DEF ResultTypeOK
  <2>1. ASSUME NEW r \in Resolvers, Construct(r) PROVE ResultTypeOK'
    BY <2>1 DEF Construct
  <2>2. ASSUME NEW r \in Resolvers, NEW other \in Resolvers,
               MoveConstruct(r, other)
        PROVE  ResultTypeOK'
    BY <2>2 DEF MoveConstruct
  <2>3. ASSUME NEW r \in Resolvers, NEW other \in Resolvers,
               MoveAssign(r, other)
        PROVE  ResultTypeOK'
    BY <2>3 DEF MoveAssign
  <2>4. ASSUME NEW r \in Resolvers, Destroy(r) PROVE ResultTypeOK'
    BY <2>4 DEF Destroy
  <2>5. ASSUME NEW r \in Resolvers, Resolve(r) PROVE ResultTypeOK'
    <3>1. CASE impl[r] = Null
      <4>1. /\ ret' = [ret EXCEPT ![r] = [error |-> "not_initialized", endpoints |-> <<>>]]
            /\ UNCHANGED answer
        BY <2>5, <3>1 DEF Resolve
      <4>2. QED
        BY <4>1 DEF ErrorCodes
    <3>2. CASE impl[r] # Null
      <4>0. PICK svc \in Services :
              \E es \in BoundedSeq(BackendEntries(svc), MaxEntries) :
              LET eps == [j \in 1..Len(es) |-> ToEndpoint(es[j])] IN
              /\ answer' = [answer EXCEPT ![r] = es]
              /\ \/ ret' = [ret EXCEPT ![r] = [error |-> "resolve_failed", endpoints |-> <<>>]]
                 \/ ret' = [ret EXCEPT ![r] = [error |-> "none", endpoints |-> eps]]
                 \/ \E k \in 0..Len(es) :
                      /\ k = 0 \/ k < Len(es)
                      /\ ret' = [ret EXCEPT ![r] = [error |-> "unknown",
                                                    endpoints |-> SubSeq(eps, 1, k)]]
        BY <2>5, <3>2 DEF Resolve
      <4>1. PICK es \in BoundedSeq(BackendEntries(svc), MaxEntries) :
              LET eps == [j \in 1..Len(es) |-> ToEndpoint(es[j])] IN
              /\ answer' = [answer EXCEPT ![r] = es]
              /\ \/ ret' = [ret EXCEPT ![r] = [error |-> "resolve_failed", endpoints |-> <<>>]]
                 \/ ret' = [ret EXCEPT ![r] = [error |-> "none", endpoints |-> eps]]
                 \/ \E k \in 0..Len(es) :
                      /\ k = 0 \/ k < Len(es)
                      /\ ret' = [ret EXCEPT ![r] = [error |-> "unknown",
                                                    endpoints |-> SubSeq(eps, 1, k)]]
        BY <4>0
      <4>2. es \in Seq(RawEntries)
        BY LookupEntries
      <4> DEFINE eps == [j \in 1..Len(es) |-> ToEndpoint(es[j])]
      <4>3. /\ eps \in Seq(Endpoints)
            /\ \A k \in 0..Len(es) : SubSeq(eps, 1, k) \in Seq(Endpoints)
        BY <4>2, ConvertedEntries
      <4>4. answer' \in [Resolvers -> Seq(RawEntries)]
        BY <4>1, <4>2
      <4>5. ret' \in [Resolvers -> [error : ErrorCodes, endpoints : Seq(Endpoints)]]
        <5>1. CASE ret' = [ret EXCEPT ![r] = [error |-> "resolve_failed", endpoints |-> <<>>]]
          BY <5>1 DEF ErrorCodes
        <5>2. CASE ret' = [ret EXCEPT ![r] = [error |-> "none", endpoints |-> eps]]
          BY <5>2, <4>3 DEF ErrorCodes
        <5>3. CASE \E k \in 0..Len(es) :
                     ret' = [ret EXCEPT ![r] = [error |-> "unknown",
                                                endpoints |-> SubSeq(eps, 1, k)]]
          <6>1. PICK k \in 0..Len(es) :
                  ret' = [ret EXCEPT ![r] = [error |-> "unknown",
                                             endpoints |-> SubSeq(eps, 1, k)]]
            BY <5>3
          <6>2. QED
            BY <6>1, <4>3 DEF ErrorCodes
        <5>4. QED
          BY <4>1, <5>1, <5>2, <5>3
      <4>6. QED
        BY <4>4, <4>5
    <3>3. QED
      BY <3>1, <3>2
  <2>6. CASE Done \/ UNCHANGED vars
    BY <2>6 DEF Done, vars
  <2>7. QED
    BY <2>1, <2>2, <2>3, <2>4, <2>5, <2>6 DEF Next
<1>3. OwnTypeOK /\ ResultTypeOK => TypeOK
  BY DEF OwnTypeOK, ResultTypeOK, TypeOK
<1>4. QED
  BY <1>1, <1>2, <1>3, OwnershipInvariant, PTL DEF Spec

====
