------------------------------ MODULE TlsProofs ------------------------------
(***************************************************************************)
(* Proofs about TlsContext and TlsStream, for every set of objects.        *)
(*                                                                         *)
(* SetterResultFaithful depends on the C++ types of the backend's setters  *)
(* (the constants SetterKind and HostnameKind): the theorem states the one *)
(* combination under which it holds, a result type with error() for the   *)
(* setters and void for set_hostname.  The violation cfgs                  *)
(* hostname_failure_dropped and setter_error_code show the others.         *)
(*                                                                         *)
(* ImplsOwnedOnce is not inductive: StreamConstruct and CtxConstruct make  *)
(* the Impl named after an unborn object, and only the facts that such an  *)
(* Impl is neither held nor deleted show it is owned once afterwards;      *)
(* the destructors and move assignments delete the Impl the object holds,  *)
(* and only the fact that a held Impl was never deleted shows the count    *)
(* stays at one.  ImplsOwnedOnceInductive adds these facts, and the type   *)
(* invariant rests on it (the deletion counters are bounded by it).        *)
(***************************************************************************)
EXTENDS TlsStream, TLAPS

-----------------------------------------------------------------------------
(* call_and_map on a result type: none exactly when the backend returned  *)
(* success, whatever the fallback.                                         *)
LEMMA ResultMapping ==
  ASSUME NEW o \in {"ok", "fail", "throw"}, NEW fb, fb # "none"
  PROVE  CallAndMap("result", o, fb) = "none" <=> o = "ok"
BY Zenon DEF CallAndMap

(* call_and_map on a void lambda of a backend call that returns void: the  *)
(* backend cannot report a failure but by throwing.                        *)
LEMMA VoidMapping ==
  ASSUME NEW o \in {"ok", "throw"}, NEW fb
  PROVE  CallAndMap("void", o, fb) = "none" <=> o = "ok"
BY Zenon DEF CallAndMap

(* One setter other than set_alpn, under result-typed setters and a void   *)
(* set_hostname.                                                           *)
LEMMA SetterMapping ==
  ASSUME SetterKind = "result", HostnameKind = "void",
         NEW op \in Setters, NEW o \in BackendOutcomes(BackendKind(op))
  PROVE  CallAndMap(LambdaKind(op), o, Fallback(op)) = "none" <=> o = "ok"
<1>1. CASE op = "set_hostname"
  <2>1. LambdaKind(op) = "void" /\ o \in {"ok", "throw"}
    BY <1>1 DEF LambdaKind, BackendKind, BackendOutcomes
  <2>2. QED
    BY <2>1, VoidMapping
<1>2. CASE op # "set_hostname"
  <2>1. LambdaKind(op) = "result" /\ o \in {"ok", "fail", "throw"}
    BY <1>2 DEF LambdaKind, BackendKind, BackendOutcomes
  <2>2. Fallback(op) # "none"
    BY DEF Fallback
  <2>3. QED
    BY <2>1, <2>2, ResultMapping
<1>3. QED
  BY <1>1, <1>2

(* With setters whose backend returns a result type and a set_hostname     *)
(* whose backend returns void, every TlsContext setter and set_alpn        *)
(* returns none exactly when the backend accepted the setting, across      *)
(* moves and destructions of any number of objects (SetterResultFaithful,  *)
(* checked by run tls_context_setters; call_and_map in tls_context.cpp).   *)
THEOREM SetterFaithful ==
  ASSUME SetterKind = "result", HostnameKind = "void"
  PROVE  Spec => []SetterResultFaithful
<1>1. CtxInit => SetterResultFaithful
  BY DEF CtxInit, SetterResultFaithful
<1>2. SetterResultFaithful /\ [CtxNext \/ (CtxDone /\ UNCHANGED ctxVars)]_ctxVars
        => SetterResultFaithful'
  <2> SUFFICES ASSUME SetterResultFaithful,
                      [CtxNext \/ (CtxDone /\ UNCHANGED ctxVars)]_ctxVars
               PROVE  SetterResultFaithful'
    OBVIOUS
  <2>1. ASSUME NEW c \in Ctxs, NEW op \in Setters, Set(c, op)
        PROVE  SetterResultFaithful'
    <3>1. PICK o \in BackendOutcomes(BackendKind(op)) :
            \/ SetRet(op, "skipped", "not_initialized")
            \/ SetRet(op, "skipped", "invalid_argument")
            \/ SetRet(op, o, CallAndMap(LambdaKind(op), o, Fallback(op)))
      BY <2>1 DEF Set, BackendOutcomes
    <3>2. CallAndMap(LambdaKind(op), o, Fallback(op)) = "none" <=> o = "ok"
      BY SetterMapping
    <3>3. QED
      BY <3>1, <3>2 DEF SetRet, SetterResultFaithful
  <2>2. ASSUME NEW c \in Ctxs, SetAlpn(c) PROVE SetterResultFaithful'
    <3>1. \/ SetRet("set_alpn", "skipped", "not_initialized")
          \/ SetRet("set_alpn", "skipped", "invalid_argument")
          \/ \E o \in BackendOutcomes(SetterKind) :
               SetRet("set_alpn", o, CallAndMap(SetterKind, o, "invalid_argument"))
      BY <2>2 DEF SetAlpn
    <3>2. ASSUME NEW o \in BackendOutcomes(SetterKind)
          PROVE  CallAndMap(SetterKind, o, "invalid_argument") = "none" <=> o = "ok"
      BY ResultMapping DEF BackendOutcomes
    <3>3. QED
      BY <3>1, <3>2 DEF SetRet, SetterResultFaithful
  <2>3. CASE UNCHANGED cret
    BY <2>3 DEF SetterResultFaithful
  <2>4. QED
    BY <2>1, <2>2, <2>3 DEF CtxNext, CtxConstruct, CtxDestroy, CtxMoveConstruct,
                            CtxMoveAssign, ctxVars
<1>3. QED
  BY <1>1, <1>2, PTL DEF Spec

-----------------------------------------------------------------------------
(* The invariant the stream proofs carry: the type invariant and the       *)
(* strengthened ownership invariant.  It splits into a part about the      *)
(* TlsContext objects, which only CtxLife changes, and a part about the    *)
(* streams, which CtxLife leaves alone.                                    *)
IInv == StreamTypeOK /\ ImplsOwnedOnceInductive

CtxPart ==
  /\ TypeOK
  /\ \A i \in Ctxs : cfreed[i] <= 1
  /\ \A c, d \in Ctxs : c # d /\ cimpl[c] # Null => cimpl[c] # cimpl[d]
  /\ \A c \in Ctxs : cimpl[c] # Null => cobj[c] = "alive" /\ cfreed[cimpl[c]] = 0
  /\ \A c \in Ctxs : cobj[c] = "unborn" =>
       cimpl[c] = Null /\ (\A d \in Ctxs : cimpl[d] # c) /\ cfreed[c] = 0

(* The stream variables' shape.                                            *)
StreamShape ==
  /\ ctxWrap \in [Streams -> Ctxs]
  /\ cfgOf \in [Streams -> Ctxs]
  /\ tls \in [Streams -> TlsStates]
  /\ mode \in [Streams -> Roles \cup {"-"}]
  /\ sock \in [Streams -> {"connected", "closed"}]
  /\ sret \in [op : StreamOps, impl : Streams \cup {Null}, code : StreamCodes]

(* Who holds which stream Impl, with LiveImpls spelt out.                  *)
StreamOwn ==
  /\ sobj \in [Streams -> ObjStates]
  /\ simpl \in [Streams -> Streams \cup {Null}]
  /\ sfreed \in [Streams -> 0..1]
  /\ \A s, t \in Streams : s # t /\ simpl[s] # Null => simpl[s] # simpl[t]
  /\ \A s \in Streams : simpl[s] # Null => sobj[s] = "alive" /\ sfreed[simpl[s]] = 0
  /\ \A s \in Streams : sobj[s] = "unborn" =>
       simpl[s] = Null /\ (\A t \in Streams : simpl[t] # s) /\ sfreed[s] = 0

(* The split invariant gives the one the runs check.                      *)
LEMMA SplitGivesIInv ==
  ASSUME CtxPart, StreamShape, StreamOwn PROVE IInv
<1>1. StreamTypeOK
  BY DEF StreamTypeOK, CtxPart, StreamShape, StreamOwn
<1>2. \A j \in Streams : j \in LiveImpls => \E s \in Streams : simpl[s] = j /\ j # Null
  BY DEF LiveImpls
<1>3. ImplsOwnedOnce
  BY <1>2 DEF ImplsOwnedOnce, CtxPart, StreamOwn
<1>4. \A s \in Streams : sobj[s] = "unborn" => s \notin LiveImpls
  BY <1>2 DEF StreamOwn
<1>5. QED
  BY <1>1, <1>3, <1>4 DEF IInv, ImplsOwnedOnceInductive, CtxPart, StreamOwn

(* Each TlsContext step keeps the TlsContext part.                         *)
LEMMA CtxLifeStep ==
  ASSUME CtxPart, CtxLife PROVE CtxPart'
<1> USE DEF CtxPart, TypeOK, ObjStates
<1>1. PICK c \in Ctxs :
        \/ CtxConstruct(c)
        \/ CtxDestroy(c)
        \/ \E other \in Ctxs : CtxMoveConstruct(c, other) \/ CtxMoveAssign(c, other)
  BY DEF CtxLife
<1>2. CASE CtxConstruct(c)
  BY <1>2, CtxsAssumption DEF CtxConstruct, Null
<1>3. CASE CtxDestroy(c)
  <2>1. CASE cimpl[c] = Null
    BY <1>3, <2>1 DEF CtxDestroy, DeleteImpl
  <2>2. CASE cimpl[c] # Null
    <3>1. cfreed' = [cfreed EXCEPT ![cimpl[c]] = 0 + 1] /\ cimpl[c] \in Ctxs
      BY <1>3, <2>2 DEF CtxDestroy, DeleteImpl
    <3>2. QED
      BY <1>3, <2>2, <3>1 DEF CtxDestroy
  <2>3. QED
    BY <2>1, <2>2
<1>4. ASSUME NEW other \in Ctxs, CtxMoveConstruct(c, other) PROVE CtxPart'
  BY <1>4, CtxsAssumption DEF CtxMoveConstruct, Null
<1>5. ASSUME NEW other \in Ctxs, CtxMoveAssign(c, other) PROVE CtxPart'
  <2>1. CASE c = other
    BY <1>5, <2>1 DEF CtxMoveAssign
  <2>2. CASE c # other /\ cimpl[c] = Null
    BY <1>5, <2>2 DEF CtxMoveAssign, DeleteImpl
  <2>3. CASE c # other /\ cimpl[c] # Null
    <3>1. cfreed' = [cfreed EXCEPT ![cimpl[c]] = 0 + 1] /\ cimpl[c] \in Ctxs
      BY <1>5, <2>3 DEF CtxMoveAssign, DeleteImpl
    <3>2. cimpl' = [cimpl EXCEPT ![c] = cimpl[other], ![other] = Null]
      BY <1>5, <2>3 DEF CtxMoveAssign
    <3>3. UNCHANGED <<cobj, role, cret>>
      BY <1>5 DEF CtxMoveAssign
    <3>4. QED
      BY <1>5, <2>3, <3>1, <3>2, <3>3 DEF CtxMoveAssign
  <2>4. QED
    BY <2>1, <2>2, <2>3
<1>6. QED
  BY <1>1, <1>2, <1>3, <1>4, <1>5

(* A step that leaves every object, pointer and deletion count alone keeps *)
(* the ownership part.                                                     *)
LEMMA OwnUnchanged ==
  ASSUME StreamOwn, UNCHANGED <<sobj, simpl, sfreed>> PROVE StreamOwn'
BY DEF StreamOwn

(* The stream actions that only make calls on an Impl keep the shape.      *)
LEMMA CallsShape ==
  ASSUME CtxPart, StreamShape, StreamOwn, NEW s \in Streams,
         \/ Handshake(s) \/ Shutdown(s) \/ Close(s) \/ SocketClose(s)
         \/ \E op \in {"read_some", "write_some"} : StreamIo(s, op)
  PROVE  StreamShape' /\ UNCHANGED <<sobj, simpl, sfreed, ctxVars>>
<1> USE DEF StreamShape, StreamOwn, Ret, BridgedCode, MapTlsError, StreamCodes,
            StreamOps, TlsStates, Roles
<1>1. CASE Handshake(s)
  <2>1. CASE simpl[s] = Null
    BY <1>1, <2>1 DEF Handshake
  <2>2. CASE simpl[s] # Null
    <3>1. Role(ctxWrap[simpl[s]]) \in Roles
      BY <2>2 DEF Role, CtxPart, TypeOK
    <3>2. QED
      BY <1>1, <2>2, <3>1 DEF Handshake
  <2>3. QED
    BY <2>1, <2>2
<1>2. CASE Shutdown(s)
  BY <1>2 DEF Shutdown, ShutdownImpl
<1>3. CASE Close(s)
  BY <1>3 DEF Close, CloseImpl, ShutdownImpl
<1>4. CASE SocketClose(s)
  BY <1>4 DEF SocketClose
<1>5. CASE \E op \in {"read_some", "write_some"} : StreamIo(s, op)
  BY <1>5 DEF StreamIo
<1>6. QED
  BY <1>1, <1>2, <1>3, <1>4, <1>5

(* Construction and move construction give the Impl to an unborn object.  *)
LEMMA ConstructStep ==
  ASSUME CtxPart, StreamShape, StreamOwn, NEW s \in Streams,
         \/ \E c \in Ctxs : StreamConstruct(s, c)
         \/ \E other \in Streams : StreamMoveConstruct(s, other)
  PROVE  StreamShape' /\ StreamOwn' /\ UNCHANGED ctxVars
<1> USE DEF StreamShape, StreamOwn, ObjStates
<1>1. ASSUME NEW c \in Ctxs, StreamConstruct(s, c)
      PROVE  StreamShape' /\ StreamOwn' /\ UNCHANGED ctxVars
  <2>1. cimpl[c] \in Ctxs
    BY <1>1 DEF StreamConstruct, CtxPart, TypeOK
  <2>2. QED
    BY <1>1, <2>1, StreamsAssumption DEF StreamConstruct
<1>2. ASSUME NEW other \in Streams, StreamMoveConstruct(s, other)
      PROVE  StreamShape' /\ StreamOwn' /\ UNCHANGED ctxVars
  BY <1>2 DEF StreamMoveConstruct
<1>3. QED
  BY <1>1, <1>2

(* The destructor and the move assignment delete the Impl the object held, *)
(* which no one else holds and which was never deleted.                    *)
LEMMA ReleaseStep ==
  ASSUME CtxPart, StreamShape, StreamOwn, NEW s \in Streams,
         \/ StreamDestroy(s)
         \/ \E other \in Streams : StreamMoveAssign(s, other)
  PROVE  StreamShape' /\ StreamOwn' /\ UNCHANGED ctxVars
<1> USE DEF StreamShape, StreamOwn, ObjStates
<1>1. CASE StreamDestroy(s)
  <2>1. CASE simpl[s] = Null
    BY <1>1, <2>1 DEF StreamDestroy
  <2>2. CASE simpl[s] # Null
    <3>1. sfreed' = [sfreed EXCEPT ![simpl[s]] = 0 + 1] /\ simpl[s] \in Streams
      BY <1>1, <2>2 DEF StreamDestroy
    <3>2. StreamShape'
      BY <1>1, <2>2 DEF StreamDestroy, CloseImpl, ShutdownImpl, Ret, BridgedCode,
                        MapTlsError, StreamCodes, StreamOps, TlsStates
    <3>3. StreamOwn' /\ UNCHANGED ctxVars
      BY <1>1, <2>2, <3>1 DEF StreamDestroy
    <3>4. QED
      BY <3>2, <3>3
  <2>3. QED
    BY <2>1, <2>2
<1>2. ASSUME NEW other \in Streams, StreamMoveAssign(s, other)
      PROVE  StreamShape' /\ StreamOwn' /\ UNCHANGED ctxVars
  <2>1. CASE simpl[s] = Null
    BY <1>2, <2>1 DEF StreamMoveAssign
  <2>2. CASE simpl[s] # Null
    <3>0. sfreed' = [sfreed EXCEPT ![simpl[s]] = @ + 1]
      BY <1>2, <2>2 DEF StreamMoveAssign
    <3>1. sfreed[simpl[s]] = 0 /\ simpl[s] \in Streams
      BY <2>2
    <3>2. QED
      BY <1>2, <2>2, <3>1 DEF StreamMoveAssign
  <2>3. QED
    BY <2>1, <2>2
<1>3. QED
  BY <1>1, <1>2

(* Every reachable state of any number of streams and TlsContexts is well  *)
(* typed and every Impl is owned once (ImplsOwnedOnceInductive, checked by *)
(* run tls_stream_lifecycle).                                              *)
THEOREM StreamInvariant == StreamSpec => [](StreamTypeOK /\ ImplsOwnedOnceInductive)
<1> DEFINE Split == CtxPart /\ StreamShape /\ StreamOwn
<1>1. Init => Split
  BY StreamsAssumption, CtxsAssumption
     DEF Init, CtxInit, CtxPart, TypeOK, StreamShape, StreamOwn, ObjStates,
         Outcomes, SetterCodes, Roles, StreamOps, StreamCodes, TlsStates, Null
<1>2. Split /\ [Next]_vars => Split'
  <2> SUFFICES ASSUME Split, [Next]_vars PROVE Split'
    OBVIOUS
  <2>1. CASE CtxLife
    <3>1. UNCHANGED streamVars
      BY <2>1 DEF CtxLife
    <3>2. QED
      BY <2>1, <3>1, CtxLifeStep DEF streamVars, StreamShape, StreamOwn
  <2>2. ASSUME NEW s \in Streams,
               \/ Handshake(s) \/ Shutdown(s) \/ Close(s) \/ SocketClose(s)
               \/ \E op \in {"read_some", "write_some"} : StreamIo(s, op)
        PROVE  Split'
    <3>1. StreamShape' /\ UNCHANGED <<sobj, simpl, sfreed, ctxVars>>
      BY <2>2, CallsShape
    <3>2. QED
      BY <3>1, OwnUnchanged DEF CtxPart, TypeOK, ctxVars
  <2>3. ASSUME NEW s \in Streams,
               \/ \E c \in Ctxs : StreamConstruct(s, c)
               \/ \E other \in Streams : StreamMoveConstruct(s, other)
               \/ StreamDestroy(s)
               \/ \E other \in Streams : StreamMoveAssign(s, other)
        PROVE  Split'
    <3>1. StreamShape' /\ StreamOwn' /\ UNCHANGED ctxVars
      BY <2>3, ConstructStep, ReleaseStep
    <3>2. QED
      BY <3>1 DEF CtxPart, TypeOK, ctxVars
  <2>4. CASE Terminated \/ UNCHANGED vars
    BY <2>4 DEF Terminated, vars, streamVars, ctxVars, CtxPart, TypeOK,
                StreamShape, StreamOwn
  <2>5. QED
    BY <2>1, <2>2, <2>3, <2>4 DEF Next
<1>3. Split => StreamTypeOK /\ ImplsOwnedOnceInductive
  BY SplitGivesIInv DEF IInv
<1>4. QED
  BY <1>1, <1>2, <1>3, PTL DEF StreamSpec

(* Every reachable state of any number of TlsStreams and TlsContexts is    *)
(* well typed (StreamTypeOK, checked by run tls_stream_lifecycle): in      *)
(* particular no Impl's deletion count leaves 0..2.                        *)
THEOREM StreamTypeCorrect == StreamSpec => []StreamTypeOK
BY StreamInvariant, PTL

(* Under every order of constructions, moves, self-moves and destructions  *)
(* of any number of streams and TlsContexts, each stream Impl has one       *)
(* owner and no stream or TlsContext Impl is deleted twice (ImplsOwnedOnce, *)
(* checked by run tls_stream_lifecycle).                                   *)
THEOREM OwnedOnce == StreamSpec => []ImplsOwnedOnce
BY StreamInvariant, PTL DEF ImplsOwnedOnceInductive

====
