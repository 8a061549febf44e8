------------------------------ MODULE TlsContext ------------------------------
(***************************************************************************)
(* TlsContext (src/tls_context.cpp): TLS configuration objects.  Each     *)
(* object owns, through impl_, an Impl holding its role and the backend's  *)
(* corosio::tls_context.  The setters validate their argument and then     *)
(* call the backend through detail::call_and_map, which turns the backend  *)
(* call's return value into an ErrorCode according to its C++ type.       *)
(*                                                                         *)
(* The backend's configuration itself is a black box: the model records   *)
(* for the last setter call what the backend did ("ok", "fail", "throw",   *)
(* or "skipped" when the call never reached it) and what the wrapper       *)
(* returned.  The return types of the backend's setters are not part of    *)
(* this repository, so they are constants: SetterKind for the setters      *)
(* whose lambda returns the backend's result, HostnameKind for             *)
(* set_hostname, whose lambda drops it.                                    *)
(***************************************************************************)
EXTENDS Naturals, Sequences, SequencesExt

CONSTANTS
  Ctxs,          \* the TlsContext objects; the Impl made by object c is named c
  SetterKind,    \* C++ type returned by the backend's setters
  HostnameKind   \* C++ type returned by the backend's set_hostname

(* The kinds of return type call_and_map tells apart: void, a plain bool,  *)
(* an error_code (bool-testable and with a value() method) and a result    *)
(* (with error() and value() methods).                                     *)
RetKinds == {"void", "bool", "error_code", "result"}

ASSUME CtxsAssumption == Ctxs # {} /\ "null" \notin Ctxs
ASSUME KindsAssumption == SetterKind \in RetKinds /\ HostnameKind \in RetKinds

Null == "null"
Roles == {"client", "server"}
ObjStates == {"unborn", "alive", "dead"}

(* What the backend did with the last setter call.                        *)
Outcomes == {"ok", "fail", "throw", "skipped"}

(* The ErrorCodes a setter can return.                                     *)
SetterCodes == {"none", "unknown", "invalid_argument", "not_initialized",
                "tls_verify_failed"}

(* The setters other than set_alpn, with the fallback code each passes to  *)
(* call_and_map and whether it rejects an empty string first.             *)
Setters == {"set_verify_mode", "set_hostname", "set_default_verify_paths",
            "load_verify_file", "add_certificate_authority",
            "use_certificate_chain_file", "use_certificate_file",
            "use_private_key_file", "set_min_protocol_version",
            "set_max_protocol_version"}
VerifySetters == {"set_verify_mode", "set_default_verify_paths",
                  "load_verify_file", "add_certificate_authority"}
StringSetters == {"set_hostname", "load_verify_file", "add_certificate_authority",
                  "use_certificate_chain_file", "use_certificate_file",
                  "use_private_key_file"}
Fallback(op) == IF op \in VerifySetters THEN "tls_verify_failed" ELSE "invalid_argument"

(* The type call_and_map sees: the backend's for every setter but          *)
(* set_hostname, whose lambda returns void.                                *)
LambdaKind(op) == IF op = "set_hostname" THEN "void" ELSE SetterKind
BackendKind(op) == IF op = "set_hostname" THEN HostnameKind ELSE SetterKind

(* How the backend may end a call of a function returning `kind`: a void   *)
(* function reports failure only by throwing.                              *)
BackendOutcomes(kind) ==
  IF kind = "void" THEN {"ok", "throw"} ELSE {"ok", "fail", "throw"}

(* detail::call_and_map applied to a backend call that ended with outcome  *)
(* o.  A bool goes to handle_ret_as_error_code, which treats `true` as an  *)
(* error; an error_code, having value(), goes to handle_ret_as_result and  *)
(* its bool branch, which treats `false` as an error; a result has         *)
(* error() and is tested through it.  A bool or error_code holds `true`    *)
(* on success and on failure respectively.                                 *)
\* Mutant: has_error_method misses the result type, so a result is tested
\* through its bool conversion like an error_code.
CallAndMapNoErrorMethod(kind, o, fallback) ==
  IF o = "throw" THEN "unknown"
  ELSE CASE kind = "void"                               -> "none"
         [] kind \in {"bool", "error_code", "result"}  -> IF o = "ok" THEN fallback ELSE "none"

CallAndMap(kind, o, fallback) ==
  IF o = "throw" THEN "unknown"
  ELSE CASE kind = "void"                     -> "none"
         [] kind \in {"bool", "error_code"}   -> IF o = "ok" THEN fallback ELSE "none"
         [] kind = "result"                   -> IF o = "ok" THEN "none" ELSE fallback

(* set_alpn's closed set of protocol lists, as its four if statements      *)
(* test them.                                                              *)
Protocols == {"h2", "http/1.1", "spdy"}
AlpnAccepted(ps) ==
  \/ Len(ps) = 1 /\ ps[1] = "h2"
  \/ Len(ps) = 1 /\ ps[1] = "http/1.1"
  \/ Len(ps) = 2 /\ ps[1] = "h2" /\ ps[2] = "http/1.1"
  \/ Len(ps) = 2 /\ ps[1] = "http/1.1" /\ ps[2] = "h2"

VARIABLES
  cobj,    \* cobj[c]: life of TlsContext object c
  cimpl,   \* cimpl[c]: the Impl object c's impl_ points to, or Null
  cfreed,  \* cfreed[i]: how often Impl i was deleted
  role,    \* role[i]: Impl::r, fixed when Impl i is made
  cret     \* the last setter call: its name, the backend's outcome, the code

ctxVars == <<cobj, cimpl, cfreed, role, cret>>

TypeOK ==
  /\ cobj \in [Ctxs -> ObjStates]
  /\ cimpl \in [Ctxs -> Ctxs \cup {Null}]
  /\ cfreed \in [Ctxs -> 0..2]
  /\ role \in [Ctxs -> Roles]
  /\ cret \in [op : Setters \cup {"set_alpn", "-"}, backend : Outcomes,
               code : SetterCodes]

CtxInit ==
  /\ cobj = [c \in Ctxs |-> "unborn"]
  /\ cimpl = [c \in Ctxs |-> Null]
  /\ cfreed = [i \in Ctxs |-> 0]
  /\ role \in [Ctxs -> Roles]
  /\ cret = [op |-> "-", backend |-> "skipped", code |-> "none"]

(* `delete impl_`: deleting the null pointer does nothing.                 *)
DeleteImpl(i) == IF i = Null THEN cfreed ELSE [cfreed EXCEPT ![i] = @ + 1]

(* TlsContext(TlsRole role): a fresh Impl with that role.                  *)
CtxConstruct(c) ==
  /\ cobj[c] = "unborn"
  /\ cobj' = [cobj EXCEPT ![c] = "alive"]
  /\ cimpl' = [cimpl EXCEPT ![c] = c]
  /\ UNCHANGED <<cfreed, role, cret>>

(* TlsContext(TlsContext&&): take other's Impl and null other's pointer.   *)
CtxMoveConstruct(c, other) ==
  /\ cobj[c] = "unborn" /\ cobj[other] = "alive"
  /\ cobj' = [cobj EXCEPT ![c] = "alive"]
  /\ cimpl' = [cimpl EXCEPT ![c] = cimpl[other], ![other] = Null]
  /\ UNCHANGED <<cfreed, role, cret>>

(* operator=(TlsContext&&): unless self-assignment, delete the own Impl,   *)
(* take other's and null other's pointer.                                  *)
CtxMoveAssign(c, other) ==
  /\ cobj[c] = "alive" /\ cobj[other] = "alive"
  /\ IF c # other
       THEN /\ cfreed' = DeleteImpl(cimpl[c])
            /\ cimpl' = [cimpl EXCEPT ![c] = cimpl[other], ![other] = Null]
       ELSE UNCHANGED <<cfreed, cimpl>>
  /\ UNCHANGED <<cobj, role, cret>>

(* ~TlsContext(): delete impl_.                                            *)
CtxDestroy(c) ==
  /\ cobj[c] = "alive"
  /\ cobj' = [cobj EXCEPT ![c] = "dead"]
  /\ cfreed' = DeleteImpl(cimpl[c])
  /\ cimpl' = [cimpl EXCEPT ![c] = Null]
  /\ UNCHANGED <<role, cret>>

(* TlsContext::role(): the Impl's role, client for a moved-from object.    *)
Role(c) == IF cimpl[c] = Null THEN "client" ELSE role[cimpl[c]]

SetRet(op, o, code) == cret' = [op |-> op, backend |-> o, code |-> code]

(* One setter call on object c with an empty or a non-empty argument:      *)
(* not_initialized without an Impl, invalid_argument for an empty string,  *)
(* otherwise the backend call mapped by call_and_map.                      *)
Set(c, op) ==
  /\ cobj[c] = "alive"
  /\ \/ cimpl[c] = Null /\ SetRet(op, "skipped", "not_initialized")
     \/ /\ cimpl[c] # Null /\ op \in StringSetters
        /\ SetRet(op, "skipped", "invalid_argument")
     \/ /\ cimpl[c] # Null
        /\ \E o \in BackendOutcomes(BackendKind(op)) :
             SetRet(op, o, CallAndMap(LambdaKind(op), o, Fallback(op)))
  /\ UNCHANGED <<cobj, cimpl, cfreed, role>>

(* set_alpn: an empty list and any list outside the closed set are         *)
(* rejected without reaching the backend.                                  *)
SetAlpn(c) ==
  /\ cobj[c] = "alive"
  /\ \E ps \in BoundedSeq(Protocols, 2) :
       \/ cimpl[c] = Null /\ SetRet("set_alpn", "skipped", "not_initialized")
       \/ /\ cimpl[c] # Null /\ ~AlpnAccepted(ps)
          /\ SetRet("set_alpn", "skipped", "invalid_argument")
       \/ /\ cimpl[c] # Null /\ AlpnAccepted(ps)
          /\ \E o \in BackendOutcomes(SetterKind) :
               SetRet("set_alpn", o, CallAndMap(SetterKind, o, "invalid_argument"))
  /\ UNCHANGED <<cobj, cimpl, cfreed, role>>

CtxNext ==
  \E c \in Ctxs :
    \/ CtxConstruct(c) \/ CtxDestroy(c) \/ SetAlpn(c)
    \/ \E op \in Setters : Set(c, op)
    \/ \E other \in Ctxs : CtxMoveConstruct(c, other) \/ CtxMoveAssign(c, other)

(* All objects destroyed: the program has ended.                           *)
CtxDone == \A c \in Ctxs : cobj[c] = "dead"

Spec == CtxInit /\ [][CtxNext \/ (CtxDone /\ UNCHANGED ctxVars)]_ctxVars

-----------------------------------------------------------------------------
(* A setter reports success exactly when the backend accepted the setting: *)
(* it returns none if and only if the backend call returned normally with  *)
(* success (call_and_map in tls_context.cpp, for every setter and for      *)
(* set_alpn).  A caller that trusts `none` and goes on to a handshake      *)
(* would otherwise handshake with a configuration it never got.            *)
SetterResultFaithful ==
  cret.op # "-" => (cret.code = "none" <=> cret.backend = "ok")

=============================================================================
