------------------------------ MODULE EchoProofs ------------------------------
(***************************************************************************)
(* Proofs about the echo example, for every set of clients, every number   *)
(* of lines and every value of strict_checks.                              *)
(*                                                                         *)
(* TypeOK is not inductive: a client writes only while it has lines left,  *)
(* and reads back only the line it wrote, so the counts stay within        *)
(* 0..Lines only because of how cpc, sent and got move together, and the   *)
(* server touches the connection of `cur` only while it serves one.        *)
(* CountsInv adds these facts.                                             *)
(*                                                                         *)
(* With the default Config (strict_checks on, config.hpp) the server never *)
(* echoes a byte: accept() leaves the Socket closed, so every read_some on *)
(* it fails the strict check.  StrictInv carries that argument.            *)
(***************************************************************************)
EXTENDS EchoSession, TLAPS

(* TypeOK with the facts about the client's counts and the server's       *)
(* current connection that keep it inductive.                              *)
CountsInv ==
  /\ TypeOK
  /\ spc = "accept" <=> cur = "none"
  /\ \A c \in Clients :
       /\ cpc[c] \in {"connect", "getline", "write"} => got[c] = sent[c]
       /\ cpc[c] = "read" => sent[c] = got[c] + 1
       /\ cpc[c] = "write" => sent[c] < Lines

USE EchoAssumption

(* A failing call: either its cause holds and nothing else happened, or    *)
(* the network failed it.                                                  *)
LEMMA FailsCases ==
  ASSUME NEW cause, NEW net, Fails(cause, net)
  PROVE  (cause /\ UNCHANGED faulted) \/ faulted' = TRUE
BY DEF Fails

(* Each client step keeps CountsInv.                                       *)
LEMMA ClientStepCounts ==
  ASSUME CountsInv, NEW c \in Clients, NEW net, ClientStep(c, net)
  PROVE  CountsInv'
<1> USE DEF CountsInv, TypeOK, ClientPcs, Exits, Ends, ServerVars
<1>1. CASE ClientConnect(c, net)
  <2>1. UNCHANGED <<sent, got, up, down, served, spc, cur, sst, sEnd, strict>>
    BY <1>1 DEF ClientConnect
  <2>2. CASE cpc' = [cpc EXCEPT ![c] = "getline"] /\ UNCHANGED <<exitHow, cEnd, faulted>>
    BY <1>1, <2>1, <2>2 DEF ClientConnect
  <2>3. CASE /\ faulted' = TRUE
             /\ cpc' = [cpc EXCEPT ![c] = "exit"]
             /\ exitHow' = [exitHow EXCEPT ![c] = "failed"]
             /\ cEnd' = [cEnd EXCEPT ![c] = "refused"]
    BY <1>1, <2>1, <2>3 DEF ClientConnect
  <2>4. QED
    BY <1>1, <2>2, <2>3, FailsCases DEF ClientConnect
<1>2. CASE ClientGetline(c)
  BY <1>2 DEF ClientGetline, ClientExit, CloseEnd
<1>3. CASE ClientWrite(c, net)
  <2>1. CASE /\ sEnd[c] # "rst"
             /\ cpc' = [cpc EXCEPT ![c] = "read"]
             /\ sent' = [sent EXCEPT ![c] = @ + 1]
             /\ up' = [up EXCEPT ![c] = IF sEnd[c] = "open" THEN 1 ELSE 0]
             /\ UNCHANGED <<exitHow, cEnd, faulted>>
    BY <1>3, <2>1 DEF ClientWrite
  <2>2. CASE Fails(sEnd[c] # "open", net) /\ ClientExit(c, "failed")
             /\ UNCHANGED <<sent, up>>
    BY <1>3, <2>2, FailsCases DEF ClientWrite, ClientExit, CloseEnd
  <2>3. QED
    BY <1>3, <2>1, <2>2 DEF ClientWrite
<1>4. CASE ClientRead(c, net)
  <2>1. CASE /\ down[c] = 1
             /\ cpc' = [cpc EXCEPT ![c] = "getline"]
             /\ got' = [got EXCEPT ![c] = @ + 1]
             /\ down' = [down EXCEPT ![c] = 0]
             /\ UNCHANGED <<exitHow, cEnd, faulted>>
    BY <1>4, <2>1 DEF ClientRead
  <2>2. CASE /\ down[c] = 0 /\ sEnd[c] = "fin" /\ ClientExit(c, "server_closed")
             /\ UNCHANGED <<got, down, faulted>>
    BY <1>4, <2>2 DEF ClientRead, ClientExit, CloseEnd
  <2>3. CASE Fails(sEnd[c] = "rst", net) /\ ClientExit(c, "failed")
             /\ UNCHANGED <<got, down>>
    BY <1>4, <2>3, FailsCases DEF ClientRead, ClientExit, CloseEnd
  <2>4. QED
    BY <1>4, <2>1, <2>2, <2>3 DEF ClientRead
<1>5. QED
  BY <1>1, <1>2, <1>3, <1>4 DEF ClientStep

(* Each server step keeps CountsInv, whatever strict_checks is.            *)
LEMMA ServerStepCounts ==
  ASSUME CountsInv, NEW net, ServerStep(net)
  PROVE  CountsInv'
<1> USE DEF CountsInv, TypeOK, ServerPcs, Ends, ClientVars
<1>1. CASE ServerAccept
  BY <1>1 DEF ServerAccept
<1>2. CASE ServerRead(net)
  <2> DEFINE c == cur
  <2>1. c \in Clients
    BY <1>2 DEF ServerRead
  <2>2. CASE StrictRejects /\ ServerClose /\ UNCHANGED <<up, faulted>>
             /\ UNCHANGED <<ClientVars, down, served, sst>>
    BY <2>1, <2>2 DEF ServerClose, CloseEnd
  <2>3. CASE /\ up[c] = 1
             /\ up' = [up EXCEPT ![c] = 0] /\ spc' = "write"
             /\ UNCHANGED <<cur, sEnd, faulted>>
             /\ UNCHANGED <<ClientVars, down, served, sst>>
    BY <2>1, <2>3
  <2>4. CASE /\ up[c] = 0 /\ ServerClose /\ UNCHANGED <<up, faulted>>
             /\ UNCHANGED <<ClientVars, down, served, sst>>
    BY <2>1, <2>4 DEF ServerClose, CloseEnd
  <2>5. CASE Fails(cEnd[c] = "rst", net) /\ ServerClose /\ UNCHANGED up
             /\ UNCHANGED <<ClientVars, down, served, sst>>
    BY <2>1, <2>5, FailsCases DEF ServerClose, CloseEnd
  <2>6. QED
    BY <1>2, <2>2, <2>3, <2>4, <2>5 DEF ServerRead
<1>3. CASE ServerWrite(net)
  <2> DEFINE c == cur
  <2>1. c \in Clients
    BY <1>3 DEF ServerWrite
  <2>2. CASE /\ cEnd[c] # "rst"
             /\ down' = [down EXCEPT ![c] = IF cEnd[c] = "open" THEN 1 ELSE 0]
             /\ spc' = "read" /\ UNCHANGED <<cur, sEnd, faulted>>
             /\ UNCHANGED <<ClientVars, up, served, sst>>
    BY <2>1, <2>2
  <2>3. CASE Fails(cEnd[c] # "open", net) /\ ServerClose /\ UNCHANGED down
             /\ UNCHANGED <<ClientVars, up, served, sst>>
    BY <2>1, <2>3, FailsCases DEF ServerClose, CloseEnd
  <2>4. QED
    BY <1>3, <2>2, <2>3 DEF ServerWrite
<1>4. QED
  BY <1>1, <1>2, <1>3 DEF ServerStep

(* For every set of clients, every number of lines and every value of      *)
(* strict_checks, with or without network faults, every reachable state    *)
(* of the echo session is well typed (TypeOK, checked by run               *)
(* echo_session): in particular no client writes or reads back more lines  *)
(* than its input has.                                                     *)
THEOREM TypeCorrect == Spec => []TypeOK
<1>1. Init => CountsInv
  <2> SUFFICES ASSUME Init PROVE CountsInv
    OBVIOUS
  <2>1. strict \in BOOLEAN /\ faulted \in BOOLEAN
    BY DEF Init
  <2>2. TypeOK
    BY <2>1 DEF Init, TypeOK, ClientPcs, ServerPcs, Exits, Ends
  <2>3. QED
    BY <2>2 DEF Init, CountsInv
<1>2. CountsInv /\ [Next]_vars => CountsInv'
  <2> SUFFICES ASSUME CountsInv, [Next]_vars PROVE CountsInv'
    OBVIOUS
  <2>1. ASSUME NEW net, ServerStep(net) PROVE CountsInv'
    BY <2>1, ServerStepCounts
  <2>2. ASSUME NEW net, NEW c \in Clients, ClientStep(c, net) PROVE CountsInv'
    BY <2>2, ClientStepCounts
  <2>3. CASE UNCHANGED vars
    BY <2>3 DEF vars, CountsInv, TypeOK
  <2>4. QED
    BY <2>1, <2>2, <2>3 DEF Next
<1>3. QED
  BY <1>1, <1>2, PTL DEF Spec, CountsInv

-----------------------------------------------------------------------------
(* In the default Config the server Socket stays closed, the server never  *)
(* reaches write_some, and no echoed data is ever in flight or read.       *)
StrictInv ==
  /\ strict = TRUE /\ sst = "closed" /\ spc # "write"
  /\ \A c \in Clients : down[c] = 0 /\ got[c] = 0

(* With the default Config (strict_checks on: `Context ctx;` in            *)
(* echo_server.cpp, config.hpp), for every set of clients and every number *)
(* of lines, no client ever gets a line back: the Socket accept() returns  *)
(* is left closed (listener.cpp), so the first read_some on it fails the   *)
(* strict check and the server closes the connection unechoed.             *)
THEOREM StrictNeverEchoes ==
  ASSUME StrictModes = {TRUE}
  PROVE  Spec => [](\A c \in Clients : got[c] = 0)
<1>1. Init => StrictInv
  BY DEF Init, StrictInv
<1>2. StrictInv /\ [Next]_vars => StrictInv'
  <2> SUFFICES ASSUME StrictInv, [Next]_vars PROVE StrictInv'
    OBVIOUS
  <2> USE DEF StrictInv
  <2>1. StrictRejects
    BY DEF StrictRejects
  <2>2. ASSUME NEW net, ServerStep(net) PROVE StrictInv'
    <3>1. CASE ServerAccept
      BY <3>1 DEF ServerAccept, ClientVars
    <3>2. CASE ServerRead(net)
      BY <2>1, <3>2 DEF ServerRead, ServerClose, ClientVars
    <3>3. CASE ServerWrite(net)
      BY <3>3 DEF ServerWrite
    <3>4. QED
      BY <2>2, <3>1, <3>2, <3>3 DEF ServerStep
  <2>3. ASSUME NEW net, NEW c \in Clients, ClientStep(c, net) PROVE StrictInv'
    <3>1. UNCHANGED <<strict, sst, spc>>
      BY <2>3 DEF ClientStep, ClientConnect, ClientGetline, ClientWrite, ClientRead,
                  ServerVars
    <3>2. UNCHANGED <<down, got>>
      <4>1. ~(down[c] = 1)
        OBVIOUS
      <4>2. QED
        BY <2>3, <4>1 DEF ClientStep, ClientConnect, ClientGetline, ClientWrite,
                          ClientRead
    <3>3. QED
      BY <3>1, <3>2
  <2>4. CASE UNCHANGED vars
    BY <2>4 DEF vars
  <2>5. QED
    BY <2>2, <2>3, <2>4 DEF Next
<1>3. StrictInv => \A c \in Clients : got[c] = 0
  BY DEF StrictInv
<1>4. QED
  BY <1>1, <1>2, <1>3, PTL DEF Spec

====
