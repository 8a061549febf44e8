------------------------------ MODULE EchoSession ------------------------------
(***************************************************************************)
(* The echo example (src/examples/echo_server.cpp, echo_client.cpp): one   *)
(* server process accepts connections one at a time and echoes what it     *)
(* reads until read_some fails or returns 0 bytes; each client process     *)
(* connects, then for each input line writes it and reads one chunk back,  *)
(* and ends on end of input, on 0 bytes (the server closed) or on an       *)
(* error.  The Socket calls behave as socket.cpp's: in strict mode an I/O  *)
(* call on a Socket whose state is not connected returns invalid_state,    *)
(* and accept() hands back a Socket whose state is closed                  *)
(* (listener.cpp).  Data is counted in lines: a client writes one line     *)
(* and reads its echo before it writes the next, so a chunk is one line.   *)
(* Each side's TCP stream is a count of lines in flight and the way it was *)
(* ended: open, fin (close() with nothing unread) or rst (close() with     *)
(* data unread).                                                           *)
(***************************************************************************)
EXTENDS Naturals

CONSTANTS
  Clients,   \* the client processes
  Lines,     \* lines each client reads from its input
  StrictModes, \* the values Config::strict_checks of the server's Context may have
  Faults     \* whether the network may fail a connect, read or write

ASSUME EchoAssumption ==
  /\ Clients # {} /\ "none" \notin Clients
  /\ Lines \in Nat \ {0}
  /\ StrictModes \subseteq BOOLEAN /\ StrictModes # {} /\ Faults \in BOOLEAN

ClientPcs == {"connect", "getline", "write", "read", "exit"}
ServerPcs == {"accept", "read", "write"}
Ends == {"open", "fin", "rst", "refused"}
Exits == {"-", "input_done", "server_closed", "failed"}

VARIABLES
  cpc,      \* cpc[c]: where client c is
  sent,     \* sent[c]: lines client c has written
  got,      \* got[c]: lines client c has read back
  exitHow,  \* exitHow[c]: why client c's loop ended
  up,       \* up[c]: client c's data in flight to the server
  down,     \* down[c]: echoed data in flight to client c
  cEnd,     \* cEnd[c]: how client c ended its side of the connection
  sEnd,     \* sEnd[c]: how the server ended its side of c's connection
  served,   \* the clients the server has accepted
  spc,      \* where the server is
  cur,      \* the client the server is serving, or "none"
  sst,      \* the server's accepted Socket's state (Socket::Impl::st)
  strict,   \* the server Context's strict_checks, set before the server starts
  faulted   \* whether the network has failed some call

vars == <<cpc, sent, got, exitHow, up, down, cEnd, sEnd, served, spc, cur, sst,
          strict, faulted>>

TypeOK ==
  /\ cpc \in [Clients -> ClientPcs]
  /\ sent \in [Clients -> 0..Lines] /\ got \in [Clients -> 0..Lines]
  /\ exitHow \in [Clients -> Exits]
  /\ up \in [Clients -> 0..1] /\ down \in [Clients -> 0..1]
  /\ cEnd \in [Clients -> Ends] /\ sEnd \in [Clients -> Ends]
  /\ served \subseteq Clients
  /\ spc \in ServerPcs /\ cur \in Clients \cup {"none"}
  /\ sst \in {"closed", "connected"}
  /\ strict \in BOOLEAN /\ faulted \in BOOLEAN

Init ==
  /\ cpc = [c \in Clients |-> "connect"]
  /\ sent = [c \in Clients |-> 0] /\ got = [c \in Clients |-> 0]
  /\ exitHow = [c \in Clients |-> "-"]
  /\ up = [c \in Clients |-> 0] /\ down = [c \in Clients |-> 0]
  /\ cEnd = [c \in Clients |-> "open"] /\ sEnd = [c \in Clients |-> "open"]
  /\ served = {} /\ spc = "accept" /\ cur = "none" /\ sst = "closed"
  /\ strict \in StrictModes /\ faulted = FALSE

(* How the closing side ends the stream: an RST when data it never read is *)
(* still in its receive buffer, a FIN otherwise.                           *)
CloseEnd(unread) == IF unread > 0 THEN "rst" ELSE "fin"

-----------------------------------------------------------------------------
(* Client c (echo_client.cpp).                                             *)

ClientExit(c, how) ==
  /\ cpc' = [cpc EXCEPT ![c] = "exit"]
  /\ exitHow' = [exitHow EXCEPT ![c] = how]
  /\ cEnd' = [cEnd EXCEPT ![c] = CloseEnd(down[c])]

ServerVars == <<served, spc, cur, sst, sEnd, strict>>

(* What the network does to one connect, read or write: delivers, or,    *)
(* when Faults allows it, fails the call.                                  *)
Nets == IF Faults THEN {"ok", "fault"} ELSE {"ok"}

(* A call fails: because of the state of the connection (`cause`) when    *)
(* the network delivers, or because the network failed it.                 *)
Fails(cause, net) ==
  \/ net = "ok" /\ cause /\ UNCHANGED faulted
  \/ net = "fault" /\ faulted' = TRUE

(* sock.connect(ep): the server is listening, so the connection is queued  *)
(* in its backlog; only a network fault makes it fail.                     *)
ClientConnect(c, net) ==
  /\ cpc[c] = "connect"
  /\ \/ cpc' = [cpc EXCEPT ![c] = "getline"] /\ UNCHANGED <<exitHow, cEnd, faulted>>
     \/ /\ Fails(FALSE, net)
        /\ cpc' = [cpc EXCEPT ![c] = "exit"]
        /\ exitHow' = [exitHow EXCEPT ![c] = "failed"]
        /\ cEnd' = [cEnd EXCEPT ![c] = "refused"]
  /\ UNCHANGED <<sent, got, up, down, ServerVars>>

\* Mutant: end of input is noticed one read too late and an empty line
\* is sent after the last one.
ClientGetlineEofAsLine(c) ==
  /\ cpc[c] = "getline"
  /\ IF sent[c] <= Lines
       THEN cpc' = [cpc EXCEPT ![c] = "write"] /\ UNCHANGED <<exitHow, cEnd>>
       ELSE ClientExit(c, "input_done")
  /\ UNCHANGED <<sent, got, up, down, faulted, ServerVars>>

(* while (std::getline(std::cin, line)): the next line, or sock.close()    *)
(* and return 0 at end of input.                                           *)
ClientGetline(c) ==
  /\ cpc[c] = "getline"
  /\ IF sent[c] < Lines
       THEN cpc' = [cpc EXCEPT ![c] = "write"] /\ UNCHANGED <<exitHow, cEnd>>
       ELSE ClientExit(c, "input_done")
  /\ UNCHANGED <<sent, got, up, down, faulted, ServerVars>>

(* sock.write_some(line): the kernel takes the line unless the server's    *)
(* side was reset; a write to a closed peer may still succeed once.        *)
ClientWrite(c, net) ==
  /\ cpc[c] = "write"
  /\ \/ /\ sEnd[c] # "rst"
        /\ cpc' = [cpc EXCEPT ![c] = "read"]
        /\ sent' = [sent EXCEPT ![c] = @ + 1]
        /\ up' = [up EXCEPT ![c] = IF sEnd[c] = "open" THEN 1 ELSE 0]
        /\ UNCHANGED <<exitHow, cEnd, faulted>>
     \/ Fails(sEnd[c] # "open", net) /\ ClientExit(c, "failed") /\ UNCHANGED <<sent, up>>
  /\ UNCHANGED <<got, down, ServerVars>>

(* sock.read_some(buf): one echoed line, 0 bytes once the server closed    *)
(* with a FIN, an error after an RST or a fault; it blocks otherwise.      *)
ClientRead(c, net) ==
  /\ cpc[c] = "read"
  /\ \/ /\ down[c] = 1
        /\ cpc' = [cpc EXCEPT ![c] = "getline"]
        /\ got' = [got EXCEPT ![c] = @ + 1]
        /\ down' = [down EXCEPT ![c] = 0]
        /\ UNCHANGED <<exitHow, cEnd, faulted>>
     \/ /\ down[c] = 0 /\ sEnd[c] = "fin" /\ ClientExit(c, "server_closed")
        /\ UNCHANGED <<got, down, faulted>>
     \/ Fails(sEnd[c] = "rst", net) /\ ClientExit(c, "failed") /\ UNCHANGED <<got, down>>
  /\ UNCHANGED <<sent, up, ServerVars>>

-----------------------------------------------------------------------------
(* The server (echo_server.cpp), serving client cur.                       *)

ClientVars == <<cpc, sent, got, exitHow, cEnd, strict>>

(* listener.accept(): the next connection in the backlog, whether or not  *)
(* its client has already closed it.  The accepted Socket's state is       *)
(* closed: accept() never sets it.  A failed accept is `continue`, back to *)
(* the same state.                                                         *)
ServerAccept ==
  /\ spc = "accept"
  /\ \E c \in Clients \ served :
       /\ cpc[c] # "connect" /\ cEnd[c] # "refused"
       /\ served' = served \cup {c}
       /\ cur' = c
  /\ spc' = "read"
  /\ sst' = "closed"
  /\ UNCHANGED <<ClientVars, up, down, sEnd, faulted>>

(* client.close(); break: back to accept.                                  *)
ServerClose ==
  /\ sEnd' = [sEnd EXCEPT ![cur] = CloseEnd(up[cur])]
  /\ spc' = "accept"
  /\ cur' = "none"

(* The strict-mode state check of Socket::read_some and write_some.        *)
StrictRejects == strict /\ sst # "connected"

\* Mutant: a failed read is retried instead of closing the connection.
ServerReadErrorRetry(net) ==
  /\ spc = "read"
  /\ LET c == cur IN
     \/ StrictRejects /\ UNCHANGED <<up, faulted, spc, cur, sEnd>>
     \/ /\ ~StrictRejects /\ up[c] = 1
        /\ up' = [up EXCEPT ![c] = 0] /\ spc' = "write"
        /\ UNCHANGED <<cur, sEnd, faulted>>
     \/ /\ ~StrictRejects /\ up[c] = 0 /\ cEnd[c] = "fin" /\ ServerClose
        /\ UNCHANGED <<up, faulted>>
     \/ /\ ~StrictRejects /\ Fails(cEnd[c] = "rst", net)
        /\ UNCHANGED <<up, spc, cur, sEnd>>
  /\ UNCHANGED <<ClientVars, down, served, sst>>

(* client.read_some(buffer): invalid_state in strict mode, else one line,  *)
(* 0 bytes after the client's FIN, an error after its RST or a fault; the  *)
(* loop closes on anything but a line.  It blocks otherwise.               *)
ServerRead(net) ==
  /\ spc = "read"
  /\ LET c == cur IN
     \/ StrictRejects /\ ServerClose /\ UNCHANGED <<up, faulted>>
     \/ /\ ~StrictRejects /\ up[c] = 1
        /\ up' = [up EXCEPT ![c] = 0] /\ spc' = "write"
        /\ UNCHANGED <<cur, sEnd, faulted>>
     \/ /\ ~StrictRejects /\ up[c] = 0 /\ cEnd[c] = "fin" /\ ServerClose
        /\ UNCHANGED <<up, faulted>>
     \/ ~StrictRejects /\ Fails(cEnd[c] = "rst", net) /\ ServerClose /\ UNCHANGED up
  /\ UNCHANGED <<ClientVars, down, served, sst>>

(* client.write_some(buffer, r.bytes): the line goes back unless the       *)
(* client reset the connection; a failed write closes.  Its strict check   *)
(* passes: the read before it passed the same check on the same Socket.    *)
ServerWrite(net) ==
  /\ spc = "write"
  /\ LET c == cur IN
     \/ /\ cEnd[c] # "rst"
        /\ down' = [down EXCEPT ![c] = IF cEnd[c] = "open" THEN 1 ELSE 0]
        /\ spc' = "read" /\ UNCHANGED <<cur, sEnd, faulted>>
     \/ Fails(cEnd[c] # "open", net) /\ ServerClose /\ UNCHANGED down
  /\ UNCHANGED <<ClientVars, up, served, sst>>

(* One step of client c, or of the server, when the network does `net`.  *)
ClientStep(c, net) ==
  ClientConnect(c, net) \/ ClientGetline(c) \/ ClientWrite(c, net) \/ ClientRead(c, net)

ServerStep(net) == ServerAccept \/ ServerRead(net) \/ ServerWrite(net)

Next == \E net \in Nets : ServerStep(net) \/ \E c \in Clients : ClientStep(c, net)

(* Server and clients are separate processes, each scheduled by the OS:   *)
(* a process that can go on with the network delivering eventually does.  *)
(* A network failure is possible but never forced, and a call blocked on   *)
(* its peer (read_some with nothing to read, accept() with an empty        *)
(* backlog) is not enabled: no call has a timeout.  Each client's input    *)
(* is assumed to deliver its next line or its end.                         *)
Spec == Init /\ [][Next]_vars /\ WF_vars(ServerStep("ok"))
        /\ \A c \in Clients : WF_vars(ClientStep(c, "ok"))

-----------------------------------------------------------------------------
(* As long as the network has not failed, every client that has ended got  *)
(* every line echoed and ended because its input ended, not because the    *)
(* server closed or reset the connection (echo_server.cpp's loop with      *)
(* Socket::read_some/write_some on the Socket listener.accept() returned). *)
EchoComplete ==
  ~faulted =>
  \A c \in Clients :
    cpc[c] = "exit" => exitHow[c] = "input_done" /\ got[c] = Lines

(* Every client process ends, and the server closes every connection it    *)
(* took, however the client left: a read of 0 bytes after the client's    *)
(* FIN, an error or a failed write ends echo_server's inner loop.          *)
AllSessionsEnd ==
  <>(\A c \in Clients :
       cpc[c] = "exit" /\ (cEnd[c] # "refused" => sEnd[c] # "open"))

====
