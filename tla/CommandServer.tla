--------------------------- MODULE CommandServer ----------------------------
(***************************************************************************)
(* The TCP server in main: one client at a time, whose bytes are handed to *)
(* the visitor one by one until the byte '0', the end of the connection or *)
(* a failure.  The listening and the connection socket keep their own idea *)
(* of their state beside the kernel's.                                     *)
(***************************************************************************)
EXTENDS Commands, Sequences

CONSTANTS
  Typed,       \* the bytes clients send
  MaxBytes,    \* bound: how many of them in one session
  MaxWaiting   \* bound: how many clients wait at a time

TCP_BACKLOG == 2

ASSUME ServerAssumption ==
  Typed \subseteq Bytes /\ MaxBytes \in Nat /\ MaxWaiting \in 1..TCP_BACKLOG

Quit == 48      \* the character '0'

VARIABLES
  spc,         \* where main is
  listening,   \* of the listening socket
  fd, open,    \* of the connection socket
  \* The kernel's side:
  waiting,     \* clients that have connected and not been accepted
  link,        \* the accepted connection: "none", "up", or "closed" by the client
  sent,        \* what its client has sent
  got,         \* how much of that has been received
  fds,         \* how many connection descriptors the process has
  visited      \* history: the bytes of this session given to the visitor

socketVars == <<listening, fd, open>>
kernelVars == <<waiting, link, sent, got, fds>>
serverVars == <<spc, socketVars, kernelVars, visited>>

(* The byte last received.                                                 *)
cmd == sent[got]

ServerInit ==
  /\ spc = "socket"
  /\ listening = FALSE /\ fd = -1 /\ open = FALSE
  /\ waiting = 0 /\ link = "none" /\ sent = << >> /\ got = 0 /\ fds = 0
  /\ visited = << >>
-----------------------------------------------------------------------------
(* The clients.  What one sends before it is accepted counts as sent after.*)

Connect ==
  /\ listening
  /\ waiting < MaxWaiting
  /\ waiting' = waiting + 1
  /\ UNCHANGED <<spc, socketVars, link, sent, got, fds, visited>>

Send(b) ==
  /\ link = "up"
  /\ Len(sent) < MaxBytes
  /\ sent' = Append(sent, b)
  /\ UNCHANGED <<spc, socketVars, waiting, link, got, fds, visited>>

Hangup ==
  /\ link = "up"
  /\ link' = "closed"
  /\ UNCHANGED <<spc, socketVars, waiting, sent, got, fds, visited>>

Clients ==
  /\ spc # "exited"
  /\ Connect \/ Hangup \/ \E b \in Typed : Send(b)
-----------------------------------------------------------------------------
(* main.  Each exception ends at the catch clause that takes it; accept    *)
(* and recvByte throw BadSocketException when their socket is not ready,   *)
(* which nothing catches, but NeverBadSocket says that they do not.        *)

(* ListenSocket(1234): socket, setsockopt, bind.                           *)
OpenListener(ok) ==
  /\ spc = "socket"
  /\ spc' = IF ok THEN "listen" ELSE "exited"
  /\ UNCHANGED <<socketVars, kernelVars, visited>>

Listen(ok) ==
  /\ spc = "listen"
  /\ spc' = IF ok THEN "accept" ELSE "exited"
  /\ listening' = ok
  /\ UNCHANGED <<fd, open, kernelVars, visited>>

Accept ==
  /\ spc = "accept" /\ listening
  /\ waiting > 0
  /\ spc' = "recv"
  /\ fd' = fds + 1 /\ open' = TRUE
  /\ waiting' = waiting - 1 /\ link' = "up" /\ fds' = fds + 1
  /\ UNCHANGED <<listening, sent, got, visited>>

AcceptFails ==
  /\ spc = "accept" /\ listening
  /\ spc' = "exited"
  /\ UNCHANGED <<socketVars, kernelVars, visited>>

(* Mutants: what has come in is taken for one command, the last byte of    *)
(* it; recv waits until two bytes have come in.                            *)
RecvLatest ==
  /\ spc = "recv" /\ open
  /\ got < Len(sent)
  /\ got' = Len(sent)
  /\ spc' = IF sent[got'] = Quit THEN "close" ELSE "visit"
  /\ UNCHANGED <<socketVars, waiting, link, sent, fds, visited>>

RecvTwo ==
  /\ spc = "recv" /\ open
  /\ got + 1 < Len(sent)
  /\ got' = got + 1
  /\ spc' = IF sent[got'] = Quit THEN "close" ELSE "visit"
  /\ UNCHANGED <<socketVars, waiting, link, sent, fds, visited>>

RecvByte ==
  /\ spc = "recv" /\ open
  /\ got < Len(sent)
  /\ got' = got + 1
  /\ spc' = IF sent[got'] = Quit THEN "close" ELSE "visit"
  /\ UNCHANGED <<socketVars, waiting, link, sent, fds, visited>>

(* Mutants: main goes on reading; the session ends with the connection,    *)
(* whatever is still unread; recv is tried again when it returns 0; the    *)
(* descriptor is closed at once, and again with the session.               *)
DisconnectedGoOn ==
  /\ spc = "recv" /\ open
  /\ link = "closed" /\ got = Len(sent)
  /\ open' = FALSE
  /\ UNCHANGED <<spc, listening, fd, kernelVars, visited>>

DisconnectedAtOnce ==
  /\ spc = "recv" /\ open
  /\ link = "closed"
  /\ open' = FALSE
  /\ spc' = "close"
  /\ UNCHANGED <<listening, fd, kernelVars, visited>>

DisconnectedRetry ==
  /\ spc = "recv" /\ open
  /\ link = "closed" /\ got = Len(sent)
  /\ UNCHANGED serverVars

DisconnectedClose ==
  /\ spc = "recv" /\ open
  /\ link = "closed" /\ got = Len(sent)
  /\ open' = FALSE
  /\ fds' = fds - 1
  /\ spc' = "close"
  /\ UNCHANGED <<listening, fd, waiting, link, sent, got, visited>>

(* recv returns 0 once all that was sent has been received.                *)
Disconnected ==
  /\ spc = "recv" /\ open
  /\ link = "closed" /\ got = Len(sent)
  /\ open' = FALSE
  /\ spc' = "close"
  /\ UNCHANGED <<listening, fd, kernelVars, visited>>

(* recv fails, also when it is only interrupted.                           *)
RecvFails ==
  /\ spc = "recv" /\ open
  /\ spc' = "close"
  /\ UNCHANGED <<socketVars, kernelVars, visited>>

(* Mutant: a socket whose client has gone is not closed.                   *)
CloseConnIfOpen(ok) ==
  /\ spc = "close"
  /\ spc' = IF ok \/ ~open THEN "accept" ELSE "exited"
  /\ open' = FALSE
  /\ fd' = IF ok \/ ~open THEN -1 ELSE fd
  /\ fds' = IF ok /\ open THEN fds - 1 ELSE fds
  /\ link' = "none" /\ sent' = << >> /\ got' = 0 /\ visited' = << >>
  /\ UNCHANGED <<listening, waiting>>

(* The connection is gone with all that was not read.  A close that fails  *)
(* throws, and nothing catches it.                                         *)
CloseConn(ok) ==
  /\ spc = "close"
  /\ spc' = IF ok THEN "accept" ELSE "exited"
  /\ open' = FALSE
  /\ fd' = IF ok THEN -1 ELSE fd
  /\ fds' = IF ok /\ fd # -1 THEN fds - 1 ELSE fds
  /\ link' = "none" /\ sent' = << >> /\ got' = 0 /\ visited' = << >>
  /\ UNCHANGED <<listening, waiting>>

(* The visitor is called with each byte, and main waits until it returns.  *)
VisitBegins ==
  /\ spc = "visit"
  /\ spc' = "visiting"
  /\ visited' = Append(visited, cmd)
  /\ UNCHANGED <<socketVars, kernelVars>>

VisitReturns ==
  /\ spc = "visiting"
  /\ spc' = "recv"
  /\ UNCHANGED <<socketVars, kernelVars, visited>>
-----------------------------------------------------------------------------
(* Properties.                                                             *)

ServerTypeOK ==
  /\ spc \in {"socket", "listen", "accept", "recv", "visit", "visiting",
              "close", "exited"}
  /\ listening \in BOOLEAN /\ open \in BOOLEAN /\ fd \in Int /\ fds \in Nat
  /\ waiting \in 0..MaxWaiting
  /\ link \in {"none", "up", "closed"}
  /\ sent \in Seq(Typed) /\ visited \in Seq(Typed)
  /\ got \in 0..Len(sent)

(* main never uses a socket that is not ready, whichever way the session   *)
(* before ended: the exception for that is caught nowhere.                 *)
NeverBadSocket ==
  /\ spc = "accept" => listening
  /\ spc \in {"recv", "visit", "visiting"} => open

(* Whichever way sessions end, none leaves a descriptor behind.            *)
NoLeak ==
  /\ spc = "accept" => fds = 0 /\ fd = -1
  /\ fds <= 1

(* The visitor is given what this client sent, in order, from the start    *)
(* and up to the first '0', and everything that main has taken: nothing of *)
(* an earlier client's, nothing twice, nothing left out.                   *)
InOrder ==
  /\ \A i \in DOMAIN visited : visited[i] = sent[i] /\ visited[i] # Quit
  /\ spc = "recv" => Len(visited) = got

(* A client that waits is accepted once the one before has gone, whatever  *)
(* that one left unread or unsaid, unless the process has ended.           *)
NextServed == (waiting > 0 /\ link # "up") ~> (link = "up" \/ spc = "exited")
=============================================================================
