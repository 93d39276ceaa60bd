----------------------------- MODULE Controller -----------------------------
(***************************************************************************)
(* The running controller: clients, the command server, and behind it the  *)
(* visitor and the ignition monitor of Ignition.  A command is a byte that *)
(* was received; the threads run until main returns or throws, or the      *)
(* process is killed, and the pins then stay as they are.                  *)
(***************************************************************************)
EXTENDS Ignition, CommandServer

ASSUME ControllerAssumption == Typed = Received

ctlVars == <<vars, serverVars>>

CtlInit == Init /\ ServerInit

Alive == spc # "exited"

(* The first step of visitCommand, for each kind of byte.                  *)
VisitFirst ==
  \/ DriverCommand(cmd)
  \/ cmd = START_IGNITION /\ StartIgnition
  \/ cmd = STOP_IGNITION /\ StopIgnition
  \/ cmd \notin DriverCommands \union {START_IGNITION, STOP_IGNITION} /\ UNCHANGED vars

Visit == VisitBegins /\ VisitFirst

(* Mutant: main does not wait for the visitor.                             *)
ReturnAtOnce == VisitReturns /\ UNCHANGED vars

Return == wpc = "recv" /\ VisitReturns /\ UNCHANGED vars

EndSession(ok) == CloseConn(ok) /\ UNCHANGED vars

(* What main does whenever it can, and what may fail it.                   *)
Serve ==
  \/ Visit \/ Return
  \/ (Accept \/ RecvByte \/ Disconnected) /\ UNCHANGED vars
  \/ \E ok \in BOOLEAN :
       EndSession(ok) \/ ((OpenListener(ok) \/ Listen(ok)) /\ UNCHANGED vars)

Fails == (AcceptFails \/ RecvFails) /\ UNCHANGED vars

MonitorRuns == Alive /\ Monitor /\ UNCHANGED serverVars
CommandRuns == Alive /\ FinishCommand /\ UNCHANGED serverVars
TimePasses  == Alive /\ Tick /\ UNCHANGED serverVars
Samples     == Alive /\ (\E beyond \in BOOLEAN : PtSample(beyond)) /\ UNCHANGED serverVars

(* The operator's SIGINT, or any other signal: nothing in the program      *)
(* handles one, so it ends wherever its threads are.                       *)
Killed ==
  /\ Alive
  /\ spc' = "exited"
  /\ UNCHANGED <<vars, socketVars, kernelVars, visited>>

CtlNext ==
  \/ Serve \/ Fails
  \/ Clients /\ UNCHANGED vars
  \/ MonitorRuns \/ CommandRuns \/ TimePasses \/ Samples
  \/ Killed

(* main, the monitor and the clock go on; nobody need connect, send or     *)
(* hang up, and nothing need fail.                                         *)
CtlSpec ==
  /\ CtlInit /\ [][CtlNext]_ctlVars
  /\ WF_ctlVars(Serve) /\ WF_ctlVars(CommandRuns)
  /\ WF_ctlVars(MonitorRuns) /\ WF_ctlVars(TimePasses)
-----------------------------------------------------------------------------
(* Properties.                                                             *)

(* A stop that a client sends, with no '0' before it, is carried out,      *)
(* unless a failing call ends its session or the process ends before.      *)
StopSent ==
  \E i \in (got + 1)..Len(sent) :
    sent[i] = STOP_IGNITION /\ \A j \in (got + 1)..i : sent[j] # Quit
StopGetsThrough == StopSent ~> (lastCmd = "stop" \/ link = "none" \/ ~Alive)

(* A burn ends with its pins released also when its client has gone and    *)
(* nobody else ever connects, unless the process itself ends.              *)
BurnEndsAlone == (mpc = "begin") ~> ((mpc = "wait" /\ byBurn = {}) \/ ~Alive)

(* A stop on its way, in the connection or taken and about to be carried   *)
(* out, stays on its way until it is carried out, whatever its client and  *)
(* others do: a client that hangs up after it loses none.  Only a failing  *)
(* call of main's and the end of the process discard it.                   *)
StopComing == StopSent \/ (spc = "visit" /\ cmd = STOP_IGNITION)
StopKept ==
  [][ StopComing /\ spc # "close" =>
        (StopComing' /\ spc' # "close") \/ lastCmd' = "stop" \/ Fails \/ ~Alive' ]_ctlVars

(* What NextServed rests on: when a client has gone, each step of main's,  *)
(* and of the command it is in, brings the end of the session nearer, and  *)
(* nobody puts it off.  Five steps are enough for a byte: recv, the call,  *)
(* two pins, the return.                                                   *)
StepsInPlace ==
  IF spc = "close" THEN 1
  ELSE IF spc = "recv" THEN 2
  ELSE IF spc = "visiting" THEN
    IF wpc = "recv" THEN 3 ELSE IF wpc = "stopMain" THEN 5 ELSE 4
  ELSE IF spc = "visit" THEN 6
  ELSE 0
SessionLeft == 5 * (Len(sent) - got) + StepsInPlace
SessionRunsOut ==
  [][ link = "closed" =>
        SessionLeft' < SessionLeft \/ UNCHANGED <<spc, wpc, link, sent, got>> ]_ctlVars
-----------------------------------------------------------------------------
(* The inductive invariants behind the server's properties.                *)

Unconnected == {"socket", "listen", "accept"}
InSession   == {"recv", "visit", "visiting", "close"}

SocketInv ==
  /\ spc \in Unconnected =>
       fds = 0 /\ fd = -1 /\ got = 0 /\ sent = << >> /\ visited = << >> /\ link = "none"
  /\ spc \in InSession => fds = 1 /\ fd = 1
  /\ spc \in InSession \ {"close"} => open
  /\ spc \in InSession \union {"accept"} => listening
  /\ fds <= 1

(* What has been visited, at each point of main's way round a session.     *)
VisitedInv ==
  /\ Len(visited) <= Len(sent)
  /\ \A i \in 1..Len(visited) : visited[i] = sent[i] /\ visited[i] # Quit
  /\ spc \in {"recv", "visiting"} => Len(visited) = got
  /\ spc = "visit" => got > 0 /\ Len(visited) = got - 1 /\ sent[got] # Quit

(* The command thread is inside a command only while main waits for it, or *)
(* where the end of the process left it.                                   *)
WaitInv == spc \notin {"visiting", "exited"} => wpc = "recv"

ServerInv == ServerTypeOK /\ SocketInv /\ VisitedInv
=============================================================================
