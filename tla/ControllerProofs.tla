-------------------------- MODULE ControllerProofs --------------------------
(***************************************************************************)
(* Proofs about the composition: the controller keeps all that Ignition    *)
(* keeps, and the command server keeps its sockets and its order.          *)
(***************************************************************************)
EXTENDS Controller, IgnitionProofs

(* What a step of main or a client does not touch, and what it waits for.  *)
LEMMA VisitSteps ==
  ASSUME ControllerAssumption, sent[got] \in Typed, Visit
  PROVE  [Next]_vars
BY DEF Visit, VisitFirst, ControllerAssumption, cmd, Next, Worker

LEMMA StepKeepsIgnition ==
  ASSUME ControllerAssumption, ServerInv, [CtlNext]_ctlVars
  PROVE  [Next]_vars
<1>1. CASE Visit
  <2>1. sent[got] \in Typed
    BY <1>1 DEF Visit, VisitBegins, ServerInv, ServerTypeOK, VisitedInv
  <2> QED
    BY <1>1, <2>1, VisitSteps
<1>2. CASE MonitorRuns \/ CommandRuns \/ TimePasses \/ Samples
  BY <1>2 DEF MonitorRuns, CommandRuns, TimePasses, Samples, Next, Worker
<1>3. CASE UNCHANGED vars
  BY <1>3
<1>4. CASE UNCHANGED ctlVars
  BY <1>4 DEF ctlVars
<1> QED
  BY <1>1, <1>2, <1>3, <1>4 DEF CtlNext, Serve, Fails, Return, EndSession, Killed
-----------------------------------------------------------------------------
LEMMA ServerInitHolds == ServerInit => ServerInv
<1> SUFFICES ASSUME ServerInit PROVE ServerInv
  OBVIOUS
<1>1. ServerTypeOK
  <2>1. << >> \in Seq(Typed) /\ Len(<< >>) = 0
    OBVIOUS
  <2>2. sent \in Seq(Typed) /\ visited \in Seq(Typed)
    BY <2>1, Zenon DEF ServerInit
  <2>3. /\ spc = "socket" /\ ~listening /\ ~open /\ fd = -1 /\ fds = 0
        /\ link = "none" /\ got = 0 /\ Len(sent) = 0
    BY <2>1 DEF ServerInit
  <2>4. waiting \in 0..MaxWaiting
    BY ServerAssumption DEF ServerInit, ServerAssumption, TCP_BACKLOG
  <2> QED
    <3>1. got \in 0..Len(sent)
      BY <2>3
    <3>2. listening \in BOOLEAN /\ open \in BOOLEAN
      BY DEF ServerInit
    <3> QED
      BY <2>2, <2>3, <2>4, <3>1, <3>2 DEF ServerTypeOK
<1>2. SocketInv
  BY DEF ServerInit, SocketInv, Unconnected, InSession
<1>3. VisitedInv
  BY DEF ServerInit, VisitedInv
<1> QED
  BY <1>1, <1>2, <1>3 DEF ServerInv

(* The clients only add to what is yet to be received.                     *)
LEMMA ClientsKeep == ServerInv /\ Clients => ServerInv'
<1> SUFFICES ASSUME ServerInv, Clients PROVE ServerInv'
  OBVIOUS
<1> USE DEF socketVars
<1>1. CASE Connect
  <2> USE <1>1 DEF Connect
  <2>1. ServerTypeOK'
    BY ServerAssumption DEF ServerInv, ServerTypeOK, ServerAssumption, TCP_BACKLOG
  <2>2. SocketInv' /\ VisitedInv'
    BY DEF ServerInv, SocketInv, VisitedInv
  <2> QED
    BY <2>1, <2>2 DEF ServerInv
<1>2. CASE Hangup
  <2> USE <1>2 DEF Hangup
  <2>1. ServerTypeOK'
    BY DEF ServerInv, ServerTypeOK
  <2>2. SocketInv' /\ VisitedInv'
    BY DEF ServerInv, SocketInv, VisitedInv, Unconnected
  <2> QED
    BY <2>1, <2>2 DEF ServerInv
<1>3. ASSUME NEW b \in Typed, Send(b) PROVE ServerInv'
  <2>1. /\ link = "up" /\ sent' = Append(sent, b) /\ sent \in Seq(Typed)
        /\ UNCHANGED <<spc, listening, fd, open, waiting, link, got, fds, visited>>
    BY <1>3 DEF Send, ServerInv, ServerTypeOK
  <2>2. /\ sent' \in Seq(Typed) /\ Len(sent') = Len(sent) + 1
        /\ \A i \in 1..Len(sent) : sent'[i] = sent[i]
    BY <2>1
  <2>3. ServerTypeOK'
    BY <2>1, <2>2 DEF ServerInv, ServerTypeOK
  <2>4. SocketInv'
    BY <2>1 DEF ServerInv, SocketInv, Unconnected
  <2>5. VisitedInv'
    BY <2>1, <2>2 DEF ServerInv, ServerTypeOK, VisitedInv
  <2> QED
    BY <2>3, <2>4, <2>5 DEF ServerInv
<1> QED
  BY <1>1, <1>2, <1>3 DEF Clients
-----------------------------------------------------------------------------
(* main opens the listener, accepts, and fails at either.                  *)
LEMMA ListenerKeeps ==
  ASSUME ServerInv, NEW ok \in BOOLEAN,
         OpenListener(ok) \/ Listen(ok) \/ AcceptFails \/ RecvFails
  PROVE  ServerInv'
<1>1. /\ UNCHANGED <<fd, open, waiting, link, sent, got, fds, visited>>
      /\ listening' \in BOOLEAN
      /\ \/ spc \in {"socket", "listen", "accept"} /\ spc' = "exited"
         \/ spc = "socket" /\ spc' = "listen"
         \/ spc = "listen" /\ spc' = "accept" /\ listening'
         \/ spc = "recv" /\ spc' = "close" /\ listening' = listening
  BY DEF ServerInv, ServerTypeOK, OpenListener, Listen, AcceptFails, RecvFails,
     socketVars, kernelVars
<1>2. ServerTypeOK'
  BY <1>1 DEF ServerInv, ServerTypeOK
<1>3. SocketInv'
  BY <1>1 DEF ServerInv, SocketInv, Unconnected, InSession
<1>4. VisitedInv'
  BY <1>1 DEF ServerInv, VisitedInv
<1> QED
  BY <1>2, <1>3, <1>4 DEF ServerInv

LEMMA AcceptKeeps == ServerInv /\ Accept => ServerInv'
<1> SUFFICES ASSUME ServerInv, Accept PROVE ServerInv'
  OBVIOUS
<1>1. /\ spc = "accept" /\ spc' = "recv" /\ waiting > 0 /\ waiting' = waiting - 1
      /\ fd' = fds + 1 /\ open' = TRUE /\ fds' = fds + 1 /\ link' = "up"
      /\ listening /\ UNCHANGED <<listening, sent, got, visited>>
  BY DEF Accept
<1>2. fds = 0 /\ got = 0 /\ sent = << >> /\ visited = << >>
  BY <1>1 DEF ServerInv, SocketInv, Unconnected
<1>3. waiting' \in 0..MaxWaiting
  BY <1>1, ServerAssumption DEF ServerInv, ServerTypeOK, ServerAssumption, TCP_BACKLOG
<1>4. ServerTypeOK'
  BY <1>1, <1>2, <1>3 DEF ServerInv, ServerTypeOK
<1>5. SocketInv'
  BY <1>1, <1>2 DEF ServerInv, SocketInv, Unconnected, InSession
<1>6. VisitedInv'
  BY <1>1, <1>2 DEF VisitedInv
<1> QED
  BY <1>4, <1>5, <1>6 DEF ServerInv

(* A session: a byte, its visit, the end of the stream.                    *)
LEMMA RecvKeeps == ServerInv /\ RecvByte => ServerInv'
<1> SUFFICES ASSUME ServerInv, RecvByte PROVE ServerInv'
  OBVIOUS
<1>1. /\ spc = "recv" /\ open /\ got < Len(sent) /\ got' = got + 1
      /\ spc' = IF sent[got'] = Quit THEN "close" ELSE "visit"
      /\ UNCHANGED <<listening, fd, open, waiting, link, sent, fds, visited>>
  BY DEF RecvByte, socketVars
<1>2. /\ sent \in Seq(Typed) /\ visited \in Seq(Typed) /\ got \in 0..Len(sent)
      /\ Len(visited) = got
  BY <1>1 DEF ServerInv, ServerTypeOK, VisitedInv
<1>3. ServerTypeOK'
  BY <1>1, <1>2 DEF ServerInv, ServerTypeOK
<1>4. SocketInv'
  BY <1>1 DEF ServerInv, SocketInv, Unconnected, InSession
<1>5. VisitedInv'
  BY <1>1, <1>2 DEF ServerInv, VisitedInv
<1> QED
  BY <1>3, <1>4, <1>5 DEF ServerInv

LEMMA VisitKeeps == ServerInv /\ VisitBegins => ServerInv'
<1> SUFFICES ASSUME ServerInv, VisitBegins PROVE ServerInv'
  OBVIOUS
<1>1. /\ spc = "visit" /\ spc' = "visiting" /\ visited' = Append(visited, sent[got])
      /\ UNCHANGED <<listening, fd, open, waiting, link, sent, got, fds>>
  BY DEF VisitBegins, cmd, socketVars, kernelVars
<1>2. /\ sent \in Seq(Typed) /\ visited \in Seq(Typed) /\ got \in 1..Len(sent)
      /\ Len(visited) = got - 1 /\ sent[got] # Quit
      /\ \A i \in 1..Len(visited) : visited[i] = sent[i] /\ visited[i] # Quit
  BY <1>1 DEF ServerInv, ServerTypeOK, VisitedInv
<1>3. sent[got] \in Typed
  BY <1>2
<1>4. /\ visited' \in Seq(Typed) /\ Len(visited') = got
      /\ \A i \in 1..got : visited'[i] = IF i = got THEN sent[got] ELSE visited[i]
  BY <1>1, <1>2, <1>3
<1>5. ServerTypeOK'
  BY <1>1, <1>4 DEF ServerInv, ServerTypeOK
<1>6. SocketInv'
  BY <1>1 DEF ServerInv, SocketInv, Unconnected, InSession
<1>7. VisitedInv'
  BY <1>1, <1>2, <1>4 DEF VisitedInv
<1> QED
  BY <1>5, <1>6, <1>7 DEF ServerInv

LEMMA ReturnKeeps == ServerInv /\ (VisitReturns \/ Disconnected) => ServerInv'
<1> SUFFICES ASSUME ServerInv, VisitReturns \/ Disconnected PROVE ServerInv'
  OBVIOUS
<1>1. /\ UNCHANGED <<listening, fd, waiting, link, sent, got, fds, visited>>
      /\ open' \in BOOLEAN
      /\ \/ spc = "visiting" /\ spc' = "recv" /\ open' = open
         \/ spc = "recv" /\ spc' = "close"
  BY DEF VisitReturns, Disconnected, ServerInv, ServerTypeOK, socketVars, kernelVars
<1>2. ServerTypeOK'
  BY <1>1 DEF ServerInv, ServerTypeOK
<1>3. SocketInv'
  BY <1>1 DEF ServerInv, SocketInv, Unconnected, InSession
<1>4. VisitedInv'
  BY <1>1 DEF ServerInv, VisitedInv
<1> QED
  BY <1>2, <1>3, <1>4 DEF ServerInv

LEMMA CloseKeeps ==
  ASSUME ServerInv, NEW ok \in BOOLEAN, CloseConn(ok)
  PROVE  ServerInv'
<1>1. /\ spc = "close" /\ fds = 1 /\ fd = 1 /\ listening
      /\ spc' = IF ok THEN "accept" ELSE "exited"
      /\ open' = FALSE /\ UNCHANGED <<listening, waiting>>
      /\ fd' = IF ok THEN -1 ELSE 1
      /\ fds' = IF ok THEN 0 ELSE 1
      /\ link' = "none" /\ sent' = << >> /\ got' = 0 /\ visited' = << >>
  BY DEF CloseConn, ServerInv, SocketInv, InSession
<1>2. << >> \in Seq(Typed) /\ Len(<< >>) = 0
  OBVIOUS
<1>3. ServerTypeOK'
  <2>1. sent' \in Seq(Typed) /\ visited' \in Seq(Typed)
    BY <1>1, <1>2, Zenon
  <2>2. /\ got' \in 0..Len(sent') /\ fd' \in Int /\ fds' \in Nat
        /\ spc' \in {"accept", "exited"} /\ open' = FALSE /\ link' = "none"
        /\ UNCHANGED <<listening, waiting>>
    BY <1>1, <1>2
  <2> QED
    BY <2>1, <2>2 DEF ServerInv, ServerTypeOK
<1>4. SocketInv'
  BY <1>1 DEF SocketInv, Unconnected, InSession
<1>5. VisitedInv'
  BY <1>1, <1>2 DEF VisitedInv
<1> QED
  BY <1>3, <1>4, <1>5 DEF ServerInv

(* A kill leaves everything of the process as it was, but the process.     *)
LEMMA KillKeeps == ServerInv /\ Killed => ServerInv'
<1> SUFFICES ASSUME ServerInv, Killed PROVE ServerInv'
  OBVIOUS
<1>1. /\ spc' = "exited"
      /\ UNCHANGED <<listening, fd, open, waiting, link, sent, got, fds, visited>>
  BY DEF Killed, socketVars, kernelVars
<1>2. ServerTypeOK'
  BY <1>1 DEF ServerInv, ServerTypeOK
<1>3. SocketInv' /\ VisitedInv'
  BY <1>1 DEF ServerInv, SocketInv, VisitedInv, Unconnected, InSession
<1> QED
  BY <1>2, <1>3 DEF ServerInv

LEMMA ServerKeeps == ServerInv /\ [CtlNext]_ctlVars => ServerInv'
<1> SUFFICES ASSUME ServerInv, [CtlNext]_ctlVars PROVE ServerInv'
  OBVIOUS
<1>1. CASE UNCHANGED serverVars
  <2> USE <1>1 DEF serverVars, socketVars, kernelVars
  <2>1. ServerTypeOK'
    BY DEF ServerInv, ServerTypeOK
  <2>2. SocketInv' /\ VisitedInv'
    BY DEF ServerInv, SocketInv, VisitedInv
  <2> QED
    BY <2>1, <2>2 DEF ServerInv
<1>2. CASE Serve
  BY <1>2, ListenerKeeps, AcceptKeeps, RecvKeeps, VisitKeeps, ReturnKeeps, CloseKeeps
     DEF Serve, Visit, Return, EndSession
<1>3. CASE Fails
  BY <1>3, ListenerKeeps DEF Fails
<1>4. CASE Clients
  BY <1>4, ClientsKeep
<1>5. CASE Killed
  BY <1>5, KillKeeps
<1> QED
  BY <1>1, <1>2, <1>3, <1>4, <1>5
     DEF CtlNext, MonitorRuns, CommandRuns, TimePasses, Samples, ctlVars
-----------------------------------------------------------------------------
(* main waits until a command is carried out, unless the process ends.     *)
LEMMA WaitKeeps == WaitInv /\ [CtlNext]_ctlVars => WaitInv'
<1> SUFFICES ASSUME WaitInv, [CtlNext]_ctlVars PROVE WaitInv'
  OBVIOUS
<1>1. CASE Visit
  BY <1>1 DEF Visit, VisitBegins, WaitInv
<1>2. CASE Return
  BY <1>2 DEF Return, VisitReturns, WaitInv, vars, programVars
<1>3. CASE spc \notin {"visiting", "exited"} /\ UNCHANGED vars
  BY <1>3 DEF WaitInv, vars, programVars
<1>4. CASE MonitorRuns \/ TimePasses \/ Samples
  <2>1. UNCHANGED <<wpc, spc>>
    BY <1>4 DEF MonitorRuns, TimePasses, Samples, serverVars, Monitor, PollIdle,
       PollStart, BeginBurn, LightIgniter, TimerEnds, OpenMainValve, Opens,
       KeepMainValve, CutoffEnds, NoCutoff, StopEnds, GoOn, SampleTime, Sample,
       CloseMainValve, CloseIgniter, CloseLast, Close, ClearIgnition, Clear, LeaveLoop,
       Pass, Doze, MonitorGoto, Tick, PtSample
  <2> QED
    BY <2>1 DEF WaitInv
<1>5. CASE CommandRuns
  <2>1. wpc # "recv" /\ spc # "exited" /\ spc' = spc
    BY <1>5 DEF CommandRuns, FinishCommand, ResetShutoff, StopMainValve, StopIgniter,
       WorkerGoto, serverVars, Alive
  <2> QED
    BY <2>1 DEF WaitInv
<1>6. CASE Clients /\ UNCHANGED vars
  BY <1>6 DEF Clients, Connect, Hangup, Send, WaitInv, vars, programVars
<1>7. CASE UNCHANGED ctlVars
  BY <1>7 DEF ctlVars, vars, programVars, serverVars, WaitInv
<1>8. CASE Serve
  BY <1>1, <1>2, <1>3, <1>8 DEF Serve, Accept, RecvByte, Disconnected, EndSession,
     CloseConn, OpenListener, Listen
<1>9. CASE Fails
  BY <1>3, <1>9 DEF Fails, AcceptFails, RecvFails
<1>10. CASE Killed
  BY <1>10 DEF Killed, WaitInv
<1> QED
  BY <1>4, <1>5, <1>6, <1>7, <1>8, <1>9, <1>10 DEF CtlNext
-----------------------------------------------------------------------------
(* The inductive invariant of the sockets and of what has been visited.    *)
THEOREM ServerInvariance == CtlSpec => []ServerInv
BY ServerInitHolds, ServerKeeps, PTL DEF CtlSpec, CtlInit

(* Every variable of the server keeps its type.                            *)
THEOREM ServerTypeCorrect == CtlSpec => []ServerTypeOK
BY ServerInvariance, PTL DEF ServerInv

(* main never uses a socket that is not ready.                             *)
THEOREM SocketsReady == CtlSpec => []NeverBadSocket
<1>1. ServerInv => NeverBadSocket
  BY DEF ServerInv, SocketInv, InSession, NeverBadSocket
<1> QED
  BY <1>1, ServerInvariance, PTL

(* No session leaves a descriptor behind.                                  *)
THEOREM DescriptorsReturned == CtlSpec => []NoLeak
<1>1. ServerInv => NoLeak
  BY DEF ServerInv, SocketInv, Unconnected, NoLeak
<1> QED
  BY <1>1, ServerInvariance, PTL

(* The visitor is given the client's bytes in order, up to the first '0'.  *)
THEOREM BytesInOrder == CtlSpec => []InOrder
<1>1. ServerInv => InOrder
  BY DEF ServerInv, ServerTypeOK, VisitedInv, InOrder
<1> QED
  BY <1>1, ServerInvariance, PTL

(* The server only chooses among the steps of Ignition, so its theorems    *)
(* carry over.                                                             *)
LEMMA Composed == CtlSpec => Spec
BY ServerInvariance, StepKeepsIgnition, ControllerAssumption, PTL
   DEF CtlSpec, CtlInit, Spec

(* So, whatever clients send, however sessions end and fail, a burn is     *)
(* bounded, ends on a standing stop or cutoff, and leaves no pin up behind *)
(* it; and from the second burn on it opens the valve when it is time.     *)
THEOREM ControllerBurns ==
  CtlSpec => [](/\ BurnBounded /\ StopEndsBurn /\ CutoffEndsBurn
                /\ NothingOutlivesBurn /\ MainOpenTracksBurn
                /\ LightWindow /\ OpensByThen)
BY Composed, BurnIsBounded, StopEnding, CutoffEnding, NothingIsLeftUp,
   MainOpenIsTrue, LitInTime, OpensSoon, PTL

(* Every burn behind the server is a burn of BurnCycle, which opens the    *)
(* valve at most once and in time; a start is lit in time, and the timer   *)
(* ends no burn early but for the wraps that TimerNotEarly names.          *)
THEOREM ControllerIsBurnCycle ==
  CtlSpec => BurnRefined /\ OpensAfterPreignite /\ LightsInTime /\ TimerNotEarly
BY Composed, Refinement, OpensInTime, LitInTime, TimerKeepsTime
-----------------------------------------------------------------------------
(* A stop on its way.                                                      *)

(* What was sent and how much of it was received decide whether one is.    *)
LEMMA SameBytes ==
  ASSUME StopSent, UNCHANGED <<sent, got>>
  PROVE  StopSent'
BY DEF StopSent

(* What clients send after it leaves it in its place.                      *)
LEMMA SendKeepsStop ==
  ASSUME ServerInv, StopSent, NEW b \in Typed, Send(b)
  PROVE  StopSent'
<1>1. /\ sent \in Seq(Typed) /\ sent' = Append(sent, b) /\ got' = got
      /\ got \in 0..Len(sent)
  BY DEF Send, ServerInv, ServerTypeOK
<1>2. PICK i \in (got + 1)..Len(sent) :
        sent[i] = STOP_IGNITION /\ \A j \in (got + 1)..i : sent[j] # Quit
  BY DEF StopSent
<1>3. /\ i \in (got + 1)..Len(sent')
      /\ \A j \in (got + 1)..i : sent'[j] = sent[j]
  BY <1>1
<1> QED
  BY <1>1, <1>2, <1>3 DEF StopSent

(* recv takes it, or a byte before it.                                     *)
LEMMA RecvKeepsStop ==
  ASSUME ServerInv, StopSent, RecvByte
  PROVE  StopComing' /\ spc' # "close"
<1>1. /\ sent' = sent /\ got' = got + 1 /\ got \in 0..Len(sent)
      /\ spc' = IF sent[got + 1] = Quit THEN "close" ELSE "visit"
  BY DEF RecvByte, ServerInv, ServerTypeOK
<1>2. PICK i \in (got + 1)..Len(sent) :
        sent[i] = STOP_IGNITION /\ \A j \in (got + 1)..i : sent[j] # Quit
  BY DEF StopSent
<1>3. spc' = "visit"
  BY <1>1, <1>2
<1>4. CASE i = got + 1
  BY <1>1, <1>2, <1>3, <1>4 DEF StopComing, cmd
<1>5. CASE i # got + 1
  <2>1. i \in (got' + 1)..Len(sent') /\ \A j \in (got' + 1)..i : sent'[j] # Quit
    BY <1>1, <1>2, <1>5
  <2>2. StopSent'
    BY <1>1, <1>2, <2>1 DEF StopSent
  <2> QED
    BY <1>3, <2>2 DEF StopComing
<1> QED
  BY <1>4, <1>5

(* The visitor carries it out, or what came before it.                     *)
LEMMA VisitKeepsStop ==
  ASSUME StopComing, Visit
  PROVE  (StopComing' /\ spc' # "close") \/ lastCmd' = "stop"
<1>1. spc' = "visiting" /\ UNCHANGED <<sent, got>>
  BY DEF Visit, VisitBegins, kernelVars
<1>2. CASE StopSent
  BY <1>1, <1>2, SameBytes DEF StopComing
<1>3. CASE cmd = STOP_IGNITION
  <2>1. cmd \notin DriverCommands /\ cmd # START_IGNITION
    BY <1>3 DEF DriverCommands, STOP_IGNITION, START_IGNITION
  <2>2. StopIgnition
    BY <1>3, <2>1 DEF Visit, VisitFirst, DriverCommand
  <2> QED
    BY <2>2 DEF StopIgnition
<1> QED
  BY <1>2, <1>3 DEF StopComing

(* Every other step of main leaves it where it is; before a session and    *)
(* when all has been received there is none.                               *)
LEMMA ServeKeepsStop ==
  ASSUME ServerInv, StopComing, spc # "close", Serve
  PROVE  (StopComing' /\ spc' # "close") \/ lastCmd' = "stop"
<1>1. CASE Visit
  BY <1>1, VisitKeepsStop
<1>2. CASE RecvByte
  <2>1. StopSent
    BY <1>2 DEF StopComing, RecvByte
  <2> QED
    BY <1>2, <2>1, RecvKeepsStop
<1>3. CASE Return
  <2>1. StopSent /\ spc' = "recv" /\ UNCHANGED <<sent, got>>
    BY <1>3 DEF Return, VisitReturns, StopComing, kernelVars
  <2> QED
    BY <2>1, SameBytes DEF StopComing
<1>4. CASE Disconnected
  <2>1. spc = "recv" /\ got = Len(sent) /\ sent \in Seq(Typed)
    BY <1>4 DEF Disconnected, ServerInv, ServerTypeOK
  <2>2. ~StopSent
    BY <2>1 DEF StopSent
  <2> QED
    BY <2>1, <2>2 DEF StopComing
<1>5. CASE spc \in {"socket", "listen", "accept"}
  <2>1. got = 0 /\ Len(sent) = 0
    BY <1>5 DEF ServerInv, SocketInv, Unconnected
  <2>2. ~StopSent
    BY <2>1 DEF StopSent
  <2> QED
    BY <1>5, <2>2 DEF StopComing
<1>6. ASSUME NEW ok \in BOOLEAN, EndSession(ok) PROVE FALSE
  BY <1>6 DEF EndSession, CloseConn
<1> QED
  BY <1>1, <1>2, <1>3, <1>4, <1>5, <1>6 DEF Serve, Accept, OpenListener, Listen

LEMMA StopStays ==
  ASSUME ServerInv, [CtlNext]_ctlVars, StopComing, spc # "close"
  PROVE  (StopComing' /\ spc' # "close") \/ lastCmd' = "stop" \/ Fails \/ ~Alive'
<1>1. CASE Serve
  BY <1>1, ServeKeepsStop
<1>2. ASSUME UNCHANGED <<spc, sent, got>>
      PROVE  StopComing' /\ spc' # "close"
  BY <1>2, SameBytes DEF StopComing, cmd
<1>3. CASE Clients
  <2>1. CASE Connect \/ Hangup
    BY <1>2, <2>1 DEF Connect, Hangup
  <2>2. ASSUME NEW b \in Typed, Send(b) PROVE StopComing' /\ spc' # "close"
    <3>1. /\ spc' = spc /\ got' = got /\ sent' = Append(sent, b)
          /\ sent \in Seq(Typed) /\ got \in 0..Len(sent)
      BY <2>2 DEF Send, ServerInv, ServerTypeOK
    <3>2. CASE StopSent
      BY <2>2, <3>1, <3>2, SendKeepsStop DEF StopComing
    <3>3. CASE spc = "visit" /\ cmd = STOP_IGNITION
      <4>1. got > 0
        BY <3>3 DEF ServerInv, VisitedInv
      <4>2. sent'[got] = sent[got]
        BY <3>1, <4>1
      <4> QED
        BY <3>1, <3>3, <4>2 DEF StopComing, cmd
    <3> QED
      BY <3>2, <3>3 DEF StopComing
  <2> QED
    BY <1>3, <2>1, <2>2 DEF Clients
<1>4. CASE MonitorRuns \/ CommandRuns \/ TimePasses \/ Samples \/ UNCHANGED ctlVars
  BY <1>2, <1>4 DEF MonitorRuns, CommandRuns, TimePasses, Samples, ctlVars,
     serverVars, kernelVars
<1>5. CASE Killed
  BY <1>5 DEF Killed, Alive
<1> QED
  BY <1>1, <1>3, <1>4, <1>5 DEF CtlNext

(* A stop sent before any '0' is carried out unless a call of main's fails *)
(* or the process ends: no other step, and no client that hangs up, takes  *)
(* it away.                                                                *)
THEOREM StopsKept == CtlSpec => StopKept
<1>1. ServerInv /\ [CtlNext]_ctlVars =>
        [ StopComing /\ spc # "close" =>
            (StopComing' /\ spc' # "close") \/ lastCmd' = "stop" \/ Fails \/ ~Alive' ]_ctlVars
  BY StopStays
<1> QED
  BY <1>1, ServerInvariance, PTL DEF CtlSpec, StopKept
-----------------------------------------------------------------------------
(* A session whose client has gone.                                        *)
LEMMA ServeShortens ==
  ASSUME ServerInv, WaitInv, link = "closed", Serve
  PROVE  SessionLeft' < SessionLeft
<1>1. /\ spc \notin Unconnected
      /\ Len(sent) \in Nat /\ got \in 0..Len(sent)
  BY DEF ServerInv, ServerTypeOK, SocketInv
<1>2. CASE Visit
  <2>1. /\ spc = "visit" /\ spc' = "visiting" /\ UNCHANGED <<sent, got>>
    BY <1>2 DEF Visit, VisitBegins, kernelVars
  <2> QED
    BY <1>1, <2>1 DEF SessionLeft, StepsInPlace
<1>3. CASE Return
  <2>1. /\ spc = "visiting" /\ wpc = "recv" /\ spc' = "recv" /\ UNCHANGED <<sent, got>>
    BY <1>3 DEF Return, VisitReturns, kernelVars
  <2> QED
    BY <1>1, <2>1 DEF SessionLeft, StepsInPlace
<1>4. CASE RecvByte
  <2>1. /\ spc = "recv" /\ spc' \in {"close", "visit"} /\ sent' = sent /\ got' = got + 1
    BY <1>4 DEF RecvByte
  <2>2. StepsInPlace = 2 /\ StepsInPlace' \in {1, 6}
    BY <2>1 DEF StepsInPlace
  <2> QED
    BY <1>1, <2>1, <2>2 DEF SessionLeft
<1>5. CASE Disconnected
  <2>1. /\ spc = "recv" /\ spc' = "close" /\ UNCHANGED <<sent, got>>
    BY <1>5 DEF Disconnected, kernelVars
  <2> QED
    BY <1>1, <2>1 DEF SessionLeft, StepsInPlace
<1>6. ASSUME NEW ok \in BOOLEAN, EndSession(ok) PROVE SessionLeft' < SessionLeft
  <2>1. /\ spc = "close" /\ spc' \in {"accept", "exited"} /\ sent' = << >> /\ got' = 0
    BY <1>6 DEF EndSession, CloseConn
  <2>2. SessionLeft' = 0
    BY <2>1 DEF SessionLeft, StepsInPlace
  <2> QED
    BY <1>1, <2>1, <2>2 DEF SessionLeft, StepsInPlace
<1> QED
  BY <1>1, <1>2, <1>3, <1>4, <1>5, <1>6
     DEF Serve, Accept, OpenListener, Listen, Unconnected

LEMMA SessionShortens ==
  ASSUME ServerInv, WaitInv, link = "closed", [CtlNext]_ctlVars
  PROVE  SessionLeft' < SessionLeft \/ UNCHANGED <<spc, wpc, link, sent, got>>
<1>1. /\ spc \notin Unconnected
      /\ Len(sent) \in Nat /\ got \in 0..Len(sent)
  BY DEF ServerInv, ServerTypeOK, SocketInv
<1>2. CASE Fails
  <2>1. /\ spc = "recv" /\ spc' = "close" /\ UNCHANGED <<sent, got>>
    BY <1>1, <1>2 DEF Fails, AcceptFails, RecvFails, Unconnected, kernelVars
  <2> QED
    BY <1>1, <2>1 DEF SessionLeft, StepsInPlace
<1>3. CASE CommandRuns
  <2>1. /\ UNCHANGED <<spc, sent, got>>
        /\ \/ wpc \in {"doIgn", "stopIgn"} /\ wpc' = "recv"
           \/ wpc = "stopMain" /\ wpc' = "stopIgn"
    BY <1>3 DEF CommandRuns, FinishCommand, ResetShutoff, StopMainValve, StopIgniter,
       WorkerGoto, serverVars, kernelVars
  <2>2. spc = "visiting"
    BY <1>3, <2>1 DEF WaitInv, CommandRuns, Alive
  <2> QED
    BY <1>1, <2>1, <2>2 DEF SessionLeft, StepsInPlace
<1>4. CASE MonitorRuns \/ TimePasses \/ Samples
  BY <1>4 DEF MonitorRuns, TimePasses, Samples, serverVars, kernelVars, Monitor,
     PollIdle, PollStart, BeginBurn, LightIgniter, TimerEnds, OpenMainValve, Opens,
     KeepMainValve, CutoffEnds, NoCutoff, StopEnds, GoOn, SampleTime, Sample,
     CloseMainValve, CloseIgniter, CloseLast, Close, ClearIgnition, Clear, LeaveLoop,
     Pass, Doze, MonitorGoto, Tick, PtSample
<1>5. CASE Clients /\ UNCHANGED vars
  BY <1>5 DEF Clients, Connect, Hangup, Send, vars, programVars
<1>6. CASE UNCHANGED ctlVars
  BY <1>6 DEF ctlVars, vars, programVars, serverVars, kernelVars
<1>7. CASE Serve
  BY <1>7, ServeShortens
<1>8. CASE Killed
  <2>1. /\ spc' = "exited" /\ spc \in InSession /\ UNCHANGED <<wpc, sent, got>>
    BY <1>1, <1>8 DEF Killed, Alive, ServerInv, ServerTypeOK, Unconnected, InSession,
       kernelVars, vars, programVars
  <2>2. StepsInPlace' = 0 /\ StepsInPlace \in 1..6
    BY <2>1 DEF StepsInPlace, InSession
  <2> QED
    BY <1>1, <2>1, <2>2 DEF SessionLeft
<1> QED
  BY <1>2, <1>3, <1>4, <1>5, <1>6, <1>7, <1>8 DEF CtlNext

(* A session ends after a bounded number of steps once its client has      *)
(* gone, whatever that left unread; so main comes back to those who wait.  *)
THEOREM SessionsEnd ==
  CtlSpec => [](SessionLeft \in Nat) /\ SessionRunsOut
<1>1. CtlInit => WaitInv
  BY DEF CtlInit, Init, WaitInv
<1>2. ServerInv => SessionLeft \in Nat
  <2> SUFFICES ASSUME ServerInv PROVE SessionLeft \in Nat
    OBVIOUS
  <2>1. Len(sent) \in Nat /\ got \in 0..Len(sent) /\ StepsInPlace \in 0..6
    BY DEF ServerInv, ServerTypeOK, StepsInPlace
  <2> QED
    BY <2>1 DEF SessionLeft
<1>3. ServerInv /\ WaitInv /\ [CtlNext]_ctlVars =>
        [ link = "closed" =>
            SessionLeft' < SessionLeft
              \/ UNCHANGED <<spc, wpc, link, sent, got>> ]_ctlVars
  BY SessionShortens
<1> QED
  BY <1>1, <1>2, <1>3, WaitKeeps, ServerInvariance, PTL DEF CtlSpec, SessionRunsOut
=============================================================================
