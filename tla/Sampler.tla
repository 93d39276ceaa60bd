------------------------------ MODULE Sampler -------------------------------
(***************************************************************************)
(* One sensor thread: it wakes at its frequency, samples its sensors in    *)
(* order and pushes every reading into the sensor's circular buffer, here  *)
(* the queue of BoundedQueue.  A buffer that refuses a reading is emptied  *)
(* into the thread's one packet buffer, which goes to the sensor's log     *)
(* file and to the UDP socket.  Before that main sets up the socket and    *)
(* constructs the thread, whose sensors get a logger each.                 *)
(*                                                                         *)
(* A reading is a pair of its sensor and the number of the round it was    *)
(* taken in.                                                               *)
(***************************************************************************)
EXTENDS LogFiles, OutSocket, Sequences

CONSTANTS
  NumSensors,   \* how many sensors this thread samples
  PT1Index,     \* where PT1, which drives the cutoff, is among them; or 0
  num_items,    \* the size of each circular buffer
  BUFF_SIZE,    \* the size of the packet buffer, in bytes
  Shortfalls,   \* by how many items a write may fall short of the packet
  MaxRounds     \* bound: the rounds of sampling looked at

Sensors == 1..NumSensors
Garbage == <<0, 0>>     \* what the packet buffer holds before it is written

(* Mutant: room computed for items without their padding.                  *)
UnpaddedItems == (BUFF_SIZE - 4) \div 12

(* The items a packet has room for, after its header.                      *)
PacketItems == (BUFF_SIZE - 4) \div 16

ASSUME SamplerAssumption ==
  /\ NumSensors \in Nat \ {0} /\ PT1Index \in 0..NumSensors
  /\ num_items \in Nat \ {0}
  /\ Loggers = 0..NumSensors     \* main's own logger, and one per sensor
  /\ BUFF_SIZE \in Nat /\ BUFF_SIZE >= 4
  /\ Shortfalls \subseteq 0..num_items
  /\ MaxRounds \in Nat

(* A packet takes a full ring: "this has to be 16n + 4", 260 for 16 items. *)
ASSUME PacketAssumption == BUFF_SIZE = 16 * num_items + 4

VARIABLES
  pc,               \* where main is, and then the thread
  it,               \* the sensor whose turn it is
  round,            \* how many times the thread has woken up
  queue,            \* the contents of each circular buffer
  b,                \* the items in the packet buffer
  pressureShutoff,  \* the atomic read by the ignition monitor
  logged,           \* history: the items written to each log file, in order
  unwritten,        \* history: the items of packets that reached no file
  sent              \* history: the packet that last left over UDP, if any

readings == <<round, queue, b, pressureShutoff, logged, unwritten, sent>>
setup == <<logVars, sockVars>>
vars == <<pc, it, readings, setup>>
-----------------------------------------------------------------------------
Init ==
  /\ LogInit /\ SockInit
  /\ pc = "name"
  /\ it = 0
  /\ round = 0
  /\ queue = [s \in Sensors |-> << >>]
  /\ b = [j \in 1..PacketItems |-> Garbage]
  /\ pressureShutoff = FALSE
  /\ logged = [s \in Sensors |-> << >>]
  /\ unwritten = {} /\ sent = {}

(* main up to the start of the thread: its logger, the socket, and the     *)
(* constructor of PeriodicThread with a logger for each sensor.            *)
Clock ==
  /\ pc \in {"name", "create"}
  /\ SecondTurns
  /\ UNCHANGED <<pc, it, readings, sockVars>>

BeginLogger ==
  /\ pc = "name"
  /\ NameFile(it)
  /\ pc' = "create"
  /\ UNCHANGED <<it, readings, sockVars>>

EndLogger ==
  /\ pc = "create"
  /\ create_log_file(it)
  /\ IF it = 0 THEN pc' = "dest" /\ it' = it
     ELSE IF it < NumSensors THEN pc' = "name" /\ it' = it + 1
     ELSE pc' = "sleep" /\ it' = it
  /\ UNCHANGED <<readings, sockVars>>

(* main returns when the socket cannot be set up.                          *)
SetDest(ok) ==
  /\ pc = "dest"
  /\ setDest(ok)
  /\ pc' = IF ok THEN "enable" ELSE "exited"
  /\ UNCHANGED <<it, readings, logVars>>

(* Mutant: the failure is logged, and main goes on.                        *)
EnableAnyway(ok) ==
  /\ pc = "enable"
  /\ enable(ok)
  /\ pc' = "name" /\ it' = 1
  /\ UNCHANGED <<readings, logVars>>

Enable(ok) ==
  /\ pc = "enable"
  /\ enable(ok)
  /\ IF ok THEN pc' = "name" /\ it' = 1 ELSE pc' = "exited" /\ it' = it
  /\ UNCHANGED <<readings, logVars>>

Prepare ==
  \/ Clock \/ BeginLogger \/ EndLogger
  \/ \E ok \in BOOLEAN : SetDest(ok) \/ Enable(ok)
-----------------------------------------------------------------------------
Wake ==
  /\ pc = "sleep"
  /\ round < MaxRounds
  /\ round' = round + 1
  /\ it' = 1
  /\ pc' = "sample"
  /\ UNCHANGED <<queue, b, pressureShutoff, logged, unwritten, sent, setup>>

(* On to the next sensor, or back to sleep after the last.                 *)
Advance ==
  IF it < NumSensors THEN pc' = "sample" /\ it' = it + 1
                     ELSE pc' = "sleep"  /\ it' = it

(* PT1's reading moves the running average, which sets or clears the flag. *)
Average ==
  IF it = PT1Index
    THEN pressureShutoff' \in BOOLEAN
    ELSE UNCHANGED pressureShutoff

(* Mutant: a full ring takes one reading more.                             *)
SampleAndOverfill ==
  /\ pc = "sample"
  /\ Average
  /\ Len(queue[it]) <= num_items
  /\ queue' = [queue EXCEPT ![it] = Append(@, <<it, round>>)]
  /\ Advance
  /\ UNCHANGED <<round, b, logged, unwritten, sent, setup>>

(* A reading that fits is queued.                                          *)
SampleAndPush ==
  /\ pc = "sample"
  /\ Average
  /\ Len(queue[it]) < num_items
  /\ queue' = [queue EXCEPT ![it] = Append(@, <<it, round>>)]
  /\ Advance
  /\ UNCHANGED <<round, b, logged, unwritten, sent, setup>>

(* A reading that does not is gone; get_data overwrites the front of the   *)
(* packet buffer with as many queued items as fit.                         *)
SampleAndDrain ==
  LET q == queue[it]
      k == IF Len(q) <= PacketItems THEN Len(q) ELSE PacketItems
  IN /\ pc = "sample"
     /\ Average
     /\ Len(q) = num_items
     /\ b' = [j \in 1..PacketItems |-> IF j <= k THEN q[j] ELSE b[j]]
     /\ queue' = [queue EXCEPT ![it] = SubSeq(q, k + 1, Len(q))]
     /\ pc' = "log"
     /\ UNCHANGED <<it, round, logged, unwritten, sent, setup>>

(* How many items of the packet a write that falls k short puts into the   *)
(* file, where one was created; an item it cuts it does not take.          *)
Taking(k) == IF fileOpen[it] THEN PacketItems - k ELSE 0

(* Mutant: every packet starts the file over.                              *)
LogTruncated(k) ==
  /\ pc = "log"
  /\ logged' = [logged EXCEPT ![it] = SubSeq(b, 1, Taking(k))]
  /\ unwritten' = unwritten \union {b[j] : j \in (Taking(k) + 1)..PacketItems}
  /\ pc' = "send"
  /\ UNCHANGED <<it, round, queue, b, pressureShutoff, sent, setup>>

(* Mutant: nothing is written, and the packet only sent.                   *)
LogNothing(k) ==
  /\ pc = "log"
  /\ pc' = "send"
  /\ UNCHANGED <<it, readings, setup>>

(* Logger::data hands the whole buffer to write, and looks at neither a    *)
(* failure nor a count that is short.                                      *)
LogPacket(k) ==
  /\ pc = "log"
  /\ logged' = [logged EXCEPT ![it] = @ \o SubSeq(b, 1, Taking(k))]
  /\ unwritten' = unwritten \union {b[j] : j \in (Taking(k) + 1)..PacketItems}
  /\ pc' = "send"
  /\ UNCHANGED <<it, round, queue, b, pressureShutoff, sent, setup>>

(* sendBuf sends it, or throws and is caught.  The branch that ends the    *)
(* thread is for a socket without a descriptor, which SocketReady excludes.*)
SendPacket(ok) ==
  /\ pc = "send"
  /\ sent' = IF ok /\ CanSend THEN {b} ELSE {}
  /\ Advance
  /\ UNCHANGED <<round, queue, b, pressureShutoff, logged, unwritten, setup>>

Next == Prepare \/ Wake \/ SampleAndPush \/ SampleAndDrain
          \/ \E k \in Shortfalls : LogPacket(k)
          \/ \E ok \in BOOLEAN : SendPacket(ok)

Spec == Init /\ [][Next]_vars
-----------------------------------------------------------------------------
(* Properties.                                                             *)
Preparing == {"name", "create", "dest", "enable"}
Readings == Sensors \X (1..MaxRounds)

TypeOK ==
  /\ pc \in Preparing \union {"exited", "sleep", "sample", "log", "send"}
  /\ it \in Loggers /\ round \in 0..MaxRounds
  /\ \A s \in Sensors : queue[s] \in Seq(Readings) /\ Len(queue[s]) <= num_items
  /\ b \in [1..PacketItems -> Readings \union {Garbage}]
  /\ pressureShutoff \in BOOLEAN
  /\ named \in [Loggers -> -1..MaxSecond] /\ made \in [Loggers -> -1..MaxSecond]
  /\ fileOpen \in [Loggers -> BOOLEAN]
  /\ \A s \in Sensors : logged[s] \in Seq(Readings \union {Garbage})
  /\ unwritten \subseteq Readings \union {Garbage}
  /\ sent \subseteq [1..PacketItems -> Readings \union {Garbage}]

Elements(q) == {q[i] : i \in DOMAIN q}

(* How many readings of s have been taken.                                 *)
Taken(s) ==
  IF pc = "sleep" \/ s < it \/ (s = it /\ pc # "sample") THEN round ELSE round - 1

(* A log file holds its own sensor's readings, oldest first, each once:    *)
(* although a packet is written whole, whatever get_data put into it, and  *)
(* all sensors share it, nothing stale is ever written.                    *)
LogIsOrdered ==
  \A s \in Sensors : \A i, j \in DOMAIN logged[s] :
    /\ logged[s][i][1] = s
    /\ i < j => logged[s][i][2] < logged[s][j][2]

(* A reading is queued, in the packet to be logged, logged, or among those *)
(* a failed or short write or a missing file lost, unless it is one of     *)
(* every num_items + 1: the one that found the ring full, which is nowhere.*)
(* Failures of the socket cost nothing.                                    *)
Accounted ==
  \A s \in Sensors :
    LET kept == Elements(queue[s]) \union Elements(logged[s]) \union unwritten
                  \union (IF pc = "log" THEN Elements(b) ELSE {})
    IN \A r \in 1..Taken(s) : <<s, r>> \in kept <=> r % (num_items + 1) # 0

(* What the operator was sent is in its sensor's log, but for the items    *)
(* that logging the same packet lost: the thread sends it all the same.    *)
SentIsLogged ==
  \A p \in sent : \A x \in Elements(p) :
    x \in Elements(logged[x[1]]) \union unwritten

(* main hands no thread a socket that is not ready, whatever failed before;*)
(* a thread that finds none ends, and with it the cutoff and the logs.     *)
SocketReady == pc \in {"sleep", "sample", "log", "send"} => CanSend /\ dest

(* On a disk that takes files, a log file is missing only if the clock     *)
(* showed another second when its logger read it again, and no logger      *)
(* before had a directory made for the second in the file's name.          *)
LostOnlyAtTurn ==
  writable => \A l \in Loggers :
    made[l] # -1 /\ ~fileOpen[l] => \A k \in 0..l : made[k] # named[l]

(* The thread calls each ring as BoundedQueue lets it: it queues a reading *)
(* of the ring's sensor where there is room, or is refused and hands over  *)
(* all there is to the packet, so that nothing of an earlier packet is     *)
(* left in that and nothing left in the ring.                              *)
RingCalls ==
  [][ \A s \in Sensors :
        \/ queue'[s] = queue[s]
        \/ /\ Len(queue[s]) < num_items
           /\ \E r \in 1..MaxRounds : queue'[s] = Append(queue[s], <<s, r>>)
        \/ /\ Len(queue[s]) = num_items
           /\ queue'[s] = << >> /\ b' = queue[s] ]_vars

(* What the operator is sent, log file or not: num_items readings of one   *)
(* sensor, taken one after the other, from the first after a lost one.     *)
Whole(p) ==
  \E s \in Sensors, c \in 0..MaxRounds :
    c % (num_items + 1) = 0 /\ \A j \in 1..num_items : p[j] = <<s, c + j>>
SentIsWhole == \A p \in sent : Whole(p)
=============================================================================
