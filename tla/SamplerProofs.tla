--------------------------- MODULE SamplerProofs ----------------------------
(***************************************************************************)
(* Proofs about a sensor thread and its set-up, for any number of sensors, *)
(* any size of ring and any number of rounds.                              *)
(***************************************************************************)
EXTENDS Sampler, SequenceTheorems, TLAPS

Running == {"sleep", "sample", "log", "send"}

(* The set-up: types, and that main is past the socket once a sensor's     *)
(* logger is constructed.                                                  *)
SetupTypes ==
  /\ second \in 0..MaxSecond /\ writable \in BOOLEAN
  /\ dirs \subseteq 0..MaxSecond
  /\ named \in [Loggers -> -1..MaxSecond] /\ made \in [Loggers -> -1..MaxSecond]
  /\ fileOpen \in [Loggers -> BOOLEAN]
  /\ open \in BOOLEAN /\ dest \in BOOLEAN

SetupPlace ==
  /\ pc \in Preparing \union {"exited"} \union Running
  /\ it \in Loggers
  /\ pc \in {"dest", "enable"} => it = 0
  /\ pc = "enable" => dest
  /\ pc \in Running \/ (pc \in {"name", "create"} /\ it # 0) => CanSend /\ dest
  /\ pc \in {"sample", "log", "send"} => it \in Sensors

SetupInv == SetupTypes /\ SetupPlace

LEMMA SetupHolds == Spec => []SetupInv
<1> USE SamplerAssumption, LogFilesAssumption
<1>1. Init => SetupInv
  <2> SUFFICES ASSUME Init PROVE SetupInv
    OBVIOUS
  <2>1. SetupTypes
    <3>1. second = 0 /\ dirs \subseteq 0..MaxSecond /\ 0 \in 0..MaxSecond
      BY DEF Init, LogInit
    <3>2. -1 \in -1..MaxSecond
      OBVIOUS
    <3>3. named \in [Loggers -> -1..MaxSecond] /\ made \in [Loggers -> -1..MaxSecond]
      BY <3>2 DEF Init, LogInit
    <3> QED
      BY <3>1, <3>3 DEF Init, LogInit, SockInit, SetupTypes
  <2>2. SetupPlace
    BY DEF Init, SetupPlace, Preparing, Running
  <2> QED
    BY <2>1, <2>2 DEF SetupInv
<1>2. SetupInv /\ [Next]_vars => SetupInv'
  <2> SUFFICES ASSUME SetupInv, [Next]_vars PROVE SetupInv'
    OBVIOUS
  <2> USE DEF SetupInv, SetupPlace, Preparing, Running, CanSend, Sensors
  <2>1. CASE Clock
    BY <2>1 DEF Clock, SecondTurns, SetupTypes, sockVars
  <2>2. CASE BeginLogger
    BY <2>2 DEF BeginLogger, NameFile, SetupTypes, sockVars
  <2>3. CASE EndLogger
    BY <2>3 DEF EndLogger, create_log_file, SetupTypes, sockVars
  <2>4. ASSUME NEW ok \in BOOLEAN, SetDest(ok) \/ Enable(ok) PROVE SetupInv'
    <3>1. UNCHANGED logVars /\ open' \in BOOLEAN /\ dest' \in BOOLEAN
      BY <2>4 DEF SetDest, Enable, setDest, enable, SetupTypes
    <3>2. SetupTypes'
      BY <3>1 DEF logVars, SetupTypes
    <3>3. it' \in Loggers
      BY <2>4 DEF SetDest, Enable
    <3>4. CASE SetDest(ok)
      <4>1. ok => dest'
        BY <3>4 DEF SetDest, setDest
      <4> QED
        BY <3>2, <3>3, <3>4, <4>1 DEF SetDest
    <3>5. CASE Enable(ok)
      <4>1. dest /\ dest' = dest /\ (ok => open' /\ fd' # -1)
        BY <3>5 DEF Enable, enable
      <4> QED
        BY <3>2, <3>3, <3>5, <4>1 DEF Enable
    <3> QED
      BY <2>4, <3>4, <3>5
  <2>5. CASE UNCHANGED setup
    <3>1. SetupTypes'
      BY <2>5 DEF setup, logVars, sockVars, SetupTypes
    <3>2. UNCHANGED <<fd, open, dest>>
      BY <2>5 DEF setup, sockVars
    <3>3. CASE Wake
      BY <3>1, <3>2, <3>3 DEF Wake
    <3>4. CASE SampleAndPush
      BY <3>1, <3>2, <3>4 DEF SampleAndPush, Advance
    <3>5. CASE SampleAndDrain \/ \E k \in Shortfalls : LogPacket(k)
      BY <3>1, <3>2, <3>5 DEF SampleAndDrain, LogPacket
    <3>6. ASSUME NEW ok \in BOOLEAN, SendPacket(ok) PROVE SetupPlace'
      BY <3>1, <3>2, <3>6 DEF SendPacket, Advance
    <3>7. CASE UNCHANGED vars
      BY <3>1, <3>2, <3>7 DEF vars
    <3> QED
      BY <2>1, <2>2, <2>3, <2>4, <3>1, <3>3, <3>4, <3>5, <3>6, <3>7
         DEF Next, Prepare
  <2> QED
    BY <2>1, <2>2, <2>3, <2>4, <2>5
       DEF Next, Prepare, Wake, SampleAndPush, SampleAndDrain, LogPacket, SendPacket, vars
<1> QED
  BY <1>1, <1>2, PTL DEF Spec

(* main hands no thread a socket that is not ready, whatever failed in its *)
(* set-up: the pass of the thread never takes the branch that ends it.     *)
THEOREM ThreadsGetSocket == Spec => []SocketReady
<1>1. SetupInv => SocketReady
  BY DEF SetupInv, SetupPlace, SocketReady, Running
<1> QED
  BY <1>1, SetupHolds, PTL
-----------------------------------------------------------------------------
(* The files: a logger sees to its directory after it is named and in its  *)
(* turn, and on a disk that takes them the directories stay.               *)
TurnsInv ==
  /\ \A l \in Loggers : made[l] # -1 => named[l] # -1
  /\ pc = "create" => named[it] # -1
  /\ pc \in Preparing =>
       \A l \in Loggers : made[l] # -1 => l <= it /\ (l = it => pc \in {"dest", "enable"})

DirsInv == writable => \A l \in Loggers : made[l] # -1 => made[l] \in dirs

FilesInv == TurnsInv /\ DirsInv /\ LostOnlyAtTurn

LEMMA CreateKeeps ==
  ASSUME SetupInv, FilesInv, EndLogger
  PROVE  FilesInv'
<1> USE SamplerAssumption, LogFilesAssumption DEF SetupInv, SetupTypes
<1>1. /\ pc = "create" /\ it \in Loggers /\ named[it] # -1
      /\ dirs' = IF writable THEN dirs \union {second} ELSE dirs
      /\ fileOpen' = [fileOpen EXCEPT ![it] = writable /\ named[it] \in dirs']
      /\ made' = [made EXCEPT ![it] = second]
      /\ UNCHANGED <<second, writable, named>>
  BY DEF EndLogger, create_log_file, SetupPlace, FilesInv, TurnsInv
<1>2. \/ it = 0 /\ pc' = "dest" /\ it' = it
      \/ it < NumSensors /\ pc' = "name" /\ it' = it + 1
      \/ it = NumSensors /\ pc' = "sleep" /\ it' = it
  BY <1>1 DEF EndLogger
<1>3. \A l \in Loggers : made'[l] # -1 => l <= it /\ named[l] # -1
  BY <1>1 DEF FilesInv, TurnsInv, Preparing
<1>4. TurnsInv'
  BY <1>1, <1>2, <1>3 DEF TurnsInv, Preparing
<1>5. DirsInv'
  BY <1>1 DEF FilesInv, DirsInv
<1>6. LostOnlyAtTurn'
  <2> SUFFICES ASSUME writable, NEW l \in Loggers, made'[l] # -1, ~fileOpen'[l],
                      NEW k \in 0..l
               PROVE  made'[k] # named[l]
    BY <1>1 DEF LostOnlyAtTurn
  <2>1. k \in Loggers /\ l <= it
    BY <1>3
  <2>2. CASE l = it
    <3>1. named[l] \notin dirs' /\ named[l] # -1
      BY <1>1, <2>2
    <3>2. made'[k] # -1 => made'[k] \in dirs'
      BY <1>1, <1>5, <2>1 DEF DirsInv
    <3> QED
      BY <3>1, <3>2
  <2>3. CASE l # it
    <3>1. made'[k] = made[k] /\ made[l] # -1 /\ ~fileOpen[l]
      BY <1>1, <2>1, <2>3
    <3> QED
      BY <1>1, <3>1 DEF FilesInv, LostOnlyAtTurn
  <2> QED
    BY <2>2, <2>3
<1> QED
  BY <1>4, <1>5, <1>6 DEF FilesInv

LEMMA FilesHold == Spec => []FilesInv
<1> USE SamplerAssumption, LogFilesAssumption
<1>1. Init => FilesInv
  BY DEF Init, LogInit, FilesInv, TurnsInv, DirsInv, LostOnlyAtTurn
<1>2. SetupInv /\ FilesInv /\ [Next]_vars => FilesInv'
  <2> SUFFICES ASSUME SetupInv, FilesInv, [Next]_vars PROVE FilesInv'
    OBVIOUS
  <2> USE DEF SetupInv, SetupTypes, Preparing
  <2>1. CASE Clock
    BY <2>1 DEF Clock, SecondTurns, FilesInv, TurnsInv, DirsInv, LostOnlyAtTurn
  <2>2. CASE BeginLogger
    <3>1. /\ pc = "name" /\ pc' = "create" /\ it' = it /\ it \in Loggers
          /\ named' = [named EXCEPT ![it] = second]
          /\ UNCHANGED <<writable, dirs, made, fileOpen>>
      BY <2>2 DEF BeginLogger, NameFile, SetupPlace
    <3>2. made[it] = -1 /\ \A l \in Loggers : made[l] # -1 => named'[l] = named[l]
      BY <3>1 DEF FilesInv, TurnsInv
    <3> QED
      BY <3>1, <3>2 DEF FilesInv, TurnsInv, DirsInv, LostOnlyAtTurn
  <2>3. ASSUME NEW ok \in BOOLEAN, SetDest(ok) \/ Enable(ok) PROVE FilesInv'
    <3>1. UNCHANGED <<writable, dirs, named, made, fileOpen>> /\ it = 0
          /\ pc \in {"dest", "enable"} /\ pc' # "create"
          /\ \/ pc' \notin Preparing
             \/ pc' = "enable" /\ it' = it
             \/ pc' = "name" /\ it' = 1
      BY <2>3 DEF SetDest, Enable, logVars, SetupPlace
    <3> QED
      BY <3>1 DEF FilesInv, TurnsInv, DirsInv, LostOnlyAtTurn
  <2>4. CASE \/ Wake \/ SampleAndPush \/ SampleAndDrain
             \/ \E k \in Shortfalls : LogPacket(k)
             \/ \E ok \in BOOLEAN : SendPacket(ok)
    <3>1. UNCHANGED <<writable, dirs, named, made, fileOpen>> /\ pc' \in Running
      BY <2>4 DEF Wake, SampleAndPush, SampleAndDrain, LogPacket, SendPacket,
         Advance, setup, logVars, Running
    <3> QED
      BY <3>1 DEF FilesInv, TurnsInv, DirsInv, LostOnlyAtTurn, Running
  <2>5. CASE UNCHANGED vars
    BY <2>5 DEF vars, setup, logVars, FilesInv, TurnsInv, DirsInv, LostOnlyAtTurn
  <2> QED
    BY <2>1, <2>2, <2>3, <2>4, <2>5, CreateKeeps DEF Next, Prepare
<1> QED
  BY <1>1, <1>2, SetupHolds, PTL DEF Spec

(* On a disk that takes files, a log file is missing only if the clock     *)
(* moved while its logger was constructed, and only if no earlier logger   *)
(* saw to a directory for the second in its name: any number of loggers,   *)
(* and a clock that is set as it may be.                                   *)
THEOREM FilesLostAtTurn == Spec => []LostOnlyAtTurn
BY FilesHold, PTL DEF FilesInv
-----------------------------------------------------------------------------
(* What the thread keeps: types, and that nothing was kept before it ran.  *)
ReadTypes ==
  /\ round \in 0..MaxRounds
  /\ pc \in {"sample", "log", "send"} => round # 0
  /\ queue \in [Sensors -> Seq(Readings)]
  /\ \A s \in Sensors : Len(queue[s]) <= num_items
  /\ b \in [1..PacketItems -> Readings \union {Garbage}]
  /\ pressureShutoff \in BOOLEAN
  /\ logged \in [Sensors -> Seq(Readings \union {Garbage})]
  /\ unwritten \subseteq Readings \union {Garbage}
  /\ sent \subseteq [1..PacketItems -> Readings \union {Garbage}]

NothingYet ==
  pc \notin Running =>
    round = 0 /\ unwritten = {} /\ sent = {} /\ \A s \in Sensors : queue[s] = << >> /\ logged[s] = << >>

ReadFrame == ReadTypes /\ NothingYet

(* A packet is a sequence, and is drained from a full ring.                *)
LEMMA Packet ==
  PacketItems = num_items /\ num_items \in Nat \ {0}
BY SamplerAssumption, PacketAssumption DEF PacketItems

LEMMA PacketIsSeq ==
  ASSUME NEW T, NEW p \in [1..PacketItems -> T]
  PROVE  p \in Seq(T) /\ Len(p) = num_items /\ \A j \in 1..num_items : p[j] \in T
<1>1. p \in [1..num_items -> T] /\ num_items \in Nat
  BY Packet
<1>2. p = [j \in 1..num_items |-> p[j]] /\ \A j \in 1..num_items : p[j] \in T
  BY <1>1
<1>3. [j \in 1..num_items |-> p[j]] \in Seq(T)
  BY <1>1, <1>2, IsASeq
<1>4. Len(p) = num_items
  BY <1>1, <1>2
<1> QED
  BY <1>2, <1>3, <1>4

(* The part of it that a write takes.                                      *)
LEMMA PartIsSeq ==
  ASSUME ReadFrame, SetupInv, it \in Sensors, NEW k \in Shortfalls
  PROVE  /\ Taking(k) \in 0..num_items
         /\ SubSeq(b, 1, Taking(k)) \in Seq(Readings \union {Garbage})
         /\ Len(SubSeq(b, 1, Taking(k))) = Taking(k)
         /\ \A j \in 1..Taking(k) : SubSeq(b, 1, Taking(k))[j] = b[j]
         /\ \A j \in (Taking(k) + 1)..PacketItems : j \in DOMAIN b
<1> DEFINE w == Taking(k)
<1>1. w \in 0..num_items
  BY Packet, SamplerAssumption DEF Taking
<1>2. /\ b \in Seq(Readings \union {Garbage}) /\ Len(b) = num_items
      /\ DOMAIN b = 1..num_items
  BY PacketIsSeq, Packet DEF ReadFrame, ReadTypes
<1> HIDE DEF w
<1>3. \A j \in 1..w : b[j] \in Readings \union {Garbage}
  BY <1>1, Packet DEF ReadFrame, ReadTypes
<1>4. /\ SubSeq(b, 1, w) \in Seq(Readings \union {Garbage})
      /\ Len(SubSeq(b, 1, w)) = w
      /\ \A j \in 1..w : SubSeq(b, 1, w)[j] = b[j]
  <2>1. /\ SubSeq(b, 1, w) \in Seq(Readings \union {Garbage})
        /\ Len(SubSeq(b, 1, w)) = IF 1 <= w THEN w - 1 + 1 ELSE 0
        /\ \A i \in 1..(w - 1 + 1) : SubSeq(b, 1, w)[i] = b[1 + i - 1]
    BY <1>1, <1>3, SubSeqProperties, Packet
  <2> QED
    BY <1>1, <2>1
<1>5. \A j \in (w + 1)..PacketItems : j \in DOMAIN b
  BY <1>1, <1>2, Packet
<1> QED
  BY <1>1, <1>4, <1>5 DEF w

LEMMA Empty ==
  << >> \in Seq(Readings) /\ Len(<< >>) = 0 /\ << >> \in Seq(Readings \union {Garbage})
BY EmptySeq

(* Draining a full ring moves all of it into the packet.                   *)
LEMMA Drain ==
  ASSUME SetupInv, ReadFrame, SampleAndDrain
  PROVE  /\ it \in Sensors /\ pc = "sample" /\ pc' = "log"
         /\ Len(queue[it]) = num_items
         /\ \A j \in 1..num_items : b'[j] = queue[it][j] /\ b'[j] \in Readings
         /\ b' \in [1..PacketItems -> Readings]
         /\ queue' = [queue EXCEPT ![it] = << >>]
         /\ UNCHANGED <<it, round, logged, unwritten, sent, setup>>
<1>1. it \in Sensors /\ queue[it] \in Seq(Readings) /\ Len(queue[it]) = num_items
  BY DEF SampleAndDrain, SetupInv, SetupPlace, ReadFrame, ReadTypes
<1>2. \A j \in 1..num_items : queue[it][j] \in Readings
  BY <1>1, ElementOfSeq
<1>3. SubSeq(queue[it], num_items + 1, num_items) = << >>
  BY <1>1, Packet, SubSeqEmpty
<1>4. /\ b' = [j \in 1..PacketItems |-> IF j <= num_items THEN queue[it][j] ELSE b[j]]
      /\ queue' = [queue EXCEPT ![it] = SubSeq(queue[it], num_items + 1, num_items)]
  BY <1>1, Packet DEF SampleAndDrain
<1>5. b' = [j \in 1..num_items |-> queue[it][j]]
  BY <1>4, Packet
<1> QED
  BY <1>1, <1>2, <1>3, <1>4, <1>5, Packet DEF SampleAndDrain

LEMMA ReadFrameHolds == Spec => []ReadFrame
<1> USE SamplerAssumption DEF Running
<1>1. Init => ReadFrame
  <2>1. ASSUME Init PROVE queue \in [Sensors -> Seq(Readings)]
                          /\ logged \in [Sensors -> Seq(Readings \union {Garbage})]
    BY <2>1, Empty DEF Init
  <2>2. ASSUME Init PROVE b \in [1..PacketItems -> Readings \union {Garbage}]
    BY <2>2 DEF Init
  <2>3. Init => NothingYet
    BY DEF Init, NothingYet
  <2> QED
    <3>1. ASSUME Init, NEW s \in Sensors PROVE Len(queue[s]) <= num_items
      <4>1. queue[s] = << >>
        BY <3>1 DEF Init
      <4> QED
        BY <4>1, Packet, Empty
    <3>2. Init => round \in 0..MaxRounds /\ pc = "name" /\ unwritten = {} /\ sent = {}
      BY DEF Init
    <3>3. Init => pressureShutoff \in BOOLEAN
      BY DEF Init
    <3> QED
      BY <2>1, <2>2, <2>3, <3>1, <3>2, <3>3 DEF ReadFrame, ReadTypes
<1>2. SetupInv /\ ReadFrame /\ [Next]_vars => ReadFrame'
  <2> SUFFICES ASSUME SetupInv, ReadFrame, [Next]_vars PROVE ReadFrame'
    OBVIOUS
  <2>1. CASE Prepare
    <3>1. UNCHANGED readings /\ pc \notin Running /\ pc' \notin {"sample", "log", "send"}
      BY <2>1 DEF Prepare, Clock, BeginLogger, EndLogger, SetDest, Enable
    <3> QED
      BY <3>1 DEF readings, ReadFrame, ReadTypes, NothingYet
  <2>2. CASE UNCHANGED vars
    BY <2>2 DEF vars, readings, ReadFrame, ReadTypes, NothingYet
  <2>3. CASE Wake
    BY <2>3 DEF Wake, ReadFrame, ReadTypes, NothingYet
  <2>4. CASE SampleAndPush
    <3>1. /\ it \in Sensors /\ pc = "sample" /\ pc' \in {"sample", "sleep"}
          /\ <<it, round>> \in Readings
      BY <2>4 DEF SampleAndPush, Advance, SetupInv, SetupPlace, ReadFrame, ReadTypes, Readings
    <3>2. Append(queue[it], <<it, round>>) \in Seq(Readings)
          /\ Len(Append(queue[it], <<it, round>>)) = Len(queue[it]) + 1
      BY <3>1, AppendProperties DEF ReadFrame, ReadTypes
    <3>3. queue' \in [Sensors -> Seq(Readings)]
      BY <2>4, <3>1, <3>2 DEF SampleAndPush, ReadFrame, ReadTypes
    <3>4. ASSUME NEW s \in Sensors PROVE Len(queue'[s]) <= num_items
      BY <2>4, <3>1, <3>2 DEF SampleAndPush, ReadFrame, ReadTypes
    <3>5. pressureShutoff' \in BOOLEAN
      BY <2>4 DEF SampleAndPush, Average, ReadFrame, ReadTypes
    <3> QED
      BY <2>4, <3>1, <3>3, <3>4, <3>5 DEF SampleAndPush, ReadFrame, ReadTypes, NothingYet
  <2>5. CASE SampleAndDrain
    <3>1. \A s \in Sensors : queue'[s] \in Seq(Readings) /\ Len(queue'[s]) <= num_items
      <4> SUFFICES ASSUME NEW s \in Sensors
                   PROVE  queue'[s] \in Seq(Readings) /\ Len(queue'[s]) <= num_items
        OBVIOUS
      <4>1. queue' = [queue EXCEPT ![it] = << >>] /\ it \in Sensors
        BY <2>5, Drain
      <4>2. CASE s = it
        <5>1. queue'[s] = << >>
          BY <4>1, <4>2 DEF ReadFrame, ReadTypes
        <5> QED
          BY <5>1, Empty, Packet
      <4>3. CASE s # it
        BY <4>1, <4>3 DEF ReadFrame, ReadTypes
      <4> QED
        BY <4>2, <4>3
    <3>2. queue' \in [Sensors -> Seq(Readings)]
      BY <2>5, <3>1, Drain DEF ReadFrame, ReadTypes
    <3>3. pressureShutoff' \in BOOLEAN
      BY <2>5 DEF SampleAndDrain, Average, ReadFrame, ReadTypes
    <3> QED
      BY <2>5, <3>1, <3>2, <3>3, Drain DEF ReadFrame, ReadTypes, NothingYet
  <2>6. ASSUME NEW k \in Shortfalls, LogPacket(k) PROVE ReadFrame'
    <3>1. it \in Sensors /\ pc = "log" /\ pc' = "send"
      BY <2>6 DEF LogPacket, SetupInv, SetupPlace
    <3>2. logged' \in [Sensors -> Seq(Readings \union {Garbage})]
      <4>1. logged[it] \o SubSeq(b, 1, Taking(k)) \in Seq(Readings \union {Garbage})
        BY <3>1, PartIsSeq, ConcatProperties DEF ReadFrame, ReadTypes
      <4> QED
        BY <2>6, <3>1, <4>1 DEF LogPacket, ReadFrame, ReadTypes
    <3>3. unwritten' \subseteq Readings \union {Garbage}
      BY <2>6, <3>1, PartIsSeq DEF LogPacket, ReadFrame, ReadTypes
    <3> QED
      BY <2>6, <3>1, <3>2, <3>3 DEF LogPacket, ReadFrame, ReadTypes, NothingYet
  <2>7. ASSUME NEW ok \in BOOLEAN, SendPacket(ok) PROVE ReadFrame'
    <3>1. pc = "send" /\ pc' \in {"sample", "sleep"}
      BY <2>7 DEF SendPacket, Advance
    <3>2. sent' \subseteq [1..PacketItems -> Readings \union {Garbage}]
      BY <2>7 DEF SendPacket, ReadFrame, ReadTypes
    <3> QED
      BY <2>7, <3>1, <3>2 DEF SendPacket, ReadFrame, ReadTypes, NothingYet
  <2> QED
    BY <2>1, <2>2, <2>3, <2>4, <2>5, <2>6, <2>7 DEF Next
<1> QED
  BY <1>1, <1>2, SetupHolds, PTL DEF Spec

(* Every variable keeps its type, for any number of sensors and rounds.    *)
THEOREM SamplerTypeCorrect == Spec => []TypeOK
<1>1. SetupInv /\ ReadFrame => TypeOK
  BY DEF SetupInv, SetupTypes, SetupPlace, ReadFrame, ReadTypes, TypeOK, Running
<1> QED
  BY <1>1, SetupHolds, ReadFrameHolds, PTL
-----------------------------------------------------------------------------
(* What became of the readings.  Rings fill and are drained in cycles of   *)
(* num_items + 1 readings, the last of which is lost; Start(s) is the last *)
(* reading before those in the ring, Base(s) the last one dealt with.      *)
Cycle == num_items + 1
Start(s) == Taken(s) - Len(queue[s])
Base(s) == IF pc = "log" /\ s = it THEN Start(s) - Cycle ELSE Start(s)

(* The readings that find the ring full.                                   *)
Lost(r) == r % Cycle = 0

CycleInv(s) == Base(s) \in Nat /\ Lost(Base(s))

QueueInv(s) == \A i \in 1..Len(queue[s]) : queue[s][i] = <<s, Start(s) + i>>

PacketInv == pc = "log" => \A j \in 1..num_items : b[j] = <<it, Base(it) + j>>

FileInv(s) ==
  /\ \A i \in 1..Len(logged[s]) :
       /\ logged[s][i][1] = s
       /\ logged[s][i][2] \in 1..Base(s) /\ ~Lost(logged[s][i][2])
  /\ \A i, j \in 1..Len(logged[s]) : i < j => logged[s][i][2] < logged[s][j][2]
  /\ \A x \in unwritten : x[1] = s => x[2] \in 1..Base(s) /\ ~Lost(x[2])
  /\ \A r \in 1..Base(s) :
       \/ Lost(r) \/ <<s, r>> \in unwritten
       \/ \E i \in 1..Len(logged[s]) : logged[s][i] = <<s, r>>

KeptInv ==
  pc \in Running =>
    PacketInv /\ \A s \in Sensors : CycleInv(s) /\ QueueInv(s) /\ FileInv(s)

(* Counting in cycles.                                                     *)
LEMMA Remainder ==
  ASSUME NEW m \in Nat \ {0}, NEW q \in Int, NEW j \in 0..(m - 1), NEW x \in Int, x = m * q + j
  PROVE  x % m = j
BY SMTT(60)

LEMMA WholeCycles ==
  ASSUME NEW m \in Nat \ {0}, NEW a \in Int, a % m = 0
  PROVE  /\ \A j \in 0..(m - 1) : (a + j) % m = j
         /\ (a + m) % m = 0
<1> DEFINE q == a \div m
<1>1. q \in Int /\ a = m * q
  <2>1. a = m * (a \div m) + (a % m) /\ a \div m \in Int
    BY SMTT(60)
  <2> QED
    BY <2>1
<1> HIDE DEF q
<1>2. a + m = m * (q + 1) + 0 /\ a + m \in Int /\ q + 1 \in Int /\ 0 \in 0..(m - 1)
  BY <1>1
<1>3. (a + m) % m = 0
  BY <1>2, Remainder
<1>4. ASSUME NEW j \in 0..(m - 1) PROVE (a + j) % m = j
  BY <1>1, Remainder
<1> QED
  BY <1>3, <1>4

LEMMA Counted ==
  ASSUME SetupInv, ReadFrame, NEW s \in Sensors
  PROVE  Taken(s) \in Int /\ Len(queue[s]) \in 0..num_items /\ Start(s) \in Int
         /\ Cycle \in Nat \ {0}
<1>1. Len(queue[s]) \in Nat /\ Len(queue[s]) <= num_items /\ round \in Int
  BY LenProperties DEF ReadFrame, ReadTypes
<1> QED
  BY <1>1, Packet DEF Taken, Start, Cycle

(* What the steps of others leave of a sensor's rings and files.           *)
LEMMA QueueKept ==
  ASSUME NEW s \in Sensors, QueueInv(s), Start(s)' = Start(s), queue'[s] = queue[s]
  PROVE  QueueInv(s)'
BY DEF QueueInv

LEMMA FileKept ==
  ASSUME NEW s \in Sensors, FileInv(s), Base(s)' = Base(s), logged'[s] = logged[s],
         unwritten \subseteq unwritten',
         \A x \in unwritten' : x[1] = s => x \in unwritten
  PROVE  FileInv(s)'
BY DEF FileInv, Lost, Cycle

LEMMA PushKeeps ==
  ASSUME SetupInv, ReadFrame, KeptInv, SampleAndPush
  PROVE  KeptInv'
<1>1. /\ pc = "sample" /\ pc' \in {"sample", "sleep"}
      /\ it \in Sensors /\ Len(queue[it]) < num_items
      /\ queue' = [queue EXCEPT ![it] = Append(@, <<it, round>>)]
      /\ UNCHANGED <<round, b, logged, unwritten>>
  BY DEF SampleAndPush, Advance, SetupInv, SetupPlace
<1>2. ASSUME NEW s \in Sensors
      PROVE  Taken(s)' = IF s = it THEN Taken(s) + 1 ELSE Taken(s)
  <2>1. \/ it < NumSensors /\ pc' = "sample" /\ it' = it + 1
        \/ it = NumSensors /\ pc' = "sleep"
    BY <1>1, SamplerAssumption DEF SampleAndPush, Advance, Sensors
  <2> QED
    BY <1>1, <2>1, SamplerAssumption DEF Taken, Sensors, ReadFrame, ReadTypes
<1>3. /\ Len(queue'[it]) = Len(queue[it]) + 1
      /\ \A i \in 1..Len(queue[it]) : queue'[it][i] = queue[it][i]
      /\ queue'[it][Len(queue[it]) + 1] = <<it, round>>
      /\ \A s \in Sensors \ {it} : queue'[s] = queue[s]
  <2>1. queue[it] \in Seq(Readings) /\ <<it, round>> \in Readings
    BY <1>1 DEF ReadFrame, ReadTypes, Readings
  <2> QED
    BY <1>1, <2>1, AppendProperties DEF ReadFrame, ReadTypes
<1>4. ASSUME NEW s \in Sensors PROVE Start(s)' = Start(s) /\ Base(s)' = Base(s)
  <2>1. Start(s)' = Start(s)
    <3>1. Taken(s) \in Int /\ Len(queue[s]) \in Int
      BY Counted
    <3>2. CASE s = it
      BY <1>1, <1>2, <1>3, <3>1, <3>2 DEF Start
    <3>3. CASE s # it
      BY <1>1, <1>2, <1>3, <3>1, <3>3 DEF Start
    <3> QED
      BY <3>2, <3>3
  <2> QED
    BY <1>1, <2>1 DEF Base
<1>5. ASSUME NEW s \in Sensors PROVE CycleInv(s)' /\ FileInv(s)'
  BY <1>1, <1>4, FileKept DEF KeptInv, Running, CycleInv, Lost, Cycle
<1>6. ASSUME NEW s \in Sensors PROVE QueueInv(s)'
  <2>1. CASE s # it
    BY <1>1, <1>3, <1>4, <2>1, QueueKept DEF KeptInv, Running
  <2>2. CASE s = it
    <3>1. Start(it) + Len(queue[it]) + 1 = round
      BY <1>1, Counted DEF Start, Taken, ReadFrame, ReadTypes, Sensors
    <3>2. QueueInv(s) /\ Start(s)' = Start(s)
      BY <1>1, <1>4 DEF KeptInv, Running
    <3>3. Len(queue[s]) \in Nat /\ Start(s) \in Int
      BY Counted
    <3>4. ASSUME NEW i \in 1..Len(queue'[s])
          PROVE  queue'[s][i] = <<s, Start(s) + i>>
      <4>1. CASE i \in 1..Len(queue[s])
        BY <1>3, <2>2, <3>2, <4>1 DEF QueueInv
      <4>2. CASE i = Len(queue[s]) + 1
        BY <1>3, <2>2, <3>1, <3>3, <4>2
      <4> QED
        BY <1>3, <2>2, <3>3, <4>1, <4>2
    <3> QED
      BY <3>2, <3>4 DEF QueueInv
  <2> QED
    BY <2>1, <2>2
<1> QED
  BY <1>1, <1>5, <1>6 DEF KeptInv, PacketInv

LEMMA DrainKeeps ==
  ASSUME SetupInv, ReadFrame, KeptInv, SampleAndDrain
  PROVE  KeptInv'
<1>1. /\ it \in Sensors /\ pc = "sample" /\ pc' = "log"
      /\ Len(queue[it]) = num_items
      /\ \A j \in 1..num_items : b'[j] = queue[it][j]
      /\ queue' = [queue EXCEPT ![it] = << >>]
      /\ UNCHANGED <<it, round, logged, unwritten>>
  BY Drain
<1>2. ASSUME NEW s \in Sensors
      PROVE  Taken(s)' = IF s = it THEN Taken(s) + 1 ELSE Taken(s)
  BY <1>1 DEF Taken, Sensors, ReadFrame, ReadTypes
<1>3. Len(queue'[it]) = 0 /\ \A s \in Sensors \ {it} : queue'[s] = queue[s]
  <2>1. queue'[it] = << >>
    BY <1>1 DEF ReadFrame, ReadTypes
  <2> QED
    BY <1>1, <2>1, Empty DEF ReadFrame, ReadTypes
<1>4. ASSUME NEW s \in Sensors
      PROVE  Base(s)' = Base(s) /\ (s # it => Start(s)' = Start(s))
  BY <1>1, <1>2, <1>3, Counted, Packet DEF Start, Base, Cycle
<1>5. ASSUME NEW s \in Sensors PROVE CycleInv(s)' /\ FileInv(s)'
  BY <1>1, <1>4, FileKept DEF KeptInv, Running, CycleInv, Lost, Cycle
<1>6. ASSUME NEW s \in Sensors PROVE QueueInv(s)'
  <2>1. CASE s # it
    BY <1>1, <1>3, <1>4, <2>1, QueueKept DEF KeptInv, Running
  <2>2. CASE s = it
    BY <1>3, <2>2 DEF QueueInv
  <2> QED
    BY <2>1, <2>2
<1>7. PacketInv'
  <2>1. Base(it)' = Start(it)
    BY <1>1, <1>4 DEF Base
  <2> QED
    BY <1>1, <2>1 DEF PacketInv, KeptInv, QueueInv, Running
<1> QED
  BY <1>5, <1>6, <1>7 DEF KeptInv

(* What a write takes of a packet, appended to the file, and what not.     *)
Rest(s, base, w) == {<<s, base + j>> : j \in (w + 1)..num_items}

LEMMA Appended ==
  ASSUME SetupInv, ReadFrame, KeptInv, NEW k \in Shortfalls, LogPacket(k)
  PROVE  /\ it \in Sensors /\ Taking(k) \in 0..num_items
         /\ Len(logged[it]) \in Nat /\ Len(logged'[it]) = Len(logged[it]) + Taking(k)
         /\ \A i \in 1..Len(logged[it]) : logged'[it][i] = logged[it][i]
         /\ \A j \in 1..Taking(k) : logged'[it][Len(logged[it]) + j] = <<it, Base(it) + j>>
         /\ unwritten' = unwritten \union Rest(it, Base(it), Taking(k))
<1> DEFINE w == Taking(k)
           p == SubSeq(b, 1, w)
<1>1. it \in Sensors /\ pc = "log"
  BY DEF LogPacket, SetupInv, SetupPlace
<1>2. logged'[it] = logged[it] \o p
  BY <1>1 DEF LogPacket, ReadFrame, ReadTypes
<1>3. /\ p \in Seq(Readings \union {Garbage}) /\ Len(p) = w /\ w \in 0..num_items
      /\ \A j \in 1..w : p[j] = b[j]
      /\ logged[it] \in Seq(Readings \union {Garbage})
  BY <1>1, PartIsSeq DEF ReadFrame, ReadTypes
<1>4. Len(logged[it]) \in Nat /\ num_items \in Nat /\ w \in Nat /\ w <= num_items
  BY <1>3, Packet, LenProperties
<1>5. \A j \in 1..num_items : b[j] = <<it, Base(it) + j>>
  BY <1>1 DEF KeptInv, PacketInv, Running
<1>6. unwritten' = unwritten \union Rest(it, Base(it), w)
  <2>1. unwritten' = unwritten \union {b[j] : j \in (w + 1)..num_items}
    BY Packet DEF LogPacket
  <2>2. \A j \in (w + 1)..num_items : b[j] = <<it, Base(it) + j>>
    BY <1>4, <1>5
  <2> HIDE DEF w
  <2> QED
    BY <2>1, <2>2 DEF Rest
<1> HIDE DEF w, p
<1>7. /\ Len(logged'[it]) = Len(logged[it]) + w
      /\ \A i \in 1..(Len(logged[it]) + w) :
           logged'[it][i] = IF i <= Len(logged[it]) THEN logged[it][i]
                            ELSE p[i - Len(logged[it])]
  <2>1. /\ Len(logged[it] \o p) = Len(logged[it]) + Len(p)
        /\ \A i \in 1..(Len(logged[it]) + Len(p)) :
             (logged[it] \o p)[i] = IF i <= Len(logged[it]) THEN logged[it][i]
                                    ELSE p[i - Len(logged[it])]
    BY <1>3, ConcatProperties
  <2> QED
    BY <1>2, <1>3, <2>1
<1>8. ASSUME NEW j \in 1..w
      PROVE  logged'[it][Len(logged[it]) + j] = <<it, Base(it) + j>>
  <2>1. Len(logged[it]) + j \in 1..(Len(logged[it]) + w)
        /\ ~(Len(logged[it]) + j <= Len(logged[it]))
        /\ (Len(logged[it]) + j) - Len(logged[it]) = j
    BY <1>4
  <2>2. p[j] = b[j] /\ j \in 1..num_items
    BY <1>3, <1>4
  <2> QED
    BY <1>5, <1>7, <2>1, <2>2
<1>9. ASSUME NEW i \in 1..Len(logged[it]) PROVE logged'[it][i] = logged[it][i]
  <2>1. i \in 1..(Len(logged[it]) + w) /\ i <= Len(logged[it])
    BY <1>4
  <2> QED
    BY <1>7, <2>1
<1> QED
  BY <1>1, <1>3, <1>4, <1>6, <1>7, <1>8, <1>9 DEF w

(* What that does to the readings up to base, n of which are in the file   *)
(* and others unwritten: those of one cycle follow, w of them in the file. *)
Content(file, n, s, base, un) ==
  /\ \A i \in 1..n : file[i][1] = s /\ file[i][2] \in 1..base /\ ~Lost(file[i][2])
  /\ \A i, j \in 1..n : i < j => file[i][2] < file[j][2]
  /\ \A x \in un : x[1] = s => x[2] \in 1..base /\ ~Lost(x[2])
  /\ \A r \in 1..base :
       Lost(r) \/ <<s, r>> \in un \/ \E i \in 1..n : file[i] = <<s, r>>

Extends(new, old, n, w, s, base) ==
  /\ \A i \in 1..n : new[i] = old[i]
  /\ \A j \in 1..w : new[n + j] = <<s, base + j>>

OneCycle(base) ==
  Lost(base + Cycle) /\ \A r \in (base + 1)..(base + num_items) : ~Lost(r)

LEMMA Grows ==
  ASSUME NEW s, NEW n \in Nat, NEW w \in 0..num_items, NEW base \in Nat,
         NEW old, NEW new, NEW un, NEW newUn,
         OneCycle(base), Content(old, n, s, base, un), Extends(new, old, n, w, s, base),
         newUn = un \union Rest(s, base, w)
  PROVE  Content(new, n + w, s, base + Cycle, newUn)
<1> USE Packet DEF Cycle, Content, Extends, OneCycle, Rest
<1>1. ASSUME NEW i \in 1..(n + w), i \notin 1..n
      PROVE  new[i][1] = s /\ new[i][2] = base + (i - n) /\ i - n \in 1..num_items
  <2>1. i - n \in 1..w /\ n + (i - n) = i
    BY <1>1
  <2>2. new[n + (i - n)] = <<s, base + (i - n)>>
    BY <2>1
  <2> QED
    BY <2>1, <2>2
<1>2. ASSUME NEW i \in 1..(n + w)
      PROVE  new[i][1] = s /\ new[i][2] \in 1..(base + Cycle) /\ ~Lost(new[i][2])
  <2>1. CASE i \in 1..n
    BY <2>1
  <2>2. CASE i \notin 1..n
    BY <1>1, <2>2
  <2> QED
    BY <2>1, <2>2
<1>3. ASSUME NEW i \in 1..(n + w), NEW j \in 1..(n + w), i < j
      PROVE  new[i][2] < new[j][2]
  <2>1. CASE j \in 1..n
    BY <1>3, <2>1
  <2>2. CASE i \in 1..n /\ j \notin 1..n
    BY <1>1, <2>2
  <2>3. CASE i \notin 1..n
    BY <1>1, <1>3, <2>3
  <2> QED
    BY <2>1, <2>2, <2>3
<1>4. ASSUME NEW x \in newUn, x[1] = s
      PROVE  x[2] \in 1..(base + Cycle) /\ ~Lost(x[2])
  <2>1. CASE x \in un
    BY <1>4, <2>1
  <2>2. CASE x \notin un
    <3>1. PICK j \in (w + 1)..num_items : x = <<s, base + j>>
      BY <1>4, <2>2
    <3>2. x[2] = base + j /\ base + j \in (base + 1)..(base + num_items)
      BY <3>1
    <3> QED
      BY <3>2
  <2> QED
    BY <2>1, <2>2
<1>5. ASSUME NEW r \in 1..(base + Cycle), ~Lost(r), <<s, r>> \notin newUn
      PROVE  \E i \in 1..(n + w) : new[i] = <<s, r>>
  <2>1. CASE r \in 1..base
    <3>1. PICK i \in 1..n : old[i] = <<s, r>>
      BY <1>5, <2>1
    <3> QED
      BY <3>1
  <2>2. CASE r - base \in 1..w
    <3>1. new[n + (r - base)] = <<s, base + (r - base)>>
      BY <2>2
    <3>2. base + (r - base) = r /\ n + (r - base) \in 1..(n + w)
      BY <2>2
    <3> QED
      BY <3>1, <3>2
  <2>3. CASE r - base \in (w + 1)..num_items
    <3>1. <<s, base + (r - base)>> \in newUn /\ base + (r - base) = r
      BY <2>3
    <3> QED
      BY <1>5, <3>1
  <2> QED
    BY <1>5, <2>1, <2>2, <2>3
<1> QED
  BY <1>2, <1>3, <1>4, <1>5

LEMMA LogKeeps ==
  ASSUME SetupInv, ReadFrame, KeptInv, NEW k \in Shortfalls, LogPacket(k)
  PROVE  KeptInv'
<1>1. /\ it \in Sensors /\ pc = "log" /\ pc' = "send"
      /\ \A s \in Sensors \ {it} : logged'[s] = logged[s]
      /\ UNCHANGED <<it, round, queue, b>>
  BY DEF LogPacket, SetupInv, SetupPlace, ReadFrame, ReadTypes
<1> SUFFICES ASSUME NEW s \in Sensors
             PROVE  CycleInv(s)' /\ QueueInv(s)' /\ FileInv(s)'
  BY <1>1 DEF KeptInv, PacketInv
<1>2. CycleInv(s) /\ QueueInv(s) /\ FileInv(s)
  BY <1>1 DEF KeptInv, Running
<1>3. Start(s)' = Start(s) /\ (s # it => Base(s)' = Base(s))
  BY <1>1 DEF Taken, Start, Base
<1>4. QueueInv(s)'
  BY <1>1, <1>2, <1>3, QueueKept
<1>5. CASE s # it
  <2>1. logged'[s] = logged[s] /\ unwritten \subseteq unwritten'
    BY <1>1, <1>5, Appended
  <2>2. \A x \in unwritten' : x[1] = s => x \in unwritten
    <3>1. ASSUME NEW x \in unwritten', x \notin unwritten PROVE x[1] = it
      <4>1. PICK j \in (Taking(k) + 1)..num_items : x = <<it, Base(it) + j>>
        BY <3>1, Appended DEF Rest
      <4> QED
        BY <4>1
    <3> QED
      BY <1>5, <3>1
  <2> QED
    BY <1>2, <1>3, <1>4, <1>5, <2>1, <2>2, FileKept DEF CycleInv, Lost, Cycle
<1>6. CASE s = it
  <2>1. /\ Cycle \in Nat \ {0} /\ num_items \in Nat /\ Cycle = num_items + 1
        /\ Start(s) \in Int
    BY Counted, Packet DEF Cycle
  <2>2. Base(s) \in Nat /\ Base(s)' = Base(s) + Cycle
    <3>1. Base(s)' = Start(s) /\ Base(s) = Start(s) - Cycle
      BY <1>1, <1>3, <1>6 DEF Base
    <3> QED
      BY <1>2, <2>1, <3>1 DEF CycleInv
  <2>3. Lost(Base(s) + Cycle) /\ \A j \in 1..num_items : ~Lost(Base(s) + j)
    <3>1. /\ (Base(s) + Cycle) % Cycle = 0
          /\ \A j \in 0..(Cycle - 1) : (Base(s) + j) % Cycle = j
      <4>1. Base(s) % Cycle = 0 /\ Base(s) \in Int
        BY <1>2, <2>2 DEF CycleInv, Lost
      <4> QED
        BY <2>1, <4>1, WholeCycles
    <3>2. \A j \in 1..num_items : j \in 0..(Cycle - 1) /\ j # 0
      BY <2>1
    <3> QED
      BY <3>1, <3>2 DEF Lost
  <2>4. ASSUME NEW r \in (Base(s) + 1)..(Base(s) + num_items) PROVE ~Lost(r)
    <3>1. r - Base(s) \in 1..num_items /\ Base(s) + (r - Base(s)) = r
      BY <2>1, <2>2
    <3> QED
      BY <2>3, <3>1
  <2>5. CycleInv(s)'
    BY <2>1, <2>2, <2>3 DEF CycleInv, Lost, Cycle
  <2>6. FileInv(s)'
    <3>1. /\ Len(logged[s]) \in Nat /\ Len(logged'[s]) = Len(logged[s]) + Taking(k)
          /\ Taking(k) \in 0..num_items
          /\ Extends(logged'[s], logged[s], Len(logged[s]), Taking(k), s, Base(s))
          /\ unwritten' = unwritten \union Rest(s, Base(s), Taking(k))
      BY <1>6, Appended DEF Extends
    <3>2. Content(logged[s], Len(logged[s]), s, Base(s), unwritten)
      BY <1>2 DEF FileInv, Content
    <3>3. OneCycle(Base(s))
      BY <2>3, <2>4 DEF OneCycle
    <3>4. Content(logged'[s], Len(logged'[s]), s, Base(s) + Cycle, unwritten')
      BY <2>2, <3>1, <3>2, <3>3, Grows
    <3> QED
      BY <2>2, <3>4 DEF FileInv, Content, Lost, Cycle
  <2> QED
    BY <1>4, <2>5, <2>6
<1> QED
  BY <1>5, <1>6

LEMMA KeptHolds == Spec => []KeptInv
<1>1. Init => KeptInv
  BY DEF Init, KeptInv, Running
<1>2. SetupInv /\ ReadFrame /\ KeptInv /\ [Next]_vars => KeptInv'
  <2> SUFFICES ASSUME SetupInv, ReadFrame, KeptInv, [Next]_vars PROVE KeptInv'
    OBVIOUS
  <2>1. CASE Prepare
    <3>1. UNCHANGED readings /\ pc \notin Running /\ (pc' \in Running => pc' = "sleep")
      BY <2>1 DEF Prepare, Clock, BeginLogger, EndLogger, SetDest, Enable, Running
    <3> SUFFICES ASSUME pc' = "sleep", NEW s \in Sensors
                 PROVE  CycleInv(s)' /\ QueueInv(s)' /\ FileInv(s)'
      BY <3>1 DEF KeptInv, PacketInv
    <3>2. round' = 0 /\ queue'[s] = << >> /\ logged'[s] = << >> /\ unwritten' = {}
      BY <3>1 DEF readings, ReadFrame, NothingYet
    <3>3. Len(queue'[s]) = 0 /\ Len(logged'[s]) = 0
      BY <3>2, Empty
    <3>4. Base(s)' = 0
      <4>1. Taken(s)' = 0
        BY <3>2 DEF Taken
      <4>2. Start(s)' = 0
        BY <3>3, <4>1 DEF Start
      <4> QED
        BY <4>2 DEF Base
    <3>5. Lost(0)
      <4>1. Cycle \in Nat \ {0} /\ 0 = Cycle * 0 + 0 /\ 0 \in 0..(Cycle - 1)
        BY Packet DEF Cycle
      <4> QED
        BY <4>1, Remainder DEF Lost
    <3>6. CycleInv(s)'
      BY <3>4, <3>5 DEF CycleInv, Lost, Cycle
    <3> QED
      BY <3>2, <3>3, <3>4, <3>6 DEF QueueInv, FileInv
  <2>2. CASE UNCHANGED vars
    <3>1. UNCHANGED <<pc, it, round, queue, b, logged, unwritten>>
      BY <2>2 DEF vars, readings
    <3>2. Base(it)' = Base(it)
          /\ \A s \in Sensors : Start(s)' = Start(s) /\ Base(s)' = Base(s)
      BY <3>1 DEF Base, Start, Taken
    <3> QED
      BY <3>1, <3>2, QueueKept, FileKept
         DEF KeptInv, PacketInv, CycleInv, Lost, Cycle
  <2>3. CASE Wake \/ \E ok \in BOOLEAN : SendPacket(ok)
    <3>1. /\ pc \in {"sleep", "send"} /\ pc' \in {"sample", "sleep"}
          /\ UNCHANGED <<queue, logged, unwritten>>
      BY <2>3 DEF Wake, SendPacket, Advance
    <3>2. ASSUME NEW s \in Sensors PROVE Start(s)' = Start(s) /\ Base(s)' = Base(s)
      <4>1. CASE Wake
        <5>1. Taken(s) = round /\ Taken(s)' = round' - 1 /\ round' = round + 1
              /\ round \in Int
          BY <4>1 DEF Wake, Taken, Sensors, ReadFrame, ReadTypes
        <5> QED
          BY <3>1, <5>1 DEF Start, Base
      <4>2. ASSUME NEW ok \in BOOLEAN, SendPacket(ok)
            PROVE  Start(s)' = Start(s) /\ Base(s)' = Base(s)
        <5>1. /\ pc = "send" /\ round' = round /\ it \in Sensors
              /\ \/ pc' = "sample" /\ it' = it + 1
                 \/ it = NumSensors /\ pc' = "sleep"
          BY <4>2, SamplerAssumption DEF SendPacket, Advance, SetupInv, SetupPlace, Sensors
        <5>2. Taken(s)' = Taken(s)
          BY <5>1, SamplerAssumption DEF Taken, Sensors
        <5> QED
          BY <3>1, <5>2 DEF Start, Base
      <4> QED
        BY <2>3, <4>1, <4>2
    <3> QED
      BY <3>1, <3>2, QueueKept, FileKept
         DEF KeptInv, PacketInv, CycleInv, Lost, Cycle, Running
  <2> QED
    BY <2>1, <2>2, <2>3, PushKeeps, DrainKeeps, LogKeeps DEF Next
<1> QED
  BY <1>1, <1>2, SetupHolds, ReadFrameHolds, PTL DEF Spec

(* A log file holds its own sensor's readings, oldest first, each once, for*)
(* any number of sensors and any size of ring: although a packet is written*)
(* whole and all sensors share it, nothing stale reaches a file.           *)
THEOREM FilesInOrder == Spec => []LogIsOrdered
<1>1. ReadFrame /\ KeptInv => LogIsOrdered
  <2> SUFFICES ASSUME ReadFrame, KeptInv, NEW s \in Sensors,
                      NEW i \in DOMAIN logged[s], NEW j \in DOMAIN logged[s]
               PROVE  logged[s][i][1] = s /\ (i < j => logged[s][i][2] < logged[s][j][2])
    BY DEF LogIsOrdered
  <2>1. DOMAIN logged[s] = 1..Len(logged[s])
    BY LenProperties DEF ReadFrame, ReadTypes
  <2>2. CASE pc \in Running
    BY <2>1, <2>2 DEF KeptInv, FileInv
  <2>3. CASE pc \notin Running
    <3>1. Len(logged[s]) = 0
      BY <2>3, Empty DEF ReadFrame, NothingYet
    <3> QED
      BY <2>1, <3>1
  <2> QED
    BY <2>2, <2>3
<1> QED
  BY <1>1, ReadFrameHolds, KeptHolds, PTL
-----------------------------------------------------------------------------
(* A packet about to be sent has been logged.                              *)
SentInv ==
  /\ SentIsLogged
  /\ \A p \in sent : \A x \in Elements(p) : x[1] \in Sensors
  /\ pc = "send" => \A x \in Elements(b) :
       x[1] = it /\ x \in Elements(logged[it]) \union unwritten

LEMMA LogSends ==
  ASSUME SetupInv, ReadFrame, KeptInv, SentInv, NEW k \in Shortfalls, LogPacket(k)
  PROVE  SentInv'
<1> DEFINE w == Taking(k)
<1>1. /\ it \in Sensors /\ pc = "log" /\ pc' = "send"
      /\ UNCHANGED <<it, b, sent>>
      /\ unwritten \subseteq unwritten'
      /\ \A s \in Sensors \ {it} : logged'[s] = logged[s]
  BY DEF LogPacket, SetupInv, SetupPlace, ReadFrame, ReadTypes
<1>2. /\ Len(logged[it]) \in Nat /\ w \in 0..num_items
      /\ \A i \in 1..Len(logged[it]) : logged'[it][i] = logged[it][i]
      /\ \A j \in 1..w : logged'[it][Len(logged[it]) + j] = <<it, Base(it) + j>>
      /\ \A j \in (w + 1)..num_items : <<it, Base(it) + j>> \in unwritten'
  BY Appended DEF Rest
<1>3. /\ DOMAIN logged[it] = 1..Len(logged[it])
      /\ DOMAIN logged'[it] = 1..(Len(logged[it]) + w)
  <2>1. /\ logged[it] \in Seq(Readings \union {Garbage})
        /\ logged'[it] \in Seq(Readings \union {Garbage})
    BY <1>1, PartIsSeq, ConcatProperties DEF LogPacket, ReadFrame, ReadTypes
  <2> QED
    BY <2>1, Appended, LenProperties
<1> HIDE DEF w
<1>4. ASSUME NEW s \in Sensors PROVE Elements(logged[s]) \subseteq Elements(logged'[s])
  <2>1. CASE s # it
    BY <1>1, <2>1 DEF Elements
  <2>2. ASSUME s = it, NEW x \in Elements(logged[s]) PROVE x \in Elements(logged'[s])
    <3>1. PICK i \in 1..Len(logged[it]) : x = logged[it][i]
      BY <1>3, <2>2 DEF Elements
    <3>2. i \in DOMAIN logged'[it] /\ x = logged'[it][i]
      BY <1>2, <1>3, <3>1, Packet
    <3> QED
      BY <2>2, <3>2 DEF Elements
  <2> QED
    BY <2>1, <2>2
<1>5. SentIsLogged'
  BY <1>1, <1>4 DEF SentInv, SentIsLogged
<1>6. ASSUME NEW x \in Elements(b)
      PROVE  x[1] = it /\ x \in Elements(logged'[it]) \union unwritten'
  <2>1. PICK j \in 1..num_items : x = b[j]
    BY <1>6, Packet DEF Elements, ReadFrame, ReadTypes
  <2>2. x = <<it, Base(it) + j>>
    BY <1>1, <2>1 DEF KeptInv, PacketInv, Running
  <2>3. CASE j \in 1..w
    <3>1. logged'[it][Len(logged[it]) + j] = x /\ Len(logged[it]) + j \in DOMAIN logged'[it]
      BY <1>2, <1>3, <2>2, <2>3
    <3> QED
      BY <2>2, <3>1 DEF Elements
  <2>4. CASE j \in (w + 1)..num_items
    BY <1>2, <2>2, <2>4
  <2> QED
    BY <1>2, <2>3, <2>4, Packet
<1> QED
  BY <1>1, <1>5, <1>6 DEF SentInv, Elements

(* What the operator was sent is in the log, but for what no file and no   *)
(* write took of it, for any number of sensors and any failures.           *)
THEOREM PacketsAreLogged == Spec => []SentIsLogged
<1>1. Init => SentInv
  BY DEF Init, SentInv, SentIsLogged
<1>2. SetupInv /\ ReadFrame /\ KeptInv /\ SentInv /\ [Next]_vars => SentInv'
  <2> SUFFICES ASSUME SetupInv, ReadFrame, KeptInv, SentInv, [Next]_vars PROVE SentInv'
    OBVIOUS
  <2>1. CASE Prepare
    <3>1. UNCHANGED readings /\ pc \notin Running /\ pc' # "send"
      BY <2>1 DEF Prepare, Clock, BeginLogger, EndLogger, SetDest, Enable, Running
    <3>2. sent' = {}
      BY <3>1 DEF readings, ReadFrame, NothingYet
    <3> QED
      BY <3>1, <3>2 DEF SentInv, SentIsLogged
  <2>2. CASE Wake \/ SampleAndPush \/ SampleAndDrain \/ UNCHANGED vars
    <3>1. /\ UNCHANGED <<logged, unwritten, sent>>
          /\ pc' = "send" => UNCHANGED <<pc, it, b>>
      BY <2>2 DEF Wake, SampleAndPush, SampleAndDrain, Advance, vars, readings
    <3> QED
      BY <3>1 DEF SentInv, SentIsLogged, Elements
  <2>3. ASSUME NEW ok \in BOOLEAN, SendPacket(ok) PROVE SentInv'
    <3>1. /\ pc = "send" /\ pc' # "send" /\ it \in Sensors
          /\ UNCHANGED <<logged, unwritten>> /\ sent' \subseteq sent \union {b}
      BY <2>3 DEF SendPacket, Advance, SetupInv, SetupPlace
    <3> QED
      BY <3>1 DEF SentInv, SentIsLogged, Elements
  <2> QED
    BY <2>1, <2>2, <2>3, LogSends DEF Next
<1>3. SentInv => SentIsLogged
  BY DEF SentInv
<1> QED
  BY <1>1, <1>2, <1>3, SetupHolds, ReadFrameHolds, KeptHolds, PTL DEF Spec
-----------------------------------------------------------------------------
(* Where the readings are that Accounted speaks of.                        *)
Kept(s) == Elements(queue[s]) \union Elements(logged[s]) \union unwritten
             \union (IF pc = "log" THEN Elements(b) ELSE {})

LEMMA Places ==
  ASSUME SetupInv, ReadFrame, KeptInv, pc \in Running, NEW s \in Sensors
  PROVE  /\ Taken(s) \in Int /\ Start(s) \in Nat /\ Base(s) \in Nat
         /\ Len(queue[s]) \in 0..num_items /\ Taken(s) = Start(s) + Len(queue[s])
         /\ \A j \in 1..num_items : ~Lost(Base(s) + j) /\ ~Lost(Start(s) + j)
         /\ \/ Start(s) = Base(s)
            \/ pc = "log" /\ s = it /\ Start(s) = Base(s) + Cycle /\ Lost(Start(s))
<1>1. /\ Taken(s) \in Int /\ Len(queue[s]) \in 0..num_items /\ Start(s) \in Int
      /\ Cycle \in Nat \ {0} /\ num_items \in Nat /\ Cycle = num_items + 1
  BY Counted, Packet DEF Cycle
<1>2. Base(s) \in Nat /\ Base(s) % Cycle = 0
  BY DEF KeptInv, CycleInv, Lost
<1>3. \A j \in 1..num_items : j \in 0..(Cycle - 1) /\ j # 0
  BY <1>1
<1>4. \A j \in 1..num_items : ~Lost(Base(s) + j)
  <2>1. \A j \in 0..(Cycle - 1) : (Base(s) + j) % Cycle = j
    BY <1>1, <1>2, WholeCycles
  <2> QED
    BY <1>3, <2>1 DEF Lost
<1>5. Taken(s) = Start(s) + Len(queue[s])
  BY <1>1 DEF Start
<1>6. CASE pc = "log" /\ s = it
  <2>1. Start(s) = Base(s) + Cycle
    BY <1>1, <1>6 DEF Base
  <2>2. Start(s) % Cycle = 0
    BY <1>1, <1>2, <2>1, WholeCycles
  <2>3. \A j \in 0..(Cycle - 1) : (Start(s) + j) % Cycle = j
    BY <1>1, <2>2, WholeCycles
  <2>4. \A j \in 1..num_items : ~Lost(Start(s) + j)
    BY <1>3, <2>3 DEF Lost
  <2>5. Lost(Start(s)) /\ Start(s) \in Nat
    BY <1>1, <1>2, <2>1, <2>2 DEF Lost
  <2> QED
    BY <1>1, <1>2, <1>4, <1>5, <1>6, <2>1, <2>4, <2>5
<1>7. CASE ~(pc = "log" /\ s = it)
  <2>1. Start(s) = Base(s)
    BY <1>7 DEF Base
  <2>2. Start(s) \in Nat /\ \A j \in 1..num_items : ~Lost(Start(s) + j)
    BY <1>2, <1>4, <2>1
  <2>3. \A j \in 1..num_items : ~Lost(Base(s) + j) /\ ~Lost(Start(s) + j)
    BY <1>4, <2>2
  <2>4. /\ Taken(s) \in Int /\ Start(s) \in Nat /\ Base(s) \in Nat
        /\ Len(queue[s]) \in 0..num_items
    BY <1>1, <1>2, <2>2
  <2> QED
    BY <1>5, <2>1, <2>3, <2>4
<1> QED
  BY <1>6, <1>7

LEMMA KeptIsNotLost ==
  ASSUME SetupInv, ReadFrame, KeptInv, pc \in Running,
         NEW s \in Sensors, NEW r \in Int, <<s, r>> \in Kept(s)
  PROVE  ~Lost(r)
<1>1. CASE <<s, r>> \in Elements(queue[s])
  <2>1. PICK i \in 1..Len(queue[s]) : queue[s][i] = <<s, r>>
    BY <1>1, LenProperties DEF Elements, ReadFrame, ReadTypes
  <2>2. r = Start(s) + i
    BY <2>1 DEF KeptInv, QueueInv
  <2>3. i \in 1..num_items
    BY <2>1, Places, Packet
  <2> QED
    BY <2>2, <2>3, Places
<1>2. CASE <<s, r>> \in Elements(logged[s])
  <2>1. PICK i \in 1..Len(logged[s]) : logged[s][i] = <<s, r>>
    BY <1>2, LenProperties DEF Elements, ReadFrame, ReadTypes
  <2>2. logged[s][i][2] = r /\ ~Lost(logged[s][i][2])
    BY <2>1 DEF KeptInv, FileInv
  <2> QED
    BY <2>2
<1>3. CASE pc = "log" /\ <<s, r>> \in Elements(b)
  <2>1. PICK j \in 1..num_items : b[j] = <<s, r>>
    BY <1>3, Packet DEF Elements, ReadFrame, ReadTypes
  <2>2. <<s, r>> = <<it, Base(it) + j>>
    BY <1>3, <2>1 DEF KeptInv, PacketInv
  <2>3. r = Base(s) + j
    BY <2>2
  <2> QED
    BY <2>3, Places
<1>4. CASE <<s, r>> \in unwritten
  <2>1. <<s, r>>[1] = s /\ <<s, r>>[2] = r
    OBVIOUS
  <2> QED
    BY <1>4, <2>1 DEF KeptInv, FileInv
<1> QED
  BY <1>1, <1>2, <1>3, <1>4 DEF Kept

LEMMA NotLostIsKept ==
  ASSUME SetupInv, ReadFrame, KeptInv, pc \in Running, NEW s \in Sensors,
         NEW r \in 1..Taken(s), ~Lost(r)
  PROVE  <<s, r>> \in Kept(s)
<1>1. CASE r \in 1..Base(s)
  <2>1. <<s, r>> \in unwritten \/ \E i \in 1..Len(logged[s]) : logged[s][i] = <<s, r>>
    BY <1>1 DEF KeptInv, FileInv
  <2> QED
    BY <2>1, LenProperties DEF Kept, Elements, ReadFrame, ReadTypes
<1>2. CASE r > Start(s)
  <2>1. r - Start(s) \in 1..Len(queue[s]) /\ Start(s) + (r - Start(s)) = r
    BY <1>2, Places
  <2>2. queue[s][r - Start(s)] = <<s, r>>
    BY <2>1 DEF KeptInv, QueueInv
  <2> QED
    BY <2>1, <2>2, LenProperties DEF Kept, Elements, ReadFrame, ReadTypes
<1>3. CASE r > Base(s) /\ r <= Start(s)
  <2>1. pc = "log" /\ s = it /\ Start(s) = Base(s) + Cycle /\ Lost(Start(s))
    BY <1>3, Places
  <2>2. r - Base(s) \in 1..num_items /\ Base(s) + (r - Base(s)) = r
    <3>1. r # Start(s)
      BY <2>1
    <3> QED
      BY <1>3, <2>1, <3>1, Places, Packet DEF Cycle
  <2>3. b[r - Base(s)] = <<s, r>>
    BY <2>1, <2>2 DEF KeptInv, PacketInv
  <2> QED
    BY <2>1, <2>2, <2>3, Packet DEF Kept, Elements, ReadFrame, ReadTypes
<1> QED
  BY <1>1, <1>2, <1>3, Places

(* Exactly one of every num_items + 1 readings is nowhere, the one that    *)
(* found the ring full; all others are queued, in the packet, logged, or   *)
(* among those that no file and no write took.                             *)
THEOREM ReadingsAccounted == Spec => []Accounted
<1>1. SetupInv /\ ReadFrame /\ KeptInv => Accounted
  <2> SUFFICES ASSUME SetupInv, ReadFrame, KeptInv, NEW s \in Sensors,
                      NEW r \in 1..Taken(s)
               PROVE  <<s, r>> \in Kept(s) <=> ~Lost(r)
    BY DEF Accounted, Kept, Lost, Cycle
  <2>1. pc \in Running
    <3>1. CASE pc \notin Running
      <4>1. Taken(s) \in {0, -1}
        BY <3>1 DEF ReadFrame, NothingYet, Taken
      <4> QED
        BY <4>1
    <3> QED
      BY <3>1
  <2>2. r \in Int
    BY Counted
  <2> QED
    BY <2>1, <2>2, KeptIsNotLost, NotLostIsKept
<1> QED
  BY <1>1, SetupHolds, ReadFrameHolds, KeptHolds, PTL
-----------------------------------------------------------------------------
(* The rings as BoundedQueue's.                                            *)
LEMMA StepCallsRing ==
  ASSUME SetupInv, ReadFrame, [Next]_vars, NEW s \in Sensors
  PROVE  \/ queue'[s] = queue[s]
         \/ /\ Len(queue[s]) < num_items
            /\ \E r \in 1..MaxRounds : queue'[s] = Append(queue[s], <<s, r>>)
         \/ /\ Len(queue[s]) = num_items
            /\ queue'[s] = << >> /\ b' = queue[s]
<1>1. queue \in [Sensors -> Seq(Readings)]
  BY DEF ReadFrame, ReadTypes
<1>2. CASE SampleAndPush
  <2>1. /\ it \in Sensors /\ round \in 1..MaxRounds /\ Len(queue[it]) < num_items
        /\ queue' = [queue EXCEPT ![it] = Append(queue[it], <<it, round>>)]
    BY <1>2, SamplerAssumption
       DEF SampleAndPush, SetupInv, SetupPlace, ReadFrame, ReadTypes
  <2> QED
    BY <1>1, <2>1
<1>3. CASE SampleAndDrain
  <2>1. /\ it \in Sensors /\ queue[it] \in Seq(Readings) /\ Len(queue[it]) = num_items
        /\ queue' = [queue EXCEPT ![it] = << >>]
        /\ b' \in [1..PacketItems -> Readings]
        /\ \A j \in 1..num_items : b'[j] = queue[it][j]
    BY <1>1, <1>3, Drain
  <2>2. b' \in Seq(Readings) /\ Len(b') = num_items
    BY <2>1, PacketIsSeq
  <2>3. b' = queue[it]
    BY <2>1, <2>2, SeqEqual
  <2> QED
    BY <1>1, <2>1, <2>3
<1>4. CASE \/ Prepare \/ Wake \/ UNCHANGED vars
           \/ \E k \in Shortfalls : LogPacket(k)
           \/ \E ok \in BOOLEAN : SendPacket(ok)
  BY <1>4 DEF Prepare, Clock, BeginLogger, EndLogger, SetDest, Enable, Wake, LogPacket,
     SendPacket, readings, vars
<1> QED
  BY <1>2, <1>3, <1>4 DEF Next

(* Every step is, for each ring, a reading accepted, or one refused and    *)
(* all that waits handed over to the packet, or nothing.                   *)
THEOREM RingsAreCalled == Spec => RingCalls
<1>1. SetupInv /\ ReadFrame /\ [Next]_vars =>
        [ \A s \in Sensors :
            \/ queue'[s] = queue[s]
            \/ /\ Len(queue[s]) < num_items
               /\ \E r \in 1..MaxRounds : queue'[s] = Append(queue[s], <<s, r>>)
            \/ /\ Len(queue[s]) = num_items
               /\ queue'[s] = << >> /\ b' = queue[s] ]_vars
  BY StepCallsRing
<1> QED
  BY <1>1, SetupHolds, ReadFrameHolds, PTL DEF Spec, RingCalls
-----------------------------------------------------------------------------
(* A packet on its way out is whole, and so is all that was sent.          *)
WholeInv == SentIsWhole /\ (pc = "send" => Whole(b))

LEMMA LoggedIsWhole ==
  ASSUME SetupInv, ReadFrame, KeptInv, pc = "log"
  PROVE  Whole(b)
<1> DEFINE c == Base(it)
<1>1. /\ it \in Sensors /\ it # 0 /\ c \in Nat /\ c % (num_items + 1) = 0
      /\ \A j \in 1..num_items : b[j] = <<it, c + j>>
  BY DEF SetupInv, SetupPlace, KeptInv, PacketInv, CycleInv, Lost, Cycle, Running, Sensors
<1> HIDE DEF c
<1>2. b[1] \in Readings \union {Garbage} /\ b[1] = <<it, c + 1>>
  BY <1>1, Packet DEF ReadFrame, ReadTypes
<1>3. c + 1 \in 1..MaxRounds
  BY <1>1, <1>2 DEF Readings, Garbage
<1>4. c \in 0..MaxRounds
  BY <1>1, <1>3, SamplerAssumption
<1> QED
  BY <1>1, <1>4 DEF Whole

(* Whatever fails on the way, a packet that leaves is num_items readings   *)
(* of one sensor in a row.                                                 *)
THEOREM PacketsAreWhole == Spec => []SentIsWhole
<1>1. Init => WholeInv
  BY DEF Init, WholeInv, SentIsWhole
<1>2. SetupInv /\ ReadFrame /\ KeptInv /\ WholeInv /\ [Next]_vars => WholeInv'
  <2> SUFFICES ASSUME SetupInv, ReadFrame, KeptInv, WholeInv, [Next]_vars PROVE WholeInv'
    OBVIOUS
  <2>1. ASSUME NEW k \in Shortfalls, LogPacket(k) PROVE WholeInv'
    <3>1. pc = "log" /\ b' = b /\ sent' = sent
      BY <2>1 DEF LogPacket
    <3>2. Whole(b)
      BY <3>1, LoggedIsWhole
    <3> QED
      BY <3>1, <3>2 DEF WholeInv, SentIsWhole, Whole
  <2>2. ASSUME NEW ok \in BOOLEAN, SendPacket(ok) PROVE WholeInv'
    BY <2>2 DEF SendPacket, Advance, WholeInv, SentIsWhole, Whole
  <2>3. CASE Prepare \/ Wake \/ SampleAndPush \/ SampleAndDrain \/ UNCHANGED vars
    <3>1. sent' = sent /\ (pc' = "send" => UNCHANGED <<pc, b>>)
      BY <2>3 DEF Prepare, Clock, BeginLogger, EndLogger, SetDest, Enable, readings, Wake,
         SampleAndPush, SampleAndDrain, Advance, vars
    <3> QED
      BY <3>1 DEF WholeInv, SentIsWhole, Whole
  <2> QED
    BY <2>1, <2>2, <2>3 DEF Next
<1>3. WholeInv => SentIsWhole
  BY DEF WholeInv
<1> QED
  BY <1>1, <1>2, <1>3, SetupHolds, ReadFrameHolds, KeptHolds, PTL DEF Spec
=============================================================================
