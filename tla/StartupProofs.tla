--------------------------- MODULE StartupProofs ----------------------------
(***************************************************************************)
(* Proofs about the bus while main starts up: its threads exclude each     *)
(* other, and the chip selects main has set stay set but for the reader's. *)
(***************************************************************************)
EXTENDS Startup, TLAPS

(* The pins of either engine: the chip selects first, set HIGH.            *)
LEMMA InOrder ==
  ASSUME NEW e \in {"LUNA", "TITAN"}
  PROVE  /\ Len(PinsOf(e)) \in Nat \ {0}
         /\ \A i \in 1..Len(PinsOf(e)) :
              /\ PinsOf(e)[i][1] \in BusPins
              /\ PinsOf(e)[i][2] \in {LOW, HIGH}
              /\ i = 1 => PinsOf(e)[i] = <<ADC_0_CS, HIGH>>
              /\ i = 2 => PinsOf(e)[i] = <<ADC_1_CS, HIGH>>
              /\ i = 3 => PinsOf(e)[i] = <<ADC_2_CS, HIGH>>
              /\ i > 3 => PinsOf(e)[i][1] \in 1..6
<1>1. CASE e = "LUNA"
  <2>1. PinsOf(e) = initialize_pins
    BY <1>1 DEF PinsOf
  <2>2. Len(initialize_pins) = 6
    BY DEF initialize_pins
  <2>3. \A i \in 1..6 : i = 1 \/ i = 2 \/ i = 3 \/ i = 4 \/ i = 5 \/ i = 6
    OBVIOUS
  <2> QED
    BY <2>1, <2>2, <2>3 DEF initialize_pins, BusPins, Converters, ADC_0_CS,
       ADC_1_CS, ADC_2_CS, LOW, HIGH
<1>2. CASE e = "TITAN"
  <2>1. PinsOf(e) = titan_initialize_pins
    BY <1>2 DEF PinsOf
  <2>2. Len(titan_initialize_pins) = 7
    BY DEF titan_initialize_pins
  <2>3. \A i \in 1..7 :
          i = 1 \/ i = 2 \/ i = 3 \/ i = 4 \/ i = 5 \/ i = 6 \/ i = 7
    OBVIOUS
  <2> QED
    BY <2>1, <2>2, <2>3 DEF titan_initialize_pins, BusPins, Converters,
       ADC_0_CS, ADC_1_CS, ADC_2_CS, LOW, HIGH
<1> QED
  BY <1>1, <1>2

(* The table the code reads from agrees with the wiring of the threads.    *)
LEMMA TableIsWiring ==
  ASSUME NEW t \in Threads, NEW s \in SensorsOf[t]
  PROVE  /\ s \in 0..(NUM_SENSORS - 1) /\ InTable(s)
         /\ SENSOR_PINS(s) = WiredTo[t]
         /\ WiredTo[t] \in Converters /\ WiredTo[t] \in BusPins
BY DEF Threads, SensorsOf, InTable, NUM_SENSORS, SENSOR_PINS, WiredTo, LC_ADC,
   PT_ADC, TC_ADC, Converters, BusPins, ADC_0_CS, ADC_1_CS, ADC_2_CS

LEMMA InitHolds == Init => IInv
<1> SUFFICES ASSUME Init PROVE IInv
  OBVIOUS
<1> USE DEF Init, BusInit, Everywhere
<1>1. n \in 1..Len(PinsOf(engine))
  BY InOrder
<1>2. TypeOK
  BY <1>1 DEF TypeOK, MainLabels, Starting, Threads, LOW, HIGH
<1>3. Exclusive
  BY DEF Exclusive, Threads, Nobody
<1>4. Parked
  BY DEF Parked
<1>5. Undisturbed
  BY DEF Undisturbed
<1> QED
  BY <1>2, <1>3, <1>4, <1>5 DEF IInv
-----------------------------------------------------------------------------
(* A step of main that leaves the bus alone, and the end of the process.   *)
LEMMA MainMoves ==
  ASSUME IInv, UNCHANGED <<busVars, engine, n>>, mpc' \in MainLabels,
         mpc' \notin {"fsel", "write"},
         mpc' \in Starting \union {"exited"} => parked = {}
  PROVE  IInv'
<1> USE DEF busVars, pinVars
<1>1. TypeOK'
  BY DEF IInv, TypeOK
<1>2. Exclusive'
  BY DEF IInv, Exclusive
<1>3. Parked'
  BY DEF IInv, Parked
<1>4. Undisturbed'
  BY DEF IInv, Undisturbed
<1> QED
  BY <1>1, <1>2, <1>3, <1>4 DEF IInv

LEMMA EndKeeps == IInv /\ Ends => IInv'
<1> SUFFICES ASSUME IInv, Ends PROVE IInv'
  OBVIOUS
<1> USE DEF Ends, ThreadsEnd, pinVars, Everywhere
<1>1. n' \in 1..Len(PinsOf(engine'))
  BY InOrder
<1>2. TypeOK'
  BY <1>1 DEF IInv, TypeOK, MainLabels
<1>3. Exclusive'
  BY DEF Exclusive, Threads, Nobody
<1>4. Parked'
  BY DEF Parked
<1>5. Undisturbed'
  BY DEF Undisturbed
<1> QED
  BY <1>2, <1>3, <1>4, <1>5 DEF IInv
-----------------------------------------------------------------------------
(* main up to the pins.                                                    *)
LEMMA StartingKeeps ==
  ASSUME IInv, NEW ok \in BOOLEAN,
         \/ ReadConfig(ok) \/ InitBcm(ok) \/ OpenSocket(ok) \/ Listen(ok)
         \/ StartThreads \/ NewVisitor
  PROVE  IInv'
<1> USE DEF Step
<1>1. CASE ReadConfig(ok) \/ OpenSocket(ok) \/ Listen(ok)
  BY <1>1, MainMoves DEF ReadConfig, OpenSocket, Listen, IInv, Parked, MainLabels,
     Starting
<1>2. CASE InitBcm(ok)
  <2> USE <1>2 DEF InitBcm
  <2>1. TypeOK'
    BY DEF IInv, TypeOK, MainLabels, Starting
  <2>2. Exclusive'
    BY DEF IInv, Exclusive
  <2>3. Parked'
    BY DEF IInv, Parked, Starting
  <2>4. Undisturbed'
    BY DEF IInv, Undisturbed
  <2> QED
    BY <2>1, <2>2, <2>3, <2>4 DEF IInv
<1>3. CASE StartThreads
  <2>1. PICK t \in Threads : Goto(t, "off", "idle")
    BY <1>3 DEF StartThreads, StartThread, Threads
  <2>2. /\ mpc \in Starting /\ mpc' \in Starting
        /\ UNCHANGED <<item, holder, output, level, parked, clean, engine, n>>
    BY <1>3 DEF StartThreads, StartThread, Starting, pinVars
  <2>3. tpc \in [Threads -> {"off", "idle", "select", "transfer", "deselect", "unlock"}]
    BY DEF IInv, TypeOK
  <2>4. TypeOK'
    BY <2>1, <2>2 DEF IInv, TypeOK, Goto, MainLabels
  <2>5. Exclusive'
    BY <2>1, <2>2, <2>3 DEF IInv, Exclusive, Goto
  <2>6. Parked'
    BY <2>2 DEF IInv, Parked, Starting
  <2>7. Undisturbed'
    BY <2>1, <2>2, <2>3 DEF IInv, Undisturbed, Goto
  <2> QED
    BY <2>4, <2>5, <2>6, <2>7 DEF IInv
<1>4. CASE NewVisitor
  <2> USE <1>4 DEF NewVisitor, busVars, pinVars
  <2>1. n' \in 1..Len(PinsOf(engine'))
    BY InOrder
  <2>2. TypeOK'
    BY <2>1 DEF IInv, TypeOK, MainLabels
  <2>3. Exclusive'
    BY DEF IInv, Exclusive
  <2>4. parked = {}
    BY DEF IInv, Parked, Starting
  <2>5. Parked'
    BY <2>4 DEF Parked, Starting
  <2>6. Undisturbed'
    BY DEF IInv, Undisturbed
  <2> QED
    BY <2>2, <2>3, <2>5, <2>6 DEF IInv
<1> QED
  BY <1>1, <1>2, <1>3, <1>4
-----------------------------------------------------------------------------
(* main on the pins.  A chip select becomes an output before it is parked, *)
(* and once all are parked only driver pins are left.                      *)
LEMMA MakeOutputKeeps == IInv /\ MakeOutput => IInv'
<1> SUFFICES ASSUME IInv, MakeOutput PROVE IInv'
  OBVIOUS
<1> USE DEF MakeOutput, Step, Fsel
<1>1. PinsOf(engine)[n][1] \in BusPins
  BY InOrder DEF IInv, TypeOK
<1>2. TypeOK'
  BY <1>1 DEF IInv, TypeOK, MainLabels
<1>3. Exclusive'
  BY DEF IInv, Exclusive
<1>4. Parked'
  BY DEF IInv, Parked, Starting
<1>5. Undisturbed'
  BY DEF IInv, Undisturbed
<1> QED
  BY <1>2, <1>3, <1>4, <1>5 DEF IInv

LEMMA WritePinKeeps == IInv /\ WritePin => IInv'
<1> SUFFICES ASSUME IInv, WritePin PROVE IInv'
  OBVIOUS
<1> DEFINE p == PinsOf(engine)[n]
           N == Len(PinsOf(engine))
<1>1. /\ mpc = "write" /\ mpc' \in {"fsel", "serve"}
      /\ level' = [level EXCEPT ![p[1]] = p[2]]
      /\ parked' = parked \union ({p[1]} \intersect Converters)
      /\ n' = IF n = N THEN n ELSE n + 1
      /\ mpc' = "fsel" => n' = n + 1
      /\ UNCHANGED <<tpc, item, holder, output, clean, engine>>
  BY DEF WritePin, Step, Write
<1>2. /\ N \in Nat \ {0} /\ n \in 1..N
      /\ p[1] \in BusPins /\ p[2] \in {LOW, HIGH}
      /\ n = 1 => p = <<ADC_0_CS, HIGH>>
      /\ n = 2 => p = <<ADC_1_CS, HIGH>>
      /\ n = 3 => p = <<ADC_2_CS, HIGH>>
      /\ n > 3 => p[1] \in 1..6
  BY InOrder DEF IInv, TypeOK
<1> HIDE DEF p, N
<1>3. /\ level \in [BusPins -> {LOW, HIGH}]
      /\ p[1] \in Converters => p[2] = HIGH /\ n <= 3
  BY <1>2 DEF IInv, TypeOK, Converters, ADC_0_CS, ADC_1_CS, ADC_2_CS
<1>4. TypeOK'
  <2>1. n' \in 1..N
    BY <1>1, <1>2
  <2> QED
    BY <1>1, <1>2, <1>3, <2>1 DEF IInv, TypeOK, MainLabels, N
<1>5. Exclusive'
  BY <1>1 DEF IInv, Exclusive
<1>6. Parked'
  <2>1. p[1] \in output
    BY <1>1 DEF IInv, Parked, p
  <2>2. mpc' = "fsel" => /\ ADC_0_CS \in parked' => n' > 1
                         /\ ADC_1_CS \in parked' => n' > 2
                         /\ ADC_2_CS \in parked' => n' > 3
    BY <1>1, <1>2, <1>3 DEF IInv, Parked, Converters, ADC_0_CS, ADC_1_CS, ADC_2_CS
  <2>3. ASSUME NEW c \in parked', level'[c] = LOW
        PROVE  \E t \in Threads : tpc[t] \in {"transfer", "deselect"} /\ WiredTo[t] = c
    <3>1. c \in Converters
      BY <1>1, <2>3 DEF IInv, TypeOK
    <3>2. c # p[1]
      BY <1>1, <1>2, <1>3, <2>3, <3>1 DEF LOW, HIGH
    <3>3. c \in parked /\ level[c] = LOW
      BY <1>1, <1>2, <1>3, <2>3, <3>2
    <3> QED
      BY <3>3 DEF IInv, Parked
  <2>4. parked' \subseteq output'
    BY <1>1, <2>1 DEF IInv, Parked
  <2> QED
    BY <1>1, <2>2, <2>3, <2>4 DEF Parked, Starting
<1>7. Undisturbed'
  <2> SUFFICES ASSUME clean, NEW t \in Threads, tpc[t] = "transfer"
               PROVE  Converters \subseteq parked' /\ level'[WiredTo[t]] = LOW
    BY <1>1 DEF Undisturbed
  <2>1. Converters \subseteq parked /\ level[WiredTo[t]] = LOW
    BY DEF IInv, Undisturbed
  <2>2. n > 3
    BY <1>1, <2>1 DEF IInv, Parked, Converters
  <2>3. WiredTo[t] \in Converters /\ WiredTo[t] \in BusPins
    BY DEF Threads, WiredTo, LC_ADC, PT_ADC, TC_ADC, Converters, BusPins
  <2>4. WiredTo[t] # p[1]
    BY <1>2, <1>3, <2>2, <2>3
  <2> QED
    BY <1>1, <1>2, <1>3, <2>1, <2>3, <2>4
<1> QED
  BY <1>4, <1>5, <1>6, <1>7 DEF IInv

LEMMA DriveKeeps ==
  ASSUME IInv, StartupAssumption, NEW q \in Written, NEW l \in {LOW, HIGH},
         Drive(q, l)
  PROVE  IInv'
<1> USE DEF Drive, Write, mainVars
<1>1. /\ q \in BusPins /\ q \notin Converters
      /\ level \in [BusPins -> {LOW, HIGH}]
  BY DEF IInv, TypeOK, StartupAssumption, BusPins, Converters, ADC_0_CS, ADC_1_CS,
     ADC_2_CS
<1>2. TypeOK'
  BY <1>1 DEF IInv, TypeOK
<1>3. Exclusive'
  BY DEF IInv, Exclusive
<1>4. Parked'
  <2>1. parked \subseteq Converters
    BY DEF IInv, TypeOK
  <2> QED
    BY <1>1, <2>1 DEF IInv, Parked, Starting
<1>5. Undisturbed'
  <2>1. \A t \in Threads : WiredTo[t] \in Converters
    BY DEF Threads, WiredTo, LC_ADC, PT_ADC, TC_ADC, Converters
  <2> QED
    BY <1>1, <2>1 DEF IInv, Undisturbed, BusPins
<1> QED
  BY <1>2, <1>3, <1>4, <1>5 DEF IInv
-----------------------------------------------------------------------------
(* The threads.  What all their steps share: who is inside read_item holds *)
(* the mutex, so there is only one, and it reads a sensor of its own.      *)
LEMMA Reader ==
  ASSUME IInv, NEW t \in Threads, tpc[t] \notin {"off", "idle"}
  PROVE  /\ holder = t
         /\ \A u \in Threads : u # t => tpc[u] \in {"off", "idle"}
         /\ SENSOR_PINS(item[t]) = WiredTo[t]
         /\ WiredTo[t] \in Converters /\ WiredTo[t] \in BusPins
         /\ tpc \in [Threads -> {"off", "idle", "select", "transfer", "deselect", "unlock"}]
         /\ item \in [Threads -> {NoSensor} \union 0..(NUM_SENSORS - 1)]
         /\ level \in [BusPins -> {LOW, HIGH}]
<1>1. holder = t /\ item[t] \in SensorsOf[t]
  BY DEF IInv, Exclusive
<1>2. SENSOR_PINS(item[t]) = WiredTo[t]
  BY <1>1, TableIsWiring
<1>3. WiredTo[t] \in Converters /\ WiredTo[t] \in BusPins
  BY <1>1, TableIsWiring
<1>4. \A u \in Threads : u # t => tpc[u] \in {"off", "idle"}
  BY <1>1 DEF IInv, Exclusive
<1> QED
  BY <1>1, <1>2, <1>3, <1>4 DEF IInv, TypeOK

LEMMA LockKeeps ==
  ASSUME IInv, NEW t \in Threads, NEW s \in SensorsOf[t],
         Lock(t, s), UNCHANGED mainVars
  PROVE  IInv'
<1> USE DEF mainVars, pinVars
<1>1. /\ s \in 0..(NUM_SENSORS - 1)
      /\ holder = Nobody /\ holder' = t
      /\ tpc[t] = "idle" /\ tpc' = [tpc EXCEPT ![t] = "select"]
      /\ item' = [item EXCEPT ![t] = s]
      /\ UNCHANGED <<output, level, parked, clean, mpc, engine, n>>
  BY TableIsWiring DEF Lock, Goto
<1>2. /\ tpc \in [Threads -> {"off", "idle", "select", "transfer", "deselect", "unlock"}]
      /\ item \in [Threads -> {NoSensor} \union 0..(NUM_SENSORS - 1)]
  BY DEF IInv, TypeOK
<1>3. TypeOK'
  BY <1>1 DEF IInv, TypeOK
<1>4. Exclusive'
  <2> SUFFICES ASSUME NEW u \in Threads
               PROVE  /\ tpc'[u] \in {"off", "idle"} => holder' # u
                      /\ tpc'[u] \notin {"off", "idle"} =>
                           holder' = u /\ item'[u] \in SensorsOf[u]
    BY DEF Exclusive
  <2>1. CASE u = t
    BY <1>1, <1>2, <2>1
  <2>2. CASE u # t
    BY <1>1, <1>2, <2>2 DEF IInv, Exclusive, Threads, Nobody
  <2> QED
    BY <2>1, <2>2
<1>5. Parked'
  BY <1>1, <1>2 DEF IInv, Parked
<1>6. Undisturbed'
  BY <1>1, <1>2 DEF IInv, Undisturbed
<1> QED
  BY <1>3, <1>4, <1>5, <1>6 DEF IInv

LEMMA ReadingKeeps ==
  ASSUME IInv, NEW t \in Threads, Reads(t)
  PROVE  IInv'
<1> USE DEF Reads, mainVars, pinVars
<1>1. tpc[t] \in {"select", "transfer", "deselect", "unlock"}
  BY DEF Reading, Select, Transfer, Deselect, Unlock, Goto
<1>2. /\ holder = t
      /\ \A u \in Threads : u # t => tpc[u] \in {"off", "idle"}
      /\ SENSOR_PINS(item[t]) = WiredTo[t]
      /\ WiredTo[t] \in Converters /\ WiredTo[t] \in BusPins
      /\ tpc \in [Threads -> {"off", "idle", "select", "transfer", "deselect", "unlock"}]
      /\ item \in [Threads -> {NoSensor} \union 0..(NUM_SENSORS - 1)]
      /\ level \in [BusPins -> {LOW, HIGH}]
  BY <1>1, Reader
<1>3. CASE Select(t)
  <2>1. /\ tpc' = [tpc EXCEPT ![t] = "transfer"]
        /\ level' = [level EXCEPT ![WiredTo[t]] = LOW]
        /\ clean' = (Converters \subseteq parked)
        /\ UNCHANGED <<item, holder, output, parked, mpc, engine, n>>
    BY <1>2, <1>3 DEF Select, Goto, Write
  <2>2. TypeOK'
    BY <1>2, <2>1 DEF IInv, TypeOK
  <2>3. Exclusive'
    BY <1>1, <1>2, <2>1 DEF IInv, Exclusive
  <2>4. Parked'
    <3>1. ASSUME NEW c \in parked, level'[c] = LOW
          PROVE  \E u \in Threads : tpc'[u] \in {"transfer", "deselect"} /\ WiredTo[u] = c
      <4>1. CASE c = WiredTo[t]
        BY <1>2, <2>1, <4>1
      <4>2. CASE c # WiredTo[t]
        <5>1. PICK u \in Threads : tpc[u] \in {"transfer", "deselect"} /\ WiredTo[u] = c
          BY <1>2, <2>1, <3>1, <4>2 DEF IInv, TypeOK, Parked, BusPins
        <5> QED
          BY <1>2, <4>2, <5>1
      <4> QED
        BY <4>1, <4>2
    <3> QED
      BY <2>1, <3>1 DEF IInv, Parked
  <2>5. Undisturbed'
    BY <1>2, <2>1 DEF Undisturbed
  <2> QED
    BY <2>2, <2>3, <2>4, <2>5 DEF IInv
<1>4. CASE Transfer(t)
  <2>1. /\ tpc[t] = "transfer" /\ tpc' = [tpc EXCEPT ![t] = "deselect"]
        /\ UNCHANGED <<item, holder, output, level, parked, clean, mpc, engine, n>>
    BY <1>4 DEF Transfer, Goto
  <2>2. TypeOK'
    BY <1>2, <2>1 DEF IInv, TypeOK
  <2>3. Exclusive'
    BY <1>1, <1>2, <2>1 DEF IInv, Exclusive
  <2>4. \A u \in Threads : tpc[u] \in {"transfer", "deselect"}
                             => tpc'[u] \in {"transfer", "deselect"}
    BY <1>2, <2>1
  <2>5. Parked'
    BY <2>1, <2>4 DEF IInv, Parked
  <2>6. Undisturbed'
    BY <1>2, <2>1 DEF IInv, Undisturbed
  <2> QED
    BY <2>2, <2>3, <2>5, <2>6 DEF IInv
<1>5. CASE Deselect(t)
  <2>1. /\ tpc' = [tpc EXCEPT ![t] = "unlock"]
        /\ level' = [level EXCEPT ![WiredTo[t]] = HIGH]
        /\ UNCHANGED <<item, holder, output, parked, clean, mpc, engine, n>>
    BY <1>2, <1>5 DEF Deselect, Goto, Write
  <2>2. TypeOK'
    BY <1>2, <2>1 DEF IInv, TypeOK
  <2>3. Exclusive'
    BY <1>1, <1>2, <2>1 DEF IInv, Exclusive
  <2>4. Parked'
    <3>1. ASSUME NEW c \in parked PROVE level'[c] = HIGH
      <4>1. CASE c = WiredTo[t]
        BY <1>2, <2>1, <4>1
      <4>2. CASE c # WiredTo[t]
        <5>1. ~\E u \in Threads : tpc[u] \in {"transfer", "deselect"} /\ WiredTo[u] = c
          BY <1>2, <4>2
        <5>2. c \in BusPins
          BY DEF IInv, TypeOK, BusPins
        <5> QED
          BY <1>2, <2>1, <4>2, <5>1, <5>2 DEF IInv, Parked
      <4> QED
        BY <4>1, <4>2
    <3>2. \A c \in parked : level'[c] # LOW
      BY <3>1 DEF LOW, HIGH
    <3> QED
      BY <2>1, <3>2 DEF IInv, Parked
  <2>5. Undisturbed'
    BY <1>2, <2>1 DEF Undisturbed
  <2> QED
    BY <2>2, <2>3, <2>4, <2>5 DEF IInv
<1>6. CASE Unlock(t)
  <2>1. /\ tpc[t] = "unlock" /\ tpc' = [tpc EXCEPT ![t] = "idle"]
        /\ holder' = Nobody
        /\ item' = [item EXCEPT ![t] = NoSensor]
        /\ UNCHANGED <<output, level, parked, clean, mpc, engine, n>>
    BY <1>6 DEF Unlock, Goto
  <2>2. TypeOK'
    BY <1>2, <2>1 DEF IInv, TypeOK
  <2>3. Exclusive'
    BY <1>2, <2>1 DEF Exclusive, Threads, Nobody
  <2>4. \A u \in Threads : tpc'[u] \notin {"transfer", "deselect"}
    BY <1>2, <2>1
  <2>5. \A u \in Threads : tpc[u] \notin {"transfer", "deselect"}
    BY <1>2, <2>1
  <2>6. Parked'
    BY <2>1, <2>5 DEF IInv, Parked
  <2>7. Undisturbed'
    BY <2>4 DEF Undisturbed
  <2> QED
    BY <2>2, <2>3, <2>6, <2>7 DEF IInv
<1> QED
  BY <1>3, <1>4, <1>5, <1>6 DEF Reading
-----------------------------------------------------------------------------
LEMMA StepKeeps == StartupAssumption /\ IInv /\ [Next]_vars => IInv'
<1> SUFFICES ASSUME StartupAssumption, IInv, [Next]_vars PROVE IInv'
  OBVIOUS
<1>1. CASE Main
  BY <1>1, StartingKeeps, MakeOutputKeeps, WritePinKeeps DEF Main
<1>2. CASE Return \/ Killed
  BY <1>2, EndKeeps DEF Return, Killed
<1>3. CASE \E t \in Threads : Begins(t) \/ Reads(t)
  BY <1>3, LockKeeps, ReadingKeeps DEF Begins
<1>4. CASE \E p \in Written, l \in {LOW, HIGH} : Drive(p, l)
  BY <1>4, DriveKeeps
<1>5. CASE ReadSpins \/ AcceptFails \/ Restart
  BY <1>5, MainMoves DEF ReadSpins, AcceptFails, Restart, Step, IInv, Parked,
     MainLabels, Starting
<1>6. CASE UNCHANGED vars
  <2> USE <1>6 DEF vars, busVars, pinVars, mainVars
  <2>1. TypeOK' /\ Exclusive'
    BY DEF IInv, TypeOK, Exclusive
  <2>2. Parked' /\ Undisturbed'
    BY DEF IInv, Parked, Undisturbed
  <2> QED
    BY <2>1, <2>2 DEF IInv
<1> QED
  BY <1>1, <1>2, <1>3, <1>4, <1>5, <1>6 DEF Next

(* The inductive invariant: adc_mutex keeps the threads apart, and no chip *)
(* select that initialize_pins has set is LOW but for the reading thread.  *)
THEOREM Invariance == Spec => []IInv
BY InitHolds, StepKeeps, StartupAssumption, PTL DEF Spec

(* Every variable of the start-up keeps its type: in particular the loop   *)
(* over the pins stays within the engine's list, also after restarts.      *)
THEOREM TypeCorrect == Spec => []TypeOK
BY Invariance, PTL DEF IInv

(* At most one parked converter is selected, and only by a reader.         *)
THEOREM SelectsOne == Spec => []OneSelected
<1>1. ASSUME IInv PROVE OneSelected
  <2>1. ASSUME NEW c \in Selected \intersect parked
        PROVE  \E t \in Threads : holder = t /\ WiredTo[t] = c
    <3>1. PICK t \in Threads : tpc[t] \in {"transfer", "deselect"} /\ WiredTo[t] = c
      BY <1>1, <2>1 DEF IInv, Parked, Selected
    <3> QED
      BY <1>1, <3>1, Reader
  <2> QED
    BY <2>1 DEF OneSelected, Threads, Nobody
<1> QED
  BY <1>1, Invariance, PTL

(* A read begun after initialize_pins is answered by its own converter.    *)
THEOREM AnswersItself == Spec => []OwnAnswer
<1>1. ASSUME IInv PROVE OwnAnswer
  <2> SUFFICES ASSUME NEW t \in Threads, tpc[t] = "transfer", clean
               PROVE  Selected = {WiredTo[t]}
    BY DEF OwnAnswer
  <2>1. Converters \subseteq parked /\ level[WiredTo[t]] = LOW
    BY <1>1 DEF IInv, Undisturbed
  <2>2. /\ WiredTo[t] \in Converters
        /\ \A u \in Threads : u # t => tpc[u] \in {"off", "idle"}
    BY <1>1, Reader
  <2>3. WiredTo[t] \in Selected
    BY <1>1, <2>1, <2>2 DEF IInv, Parked, Selected
  <2>4. ASSUME NEW c \in Selected PROVE c = WiredTo[t]
    <3>1. PICK u \in Threads : tpc[u] \in {"transfer", "deselect"} /\ WiredTo[u] = c
      BY <1>1, <2>1, <2>4 DEF IInv, Parked, Selected
    <3> QED
      BY <2>2, <3>1
  <2> QED
    BY <2>3, <2>4
<1> QED
  BY <1>1, Invariance, PTL
-----------------------------------------------------------------------------
(* The pins of the first command.  A driver pin is LOW in both lists, and  *)
(* what the engine's commands and burns use is in its list.                *)
LEMMA DriversLow ==
  ASSUME NEW e \in {"LUNA", "TITAN"}, NEW i \in 1..Len(PinsOf(e)),
         PinsOf(e)[i][1] \in 1..6
  PROVE  PinsOf(e)[i][2] = LOW
<1>1. CASE e = "LUNA"
  <2>1. PinsOf(e) = initialize_pins /\ Len(initialize_pins) = 6
    BY <1>1 DEF PinsOf, initialize_pins
  <2>2. i = 1 \/ i = 2 \/ i = 3 \/ i = 4 \/ i = 5 \/ i = 6
    BY <2>1
  <2> QED
    BY <2>1, <2>2 DEF initialize_pins, ADC_0_CS, ADC_1_CS, ADC_2_CS
<1>2. CASE e = "TITAN"
  <2>1. PinsOf(e) = titan_initialize_pins /\ Len(titan_initialize_pins) = 7
    BY <1>2 DEF PinsOf, titan_initialize_pins
  <2>2. i = 1 \/ i = 2 \/ i = 3 \/ i = 4 \/ i = 5 \/ i = 6 \/ i = 7
    BY <2>1
  <2> QED
    BY <2>1, <2>2 DEF titan_initialize_pins, ADC_0_CS, ADC_1_CS, ADC_2_CS
<1> QED
  BY <1>1, <1>2

LEMMA ListsComplete ==
  ASSUME TypeOK
  PROVE  \A p \in Outputs \union Converters :
           \E i \in 1..Len(PinsOf(engine)) : PinsOf(engine)[i][1] = p
<1>1. CASE engine = "LUNA"
  <2>1. PinsOf(engine) = initialize_pins /\ Len(initialize_pins) = 6
    BY <1>1 DEF PinsOf, initialize_pins
  <2>2. Outputs = {1, 2, 6}
    BY <1>1 DEF Outputs, Luna!OutputPins, Luna!MAIN_VALVE, Luna!PRESSURE_VALVE,
       Luna!IGN_START
  <2>3. /\ initialize_pins[1][1] = ADC_0_CS /\ initialize_pins[2][1] = ADC_1_CS
        /\ initialize_pins[3][1] = ADC_2_CS /\ initialize_pins[4][1] = 1
        /\ initialize_pins[5][1] = 2 /\ initialize_pins[6][1] = 6
    BY DEF initialize_pins
  <2>4. 1 \in 1..6 /\ 2 \in 1..6 /\ 3 \in 1..6 /\ 4 \in 1..6 /\ 5 \in 1..6 /\ 6 \in 1..6
    OBVIOUS
  <2> QED
    BY <2>1, <2>2, <2>3, <2>4 DEF Converters
<1>2. CASE engine = "TITAN"
  <2>1. PinsOf(engine) = titan_initialize_pins /\ Len(titan_initialize_pins) = 7
    BY <1>2 DEF PinsOf, titan_initialize_pins
  <2>2. Outputs = {1, 2, 3, 6}
    BY <1>2 DEF Outputs, Titan!OutputPins, Titan!MAIN_FEED_VALVE, Titan!OXI_VALVE,
       Titan!GROUND_VENT_VALVE, Titan!IGN_START
  <2>3. /\ titan_initialize_pins[1][1] = ADC_0_CS
        /\ titan_initialize_pins[2][1] = ADC_1_CS
        /\ titan_initialize_pins[3][1] = ADC_2_CS /\ titan_initialize_pins[4][1] = 1
        /\ titan_initialize_pins[5][1] = 2 /\ titan_initialize_pins[6][1] = 3
        /\ titan_initialize_pins[7][1] = 6
    BY DEF titan_initialize_pins
  <2>4. 1 \in 1..7 /\ 2 \in 1..7 /\ 3 \in 1..7 /\ 4 \in 1..7 /\ 5 \in 1..7 /\ 6 \in 1..7
        /\ 7 \in 1..7
    OBVIOUS
  <2> QED
    BY <2>1, <2>2, <2>3, <2>4 DEF Converters
<1> QED
  BY <1>1, <1>2 DEF TypeOK

(* Writing a pin adds it to those done with.                               *)
LEMMA WritePinDone ==
  ASSUME IInv, Behind, WritePin
  PROVE  /\ UNCHANGED <<engine, output>>
         /\ n \in 1..Len(PinsOf(engine))
         /\ mpc' = "serve" => n = Len(PinsOf(engine))
         /\ mpc' = "fsel" => n' = n + 1
         /\ \A i \in 1..n : LET p == PinsOf(engine)[i][1]
                            IN  p \in output /\ (p \in 1..6 => level'[p] = LOW)
<1> DEFINE p(i) == PinsOf(engine)[i][1]
<1>1. /\ mpc = "write" /\ UNCHANGED <<engine, output>>
      /\ level' = [level EXCEPT ![p(n)] = PinsOf(engine)[n][2]]
      /\ mpc' = "serve" => n = Len(PinsOf(engine))
      /\ mpc' = "fsel" => n' = n + 1
  BY DEF WritePin, Step, Write
<1>2. /\ n \in 1..Len(PinsOf(engine)) /\ Len(PinsOf(engine)) \in Nat
      /\ engine \in {"LUNA", "TITAN"}
      /\ level \in [BusPins -> {LOW, HIGH}]
  BY InOrder DEF IInv, TypeOK
<1>3. p(n) \in output /\ (p(n) \in 1..6 => PinsOf(engine)[n][2] = LOW)
  BY <1>1, <1>2, DriversLow DEF IInv, Parked
<1>4. ASSUME NEW i \in 1..n PROVE p(i) \in output /\ (p(i) \in 1..6 => level'[p(i)] = LOW)
  <2>1. CASE p(i) = p(n)
    BY <1>1, <1>2, <1>3, <2>1 DEF BusPins
  <2>2. CASE p(i) # p(n)
    <3>1. i \in 1..(n - 1)
      BY <1>2, <2>2
    <3>2. p(i) \in output /\ (p(i) \in 1..6 => level[p(i)] = LOW)
      BY <1>1, <3>1 DEF Behind
    <3> QED
      BY <1>1, <1>2, <2>2, <3>2 DEF BusPins
  <2> QED
    BY <2>1, <2>2
<1> QED
  BY <1>1, <1>2, <1>4

(* The threads write chip selects only.                                    *)
LEMMA ThreadsLeaveDrivers ==
  ASSUME IInv, NEW t \in Threads, Begins(t) \/ Reads(t)
  PROVE  /\ UNCHANGED <<mpc, engine, n, output>>
         /\ \A q \in 1..6 : level'[q] = level[q]
<1> USE DEF mainVars, pinVars
<1>1. CASE Begins(t) \/ (Reads(t) /\ (Transfer(t) \/ Unlock(t)))
  BY <1>1 DEF Begins, Reads, Lock, Transfer, Unlock
<1>2. CASE Reads(t) /\ (Select(t) \/ Deselect(t))
  <2>1. tpc[t] \notin {"off", "idle"}
    BY <1>2 DEF Select, Deselect, Goto
  <2>2. WiredTo[t] \notin 1..6 /\ SENSOR_PINS(item[t]) = WiredTo[t]
    BY <2>1, Reader DEF Converters, ADC_0_CS, ADC_1_CS, ADC_2_CS
  <2>3. level \in [BusPins -> {LOW, HIGH}]
    BY DEF IInv, TypeOK
  <2> QED
    BY <1>2, <2>2, <2>3 DEF Reads, Select, Deselect, Write, BusPins
<1> QED
  BY <1>1, <1>2 DEF Reads, Reading

LEMMA BehindKeeps == IInv /\ Behind /\ [Next]_vars => Behind'
<1> SUFFICES ASSUME IInv, Behind, [Next]_vars, mpc' \in {"fsel", "write"}
             PROVE  Behind'
  BY DEF Behind
<1>1. CASE Main
  <2>1. CASE NewVisitor
    BY <2>1 DEF NewVisitor, Behind
  <2>2. CASE MakeOutput
    BY <2>2 DEF MakeOutput, Step, Fsel, Behind
  <2>3. CASE WritePin
    <3>1. mpc' = "fsel"
      BY <2>3 DEF WritePin, Step
    <3>2. n \in Nat /\ n' - 1 = n
      BY <2>3, <3>1, WritePinDone DEF IInv, TypeOK
    <3> QED
      BY <2>3, <3>1, <3>2, WritePinDone DEF Behind
  <2>4. CASE StartThreads \/ \E ok \in BOOLEAN :
               ReadConfig(ok) \/ InitBcm(ok) \/ OpenSocket(ok) \/ Listen(ok)
    BY <2>4 DEF StartThreads, StartThread, ReadConfig, InitBcm, OpenSocket, Listen, Step
  <2> QED
    BY <1>1, <2>1, <2>2, <2>3, <2>4 DEF Main
<1>2. CASE \E t \in Threads : Begins(t) \/ Reads(t)
  BY <1>2, ThreadsLeaveDrivers DEF Behind
<1>3. CASE UNCHANGED vars
  BY <1>3 DEF vars, busVars, pinVars, mainVars, Behind
<1>4. CASE \/ ReadSpins \/ Return \/ Killed \/ AcceptFails \/ Restart
           \/ \E p \in Written, l \in {LOW, HIGH} : Drive(p, l)
  BY <1>4 DEF ReadSpins, Return, Killed, Ends, AcceptFails, Restart, Step, Drive, mainVars
<1> QED
  BY <1>1, <1>2, <1>3, <1>4 DEF Next

(* Before the first command every pin the engine uses is an output and     *)
(* LOW, over any number of restarts and changes of the engine.             *)
THEOREM ReadyForCommands == Spec => PinsReady
<1>1. Init => Behind
  BY DEF Init, Behind
<1>2. ASSUME IInv, Behind, [Next]_vars, mpc # "serve", mpc' = "serve"
      PROVE  /\ Outputs' \union Converters \subseteq output'
             /\ \A p \in Outputs' : level'[p] = LOW
  <2>1. WritePin
    <3>1. CASE Main
      BY <1>2, <3>1 DEF Main, StartThreads, StartThread, ReadConfig, InitBcm,
         OpenSocket, Listen, NewVisitor, MakeOutput, Step
    <3>2. CASE ~Main
      BY <1>2, <3>2, ThreadsLeaveDrivers DEF Next, ReadSpins, Return, Killed, Ends,
         AcceptFails, Restart, Step, Drive, mainVars, vars
    <3> QED
      BY <3>1, <3>2
  <2>2. Outputs' = Outputs /\ output' = output
    BY <1>2, <2>1, WritePinDone DEF Outputs, Luna!OutputPins, Titan!OutputPins
  <2>3. ASSUME NEW p \in Outputs \union Converters
        PROVE  p \in output /\ (p \in 1..6 => level'[p] = LOW)
    <3>1. PICK i \in 1..Len(PinsOf(engine)) : PinsOf(engine)[i][1] = p
      BY <1>2, ListsComplete DEF IInv
    <3> QED
      BY <1>2, <2>1, <3>1, WritePinDone
  <2>4. Outputs \subseteq 1..6
    BY DEF Outputs, Luna!OutputPins, Luna!MAIN_VALVE, Luna!PRESSURE_VALVE,
       Luna!IGN_START, Titan!OutputPins, Titan!MAIN_FEED_VALVE, Titan!OXI_VALVE,
       Titan!GROUND_VENT_VALVE, Titan!IGN_START
  <2> QED
    BY <2>2, <2>3, <2>4
<1>3. IInv /\ Behind /\ [Next]_vars =>
        [ mpc # "serve" /\ mpc' = "serve" =>
            /\ Outputs' \union Converters \subseteq output'
            /\ \A p \in Outputs' : level'[p] = LOW ]_vars
  BY <1>2
<1> QED
  BY <1>1, <1>3, BehindKeeps, Invariance, PTL DEF Spec, PinsReady
-----------------------------------------------------------------------------
(* While main serves.                                                      *)
LEMMA ListLengths == Len(initialize_pins) = 6 /\ Len(titan_initialize_pins) = 7
BY DEF initialize_pins, titan_initialize_pins

(* The threads' steps leave alone what main has parked.                    *)
LEMMA ThreadsLeaveParked ==
  ASSUME NEW t \in Threads, Begins(t) \/ Reads(t)
  PROVE  UNCHANGED <<parked, mpc, engine, n>>
BY DEF Begins, Reads, Lock, Reading, Select, Transfer, Deselect, Unlock, mainVars

LEMMA ParkedByStep == IInv /\ ParkedByThen /\ [Next]_vars => ParkedByThen'
<1> SUFFICES ASSUME IInv, ParkedByThen, [Next]_vars PROVE ParkedByThen'
  OBVIOUS
<1>1. CASE WritePin
  <2> DEFINE p == PinsOf(engine)[n]
             N == Len(PinsOf(engine))
  <2>1. /\ mpc = "write"
        /\ mpc' = IF n = N THEN "serve" ELSE "fsel"
        /\ parked' = parked \union ({p[1]} \intersect Converters)
        /\ n' = IF n = N THEN n ELSE n + 1
    BY <1>1 DEF WritePin, Step
  <2>2. /\ n \in 1..N /\ N \in {6, 7}
        /\ n = 1 => p[1] = ADC_0_CS
        /\ n = 2 => p[1] = ADC_1_CS
        /\ n = 3 => p[1] = ADC_2_CS
    BY InOrder, ListLengths DEF IInv, TypeOK, PinsOf
  <2> HIDE DEF p, N
  <2>3. /\ n \in Nat
        /\ n >= 1 => ADC_0_CS \in parked'
        /\ n >= 2 => ADC_1_CS \in parked'
        /\ n >= 3 => ADC_2_CS \in parked'
    <3>1. n \in Nat
      BY <2>2
    <3>2. /\ n > 1 => ADC_0_CS \in parked'
          /\ n > 2 => ADC_1_CS \in parked'
          /\ n > 3 => ADC_2_CS \in parked'
      BY <2>1 DEF ParkedByThen
    <3>3. p[1] \in Converters => p[1] \in parked'
      BY <2>1
    <3>4. /\ n = 1 => ADC_0_CS \in parked'
          /\ n = 2 => ADC_1_CS \in parked'
          /\ n = 3 => ADC_2_CS \in parked'
      BY <2>2, <3>3 DEF Converters
    <3> QED
      BY <3>1, <3>2, <3>4
  <2>4. mpc' = "serve" => n >= 3
    BY <2>1, <2>2
  <2>5. mpc' # "serve" => n' = n + 1
    BY <2>1
  <2> QED
    BY <2>1, <2>3, <2>4, <2>5 DEF ParkedByThen, Converters
<1>2. CASE MakeOutput \/ NewVisitor
  BY <1>2 DEF NewVisitor, MakeOutput, Step, ParkedByThen, busVars
<1>3. CASE Main /\ ~(WritePin \/ MakeOutput \/ NewVisitor)
  <2>1. mpc' \notin {"fsel", "write", "serve"}
    BY <1>3 DEF Main, ReadConfig, InitBcm, OpenSocket, Listen, StartThreads,
       StartThread, Step
  <2> QED
    BY <2>1 DEF ParkedByThen
<1>4. CASE \E t \in Threads : Begins(t) \/ Reads(t)
  BY <1>4, ThreadsLeaveParked DEF ParkedByThen
<1>5. CASE \E p \in Written, l \in {LOW, HIGH} : Drive(p, l)
  BY <1>5 DEF Drive, mainVars, ParkedByThen
<1>6. CASE ReadSpins \/ Return \/ Killed \/ AcceptFails \/ Restart
  BY <1>6 DEF ReadSpins, Return, Killed, Ends, AcceptFails, Restart, Step, ParkedByThen
<1>7. CASE UNCHANGED vars
  BY <1>7 DEF vars, busVars, mainVars, ParkedByThen
<1> QED
  BY <1>1, <1>2, <1>3, <1>4, <1>5, <1>6, <1>7 DEF Next

LEMMA ParkedWhileServing == Spec => []ParkedByThen
<1>1. Init => ParkedByThen
  BY DEF Init, ParkedByThen
<1> QED
  BY <1>1, ParkedByStep, Invariance, PTL DEF Spec

(* While commands are taken at most one converter is selected, whatever    *)
(* the start-up did under the threads; a read that begins then is clean,   *)
(* so that AnswersItself tells who answers it.                             *)
THEOREM ServesOneReader == Spec => []ServingSelectsOne /\ ServingReadsClean
<1>1. ParkedByThen /\ OneSelected => ServingSelectsOne
  BY DEF ParkedByThen, OneSelected, ServingSelectsOne, Selected
<1>2. ASSUME IInv, ParkedByThen, [Next]_vars, NEW t \in Threads,
             mpc = "serve", tpc[t] = "select", tpc'[t] = "transfer"
      PROVE  clean'
  <2>1. Converters \subseteq parked
    BY <1>2 DEF ParkedByThen
  <2>2. tpc \in [Threads -> {"off", "idle", "select", "transfer", "deselect", "unlock"}]
    BY <1>2 DEF IInv, TypeOK
  <2>3. CASE \E u \in Threads : Begins(u) \/ Reads(u)
    <3>1. PICK u \in Threads : Begins(u) \/ Reads(u)
      BY <2>3
    <3>2. Select(u)
      <4>1. CASE u = t
        BY <1>2, <2>2, <3>1, <4>1 DEF Begins, Lock, Reads, Reading, Goto, Transfer,
           Deselect, Unlock
      <4>2. CASE u # t
        <5>1. tpc'[t] = tpc[t]
          BY <2>2, <3>1, <4>2 DEF Begins, Lock, Reads, Reading, Goto, Select, Transfer,
             Deselect, Unlock
        <5> QED
          BY <1>2, <5>1
      <4> QED
        BY <4>1, <4>2
    <3> QED
      BY <2>1, <3>2 DEF Select
  <2>4. CASE Killed
    BY <1>2, <2>4 DEF Killed, Ends, ThreadsEnd, Everywhere
  <2>5. CASE ~(Killed \/ \E u \in Threads : Begins(u) \/ Reads(u))
    <3>1. tpc' = tpc
      BY <1>2, <2>5 DEF Next, Main, ReadSpins, ReadConfig, InitBcm, OpenSocket, Listen,
         StartThreads, StartThread, NewVisitor, MakeOutput, WritePin, Step, Return,
         Drive, AcceptFails, Restart, busVars, vars
    <3> QED
      BY <1>2, <3>1
  <2> QED
    BY <2>3, <2>4, <2>5
<1>3. IInv /\ ParkedByThen /\ [Next]_vars =>
        [ \A t \in Threads :
            mpc = "serve" /\ tpc[t] = "select" /\ tpc'[t] = "transfer" => clean' ]_vars
  BY <1>2
<1> QED
  BY <1>1, <1>3, ParkedWhileServing, SelectsOne, Invariance, PTL
     DEF Spec, ServingReadsClean
-----------------------------------------------------------------------------
(* main on its way to the command loop.                                    *)
LEMMA PlacesLeft ==
  ASSUME IInv
  PROVE  /\ Len(PinsOf(engine)) \in {6, 7} /\ n \in 1..Len(PinsOf(engine))
         /\ mpc \in Starting => StepsBefore[mpc] \in 1..8
         /\ mpc \in MainLabels
BY ListLengths DEF IInv, TypeOK, PinsOf, Starting, StepsBefore

LEMMA Advance ==
  ASSUME IInv, [Next]_vars, StepsLeft > 0
  PROVE  StepsLeft' < StepsLeft \/ UNCHANGED mainVars
<1> USE ListLengths, PlacesLeft
<1>1. ASSUME NEW ok \in BOOLEAN,
             ReadConfig(ok) \/ InitBcm(ok) \/ OpenSocket(ok) \/ Listen(ok) \/ StartThreads
      PROVE  StepsLeft' < StepsLeft
  <2>1. /\ mpc \in Starting
        /\ mpc' = "returning" \/ (mpc' \in Starting /\ StepsBefore[mpc'] < StepsBefore[mpc])
    BY <1>1 DEF ReadConfig, InitBcm, OpenSocket, Listen, StartThreads, StartThread,
       Step, Starting, StepsBefore
  <2>2. mpc' \in Starting => StepsBefore[mpc'] \in 1..8
    BY DEF Starting, StepsBefore
  <2>3. "returning" \notin Starting
    BY DEF Starting
  <2> QED
    BY <2>1, <2>2, <2>3 DEF StepsLeft
<1>2. CASE NewVisitor
  <2>1. /\ mpc = "visitor" /\ mpc' = "fsel" /\ n' = 1 /\ engine' \in {"LUNA", "TITAN"}
    BY <1>2 DEF NewVisitor, Step
  <2>2. Len(PinsOf(engine')) \in {6, 7}
    BY <2>1 DEF PinsOf
  <2>3. StepsLeft = 15
    BY <2>1 DEF StepsLeft, Starting, StepsBefore
  <2>4. StepsLeft' = 2 * (Len(PinsOf(engine')) - 1) + 2
    BY <2>1 DEF StepsLeft, Starting
  <2>5. CASE Len(PinsOf(engine')) = 6
    <3>1. StepsLeft' = 12
      BY <2>4, <2>5
    <3> QED
      BY <2>3, <3>1
  <2>6. CASE Len(PinsOf(engine')) = 7
    <3>1. StepsLeft' = 14
      BY <2>4, <2>6
    <3> QED
      BY <2>3, <3>1
  <2> QED
    BY <2>2, <2>5, <2>6
<1>3. CASE MakeOutput
  BY <1>3 DEF MakeOutput, Step, StepsLeft, Starting
<1>4. CASE WritePin
  <2>1. /\ mpc = "write" /\ engine' = engine
        /\ \/ mpc' = "serve"
           \/ mpc' = "fsel" /\ n' = n + 1
    BY <1>4 DEF WritePin, Step
  <2>2. StepsLeft = 2 * (Len(PinsOf(engine)) - n) + 1
    BY <2>1 DEF StepsLeft, Starting
  <2>3. CASE mpc' = "serve"
    BY <2>2, <2>3 DEF StepsLeft, Starting
  <2>4. CASE mpc' = "fsel" /\ n' = n + 1
    BY <2>1, <2>2, <2>4 DEF StepsLeft, Starting
  <2> QED
    BY <2>1, <2>3, <2>4
<1>5. CASE Return \/ Killed
  BY <1>5 DEF Return, Killed, Ends, StepsLeft, Starting
<1>6. CASE \E t \in Threads : Begins(t) \/ Reads(t)
  BY <1>6 DEF Begins, Reads
<1>7. CASE \/ ReadSpins \/ AcceptFails \/ Restart
           \/ \E p \in Written, l \in {LOW, HIGH} : Drive(p, l)
  BY <1>7 DEF ReadSpins, AcceptFails, Restart, Drive, Step, StepsLeft, Starting
<1>8. CASE UNCHANGED vars
  BY <1>8 DEF vars
<1> QED
  BY <1>1, <1>2, <1>3, <1>4, <1>5, <1>6, <1>7, <1>8 DEF Next, Main

(* A thread that main has yet to start is off.                             *)
LEMMA ToStartStep == IInv /\ ToStart /\ [Next]_vars => ToStart'
<1> SUFFICES ASSUME IInv, ToStart, [Next]_vars PROVE ToStart'
  OBVIOUS
<1> USE DEF Starting, Step, Everywhere, Threads
<1>1. tpc \in [Threads -> {"off", "idle", "select", "transfer", "deselect", "unlock"}]
  BY DEF IInv, TypeOK
<1>2. CASE StartThreads
  BY <1>1, <1>2 DEF StartThreads, StartThread, Goto, ToStart
<1>3. CASE Main /\ ~StartThreads
  <2>1. tpc' = tpc
    BY <1>3 DEF Main, ReadConfig, InitBcm, OpenSocket, Listen, NewVisitor, MakeOutput,
       WritePin, busVars
  <2>2. \/ mpc' \notin {"config", "startPT", "startTC", "exited"} /\ mpc' \notin {"bcm", "socket", "startLC"}
        \/ mpc \in {"config", "bcm", "socket"} /\ mpc' \in {"bcm", "socket", "startLC"}
    BY <1>3 DEF Main, ReadConfig, InitBcm, OpenSocket, Listen, NewVisitor, MakeOutput,
       WritePin
  <2> QED
    BY <2>1, <2>2 DEF ToStart
<1>4. CASE Return \/ Killed
  BY <1>4 DEF Return, Killed, Ends, ThreadsEnd, ToStart
<1>5. ASSUME NEW t \in Threads, Begins(t) \/ Reads(t) PROVE ToStart'
  <2>1. /\ tpc[t] # "off" /\ mpc' = mpc
        /\ \A u \in Threads \ {t} : tpc'[u] = tpc[u]
    BY <1>1, <1>5 DEF Begins, Reads, Lock, Reading, Select, Transfer, Deselect, Unlock,
       Goto, mainVars
  <2>2. mpc # "exited"
    BY <2>1 DEF ToStart
  <2> QED
    BY <2>1, <2>2 DEF ToStart
<1>6. CASE \/ ReadSpins \/ AcceptFails \/ Restart
           \/ \E p \in Written, l \in {LOW, HIGH} : Drive(p, l)
  BY <1>6 DEF ReadSpins, AcceptFails, Restart, Drive, busVars, mainVars, ToStart
<1>7. CASE UNCHANGED vars
  BY <1>7 DEF vars, busVars, mainVars, ToStart
<1> QED
  BY <1>2, <1>3, <1>4, <1>5, <1>6, <1>7 DEF Next

(* Start-up is over after at most 22 steps of main, in the command loop,   *)
(* with the process or, from its first step, in a readFrom that never      *)
(* returns; main waits for no thread on the way: a step is guarded by      *)
(* main's place, or by a thread that is not yet running.                   *)
THEOREM StartupIsFinite ==
  Spec => [](StepsLeft \in 0..22 /\ ToStart) /\ StartupAdvances
<1>1. IInv => StepsLeft \in 0..22
  <2> SUFFICES ASSUME IInv PROVE StepsLeft \in 0..22
    OBVIOUS
  <2> DEFINE N == Len(PinsOf(engine))
  <2>1. N \in {6, 7} /\ n \in 1..N /\ (mpc \in Starting => StepsBefore[mpc] \in 1..8)
    BY PlacesLeft
  <2>2. StepsLeft = IF mpc \in Starting THEN StepsBefore[mpc] + 14
                    ELSE IF mpc = "fsel" THEN 2 * (N - n) + 2
                    ELSE IF mpc = "write" THEN 2 * (N - n) + 1 ELSE 0
    BY ListLengths DEF StepsLeft
  <2> HIDE DEF N
  <2> QED
    BY <2>1, <2>2
<1>2. Init => ToStart
  BY DEF Init, BusInit, ToStart, Everywhere, Threads
<1>3. IInv /\ [Next]_vars =>
        [ StepsLeft > 0 => StepsLeft' < StepsLeft \/ UNCHANGED mainVars ]_vars
  BY Advance
<1> QED
  BY <1>1, <1>2, <1>3, ToStartStep, Invariance, PTL DEF Spec, StartupAdvances
-----------------------------------------------------------------------------
(* The thread that has adc_mutex, on its way to give it back.              *)
LEMMA HolderAdvances ==
  ASSUME IInv, [Next]_vars, NEW t \in Threads, holder = t
  PROVE  \/ holder' = t /\ tpc'[t] = tpc[t] /\ ~Reading(t)
         \/ Reading(t) /\ HoldLeft(t)' = HoldLeft(t) - 1
              /\ (holder' = t <=> HoldLeft(t)' > 0)
         \/ mpc' = "exited"
<1>1. /\ tpc[t] \notin {"off", "idle"}
      /\ tpc \in [Threads -> {"off", "idle", "select", "transfer", "deselect", "unlock"}]
      /\ \A u \in Threads : u # t => tpc[u] \in {"off", "idle"}
  BY Reader DEF IInv, TypeOK, Exclusive
<1>2. t # Nobody
  BY DEF Threads, Nobody
<1>3. ASSUME holder' = t, tpc'[t] = tpc[t] PROVE ~Reading(t)
  BY <1>1, <1>3 DEF Reading, Select, Transfer, Deselect, Unlock, Goto
<1>4. CASE Reads(t)
  BY <1>1, <1>2, <1>4 DEF Reads, Reading, Select, Transfer, Deselect, Unlock, Goto,
     HoldLeft, StepsHeld
<1>5. ASSUME NEW u \in Threads, u # t, Reads(u) PROVE FALSE
  BY <1>1, <1>5 DEF Reads, Reading, Select, Transfer, Deselect, Unlock, Goto
<1>6. ASSUME NEW u \in Threads, Begins(u) PROVE FALSE
  BY <1>2, <1>6 DEF Begins, Lock
<1>7. CASE Return \/ Killed
  BY <1>7 DEF Return, Killed, Ends
<1>8. CASE StartThreads
  <2>1. PICK u \in Threads : Goto(u, "off", "idle") /\ holder' = holder
    BY <1>8 DEF StartThreads, StartThread, Threads
  <2> QED
    BY <1>1, <1>3, <2>1 DEF Goto
<1>9. CASE \/ Main /\ ~StartThreads
           \/ ReadSpins \/ AcceptFails \/ Restart
           \/ UNCHANGED vars
           \/ \E p \in Written, l \in {LOW, HIGH} : Drive(p, l)
  <2>1. tpc' = tpc /\ holder' = holder
    BY <1>9 DEF Main, ReadConfig, InitBcm, OpenSocket, Listen, NewVisitor,
       MakeOutput, WritePin, ReadSpins, AcceptFails, Restart, Drive, busVars, vars
  <2> QED
    BY <1>3, <2>1
<1> QED
  BY <1>4, <1>5, <1>6, <1>7, <1>8, <1>9 DEF Next

(* The mutex is given back after at most four steps of its holder, which   *)
(* nobody else moves, or goes with the process.                            *)
THEOREM HolderLetsGo == Spec => []HolderReads /\ BusAdvances
<1>1. IInv => HolderReads
  BY DEF IInv, TypeOK, Exclusive, HolderReads, HoldLeft, StepsHeld
<1>2. IInv /\ [Next]_vars =>
        [ \A t \in Threads : holder = t =>
            \/ holder' = t /\ tpc'[t] = tpc[t] /\ ~Reading(t)
            \/ Reading(t) /\ HoldLeft(t)' = HoldLeft(t) - 1
                 /\ (holder' = t <=> HoldLeft(t)' > 0)
            \/ mpc' = "exited" ]_vars
  BY HolderAdvances
<1> QED
  BY <1>1, <1>2, Invariance, PTL DEF Spec, BusAdvances
=============================================================================
