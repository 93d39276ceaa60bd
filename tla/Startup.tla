------------------------------ MODULE Startup -------------------------------
(***************************************************************************)
(* main from its first line to its command loop, while the sensor threads  *)
(* it has started already use the bus whose pins it has yet to configure;  *)
(* and the process ending, at any time, and being started again on the     *)
(* pins as the last one left them.                                         *)
(***************************************************************************)
EXTENDS AdcBus, Sequences

CONSTANT Written    \* the driver pins that are written while main serves

ASSUME StartupAssumption == Written \subseteq 1..6

VARIABLES
  mpc,      \* where main is
  engine,   \* the engine whose visitor this process constructs
  n         \* the pin initialize_pins is at

mainVars == <<mpc, engine, n>>
vars == <<busVars, mainVars>>

(* Mutant: the igniter is forgotten.                                       *)
InitializeAllButLast ==
  <<<<ADC_0_CS, HIGH>>, <<ADC_1_CS, HIGH>>, <<ADC_2_CS, HIGH>>,
    <<1, LOW>>, <<2, LOW>>>>

(* The pins of initialize_pins and titan_initialize_pins, in their order,  *)
(* with their levels.                                                      *)
initialize_pins ==
  <<<<ADC_0_CS, HIGH>>, <<ADC_1_CS, HIGH>>, <<ADC_2_CS, HIGH>>,
    <<1, LOW>>, <<2, LOW>>, <<6, LOW>>>>

titan_initialize_pins ==
  <<<<ADC_0_CS, HIGH>>, <<ADC_1_CS, HIGH>>, <<ADC_2_CS, HIGH>>,
    <<1, LOW>>, <<2, LOW>>, <<3, LOW>>, <<6, LOW>>>>

PinsOf(e) == IF e = "LUNA" THEN initialize_pins ELSE titan_initialize_pins

Init == BusInit /\ mpc = "config" /\ engine = "LUNA" /\ n = 1
-----------------------------------------------------------------------------
(* main.  A step that fails makes it return.                               *)
Step(from, to, ok) == mpc = from /\ mpc' = IF ok THEN to ELSE "returning"

ReadConfig(ok) == Step("config", "bcm", ok) /\ UNCHANGED <<busVars, engine, n>>

(* readFrom may also go on for ever, as Config shows; it prints nothing,   *)
(* and only a signal ends it.                                              *)
ReadSpins == Step("config", "spinning", TRUE) /\ UNCHANGED <<busVars, engine, n>>

(* bcm2835_init, and initialize_spi, which gives two of the chip selects   *)
(* to the SPI controller; it drives neither, being told to select none.    *)
InitBcm(ok) ==
  /\ Step("bcm", "socket", ok)
  /\ output' = IF ok THEN output \ {ADC_0_CS, ADC_1_CS} ELSE output
  /\ UNCHANGED <<tpc, item, holder, level, parked, clean, engine, n>>

OpenSocket(ok) == Step("socket", "startLC", ok) /\ UNCHANGED <<busVars, engine, n>>

StartThread(t, from, to) ==
  /\ Step(from, to, TRUE)
  /\ Goto(t, "off", "idle")
  /\ UNCHANGED <<item, holder, pinVars, parked, clean, engine, n>>

StartThreads ==
  \/ StartThread("LC", "startLC", "startPT")
  \/ StartThread("PT", "startPT", "startTC")
  \/ StartThread("TC", "startTC", "listen")

Listen(ok) == Step("listen", "visitor", ok) /\ UNCHANGED <<busVars, engine, n>>

(* getBool gives the engine, or what was in an uninitialised variable.     *)
NewVisitor ==
  /\ Step("visitor", "fsel", TRUE)
  /\ engine' \in {"LUNA", "TITAN"}
  /\ n' = 1
  /\ UNCHANGED busVars

(* Mutant: main takes adc_mutex, for which the threads compete for ever.   *)
MakeOutputLocked ==
  /\ Step("fsel", "write", TRUE)
  /\ holder = Nobody
  /\ Fsel(PinsOf(engine)[n][1])
  /\ UNCHANGED <<tpc, item, holder, level, parked, clean, engine, n>>

(* Each pin is made an output, showing its latch, and only then written.   *)
MakeOutput ==
  /\ Step("fsel", "write", TRUE)
  /\ Fsel(PinsOf(engine)[n][1])
  /\ UNCHANGED <<tpc, item, holder, level, parked, clean, engine, n>>

(* Mutant: the loop goes one pin too far.                                  *)
WritePinTooFar ==
  LET p == PinsOf(engine)[n]
  IN /\ Step("write", IF n = Len(PinsOf(engine)) THEN "serve" ELSE "fsel", TRUE)
     /\ Write(p[1], p[2])
     /\ parked' = parked \union ({p[1]} \intersect Converters)
     /\ n' = n + 1
     /\ UNCHANGED <<tpc, item, holder, output, clean, engine>>

WritePin ==
  LET p == PinsOf(engine)[n]
      last == n = Len(PinsOf(engine))
  IN /\ Step("write", IF last THEN "serve" ELSE "fsel", TRUE)
     /\ Write(p[1], p[2])
     /\ parked' = parked \union ({p[1]} \intersect Converters)
     /\ n' = IF last THEN n ELSE n + 1
     /\ UNCHANGED <<tpc, item, holder, output, clean, engine>>

Main ==
  \/ \E ok \in BOOLEAN :
       ReadConfig(ok) \/ InitBcm(ok) \/ OpenSocket(ok) \/ Listen(ok)
  \/ StartThreads \/ NewVisitor \/ MakeOutput \/ WritePin

(* Commands and burns write the driver pins, outputs or not.               *)
Drive(p, l) ==
  /\ mpc = "serve"
  /\ Write(p, l)
  /\ UNCHANGED <<tpc, item, holder, output, parked, clean, mainVars>>

(* main returns when it can accept no connection.                          *)
AcceptFails == Step("serve", "returning", TRUE) /\ UNCHANGED <<busVars, engine, n>>

(* The process ends, by main's return or otherwise, and is started again.  *)
Ends == ThreadsEnd /\ mpc' = "exited" /\ engine' = "LUNA" /\ n' = 1

Return  == mpc = "returning" /\ Ends
Killed  == mpc \notin {"returning", "exited"} /\ Ends
Restart == Step("exited", "config", TRUE) /\ UNCHANGED <<busVars, engine, n>>

(* A sensor thread in read_item, once it has the mutex and to get it.      *)
Reads(t) == Reading(t) /\ UNCHANGED mainVars
Begins(t) == (\E s \in SensorsOf[t] : Lock(t, s)) /\ UNCHANGED mainVars

Next ==
  \/ Main \/ ReadSpins \/ Return
  \/ \E t \in Threads : Begins(t) \/ Reads(t)
  \/ \E p \in Written, l \in {LOW, HIGH} : Drive(p, l)
  \/ AcceptFails \/ Killed \/ Restart

(* main waits for no other thread before its loop, and a thread that has   *)
(* adc_mutex for nothing.  A thread that asks for it may wait for ever.    *)
Spec ==
  /\ Init /\ [][Next]_vars
  /\ WF_vars(Main \/ Return)
  /\ \A t \in Threads : WF_vars(Reads(t))
-----------------------------------------------------------------------------
(* Properties.                                                             *)

Starting == {"config", "bcm", "socket", "startLC", "startPT", "startTC",
             "listen", "visitor"}
MainLabels == Starting \union {"spinning", "fsel", "write", "serve", "returning", "exited"}

TypeOK ==
  /\ tpc \in [Threads -> {"off", "idle", "select", "transfer", "deselect", "unlock"}]
  /\ item \in [Threads -> {NoSensor} \union 0..(NUM_SENSORS - 1)]
  /\ holder \in Threads \union {Nobody}
  /\ output \subseteq BusPins
  /\ level \in [BusPins -> {LOW, HIGH}]
  /\ parked \subseteq Converters /\ clean \in BOOLEAN
  /\ mpc \in MainLabels
  /\ engine \in {"LUNA", "TITAN"}
  /\ n \in 1..Len(PinsOf(engine))

(* Of the converters main has parked no two are ever selected at once, and *)
(* none unless a thread is reading, although main moves the chip selects   *)
(* under the threads and without adc_mutex.                                *)
OneSelected ==
  /\ \A c, d \in Selected \intersect parked : c = d
  /\ Selected \intersect parked # {} => holder # Nobody

(* A read that began with all chip selects parked is answered, for all of  *)
(* its transfer, by the converter its sensor is wired to and no other.     *)
OwnAnswer ==
  \A t \in Threads : tpc[t] = "transfer" /\ clean => Selected = {WiredTo[t]}

(* Whatever an earlier process left driven, also one for the other engine, *)
(* the pins this engine's commands and burns use are outputs and LOW, and  *)
(* the converters can be selected, before the first command is taken.      *)
Luna  == INSTANCE Commands WITH EngineType <- "LUNA"
Titan == INSTANCE Commands WITH EngineType <- "TITAN"
Outputs == IF engine = "LUNA" THEN Luna!OutputPins ELSE Titan!OutputPins
PinsReady ==
  [][ mpc # "serve" /\ mpc' = "serve" =>
        /\ Outputs' \union Converters \subseteq output'
        /\ \A p \in Outputs' : level'[p] = LOW ]_vars

(* Once the configuration has been read, start-up ends, in the command     *)
(* loop or with the process.                                               *)
StartupEnds == (mpc = "bcm") ~> (mpc \in {"serve", "exited"})

(* adc_mutex is always given back, or goes with the process.               *)
BusReleased == \A t \in Threads : (holder = t) ~> (holder # t)
-----------------------------------------------------------------------------
(* The inductive invariant behind OneSelected and OwnAnswer.               *)

(* adc_mutex is held by the one thread that is inside read_item.           *)
Exclusive == \A t \in Threads :
  /\ tpc[t] \in {"off", "idle"} => holder # t
  /\ tpc[t] \notin {"off", "idle"} => holder = t /\ item[t] \in SensorsOf[t]

(* A chip select is parked by its place in initialize_pins, and from then  *)
(* on LOW only for the thread that reads from it.                          *)
Parked ==
  /\ mpc \in Starting \union {"exited"} => parked = {}
  /\ mpc \in {"fsel", "write"} =>
       /\ ADC_0_CS \in parked => n > 1
       /\ ADC_1_CS \in parked => n > 2
       /\ ADC_2_CS \in parked => n > 3
  /\ mpc = "write" => PinsOf(engine)[n][1] \in output
  /\ parked \subseteq output
  /\ \A c \in parked : level[c] = LOW =>
       \E t \in Threads : tpc[t] \in {"transfer", "deselect"} /\ WiredTo[t] = c

(* A read that began clean has its own converter selected.                 *)
Undisturbed == clean => \A t \in Threads :
  tpc[t] = "transfer" =>
    Converters \subseteq parked /\ level[WiredTo[t]] = LOW

IInv == TypeOK /\ Exclusive /\ Parked /\ Undisturbed

(* And behind PinsReady: the pins main has done with are outputs, and the  *)
(* driver pins among them LOW.                                             *)
Behind ==
  mpc \in {"fsel", "write"} => \A i \in 1..(n - 1) :
    LET p == PinsOf(engine)[i][1]
    IN  p \in output /\ (p \in 1..6 => level[p] = LOW)
-----------------------------------------------------------------------------
(* What holds once main serves.                                            *)

(* main parks the chip selects by its way through the pins.                *)
ParkedByThen ==
  /\ mpc \in {"fsel", "write"} =>
       /\ n > 1 => ADC_0_CS \in parked
       /\ n > 2 => ADC_1_CS \in parked
       /\ n > 3 => ADC_2_CS \in parked
  /\ mpc = "serve" => Converters \subseteq parked

(* While commands are taken no two converters are selected, and a read     *)
(* that begins then is a clean one, which its own converter answers.       *)
ServingSelectsOne == mpc = "serve" => \A c, d \in Selected : c = d
ServingReadsClean ==
  [][ \A t \in Threads :
        mpc = "serve" /\ tpc[t] = "select" /\ tpc'[t] = "transfer" => clean' ]_vars
-----------------------------------------------------------------------------
(* What start-up and the bus end by.                                       *)

(* How many steps main has yet to take to its command loop.                *)
StepsBefore ==
  [config |-> 8, bcm |-> 7, socket |-> 6, startLC |-> 5, startPT |-> 4,
   startTC |-> 3, listen |-> 2, visitor |-> 1]
StepsLeft ==
  IF mpc \in Starting THEN StepsBefore[mpc] + 2 * Len(titan_initialize_pins)
  ELSE IF mpc = "fsel" THEN 2 * (Len(PinsOf(engine)) - n) + 2
  ELSE IF mpc = "write" THEN 2 * (Len(PinsOf(engine)) - n) + 1
  ELSE 0

(* Each step of main brings its command loop, or its end, nearer, unless   *)
(* it reads its configuration for ever; no thread and no earlier process   *)
(* sends it back.  A thread that main is to start is not running yet.      *)
StartupAdvances ==
  [][ StepsLeft > 0 => StepsLeft' < StepsLeft \/ UNCHANGED mainVars ]_vars
ToStart ==
  /\ mpc \in Starting \ {"listen", "visitor"} => tpc["TC"] = "off"
  /\ mpc \in Starting \ {"listen", "visitor", "startTC"} => tpc["PT"] = "off"
  /\ mpc \in {"config", "bcm", "socket", "startLC"} => tpc["LC"] = "off"
  /\ mpc = "exited" => tpc = Everywhere("off")

(* How many steps the thread that has adc_mutex takes to give it back.     *)
StepsHeld == [off |-> 0, idle |-> 0, select |-> 4, transfer |-> 3,
              deselect |-> 2, unlock |-> 1]
HoldLeft(t) == StepsHeld[tpc[t]]

(* It waits for nothing, and each of its steps brings the release nearer;  *)
(* nobody else's step moves it or takes the mutex from it, but for the end *)
(* of the process.                                                         *)
BusAdvances ==
  [][ \A t \in Threads : holder = t =>
        \/ holder' = t /\ tpc'[t] = tpc[t] /\ ~Reading(t)
        \/ Reading(t) /\ HoldLeft(t)' = HoldLeft(t) - 1
             /\ (holder' = t <=> HoldLeft(t)' > 0)
        \/ mpc' = "exited" ]_vars
HolderReads == \A t \in Threads : holder = t => HoldLeft(t) > 0
=============================================================================
