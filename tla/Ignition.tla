------------------------------ MODULE Ignition ------------------------------
(***************************************************************************)
(* The firing of an engine: the ignition monitor thread, the command       *)
(* thread and the pressure transducer thread, which share two atomic       *)
(* flags, ignitionOn and pressureShutoff, and the output pins.  Every      *)
(* access to something shared is a step of its own, so the threads         *)
(* interleave exactly where the code lets them.                            *)
(*                                                                         *)
(* Time is counted in milliseconds by the action Tick.  `age' is the true  *)
(* time since the monitor noted initTime; the program sees `age + skew',   *)
(* since it reads CLOCK_REALTIME, which the system may step at any time    *)
(* and any number of times, by up to MaxBack backwards or MaxFwd forwards  *)
(* of where it stood when the burn began.  A reading is relative to        *)
(* start_time and unsigned, so a clock that has been set back behind       *)
(* start_time reads as a very late one.  A runnable monitor takes its next *)
(* step within MaxLate milliseconds.                                       *)
(***************************************************************************)
EXTENDS Commands

CONSTANTS
  hotflow_ms,          \* how long a burn lasts
  preignite_ms,        \* how long the igniter burns before the valve opens
  pressureshutoff_ms,  \* how long a burn ignores the pressure cutoff
  enableShutoff,       \* whether the pressure cutoff ends a burn at all
  IGN_CHECK_MS,        \* the monitor's sleep between two checks
  MaxLate,             \* scheduling latency of a monitor step
  MaxBack, MaxFwd,     \* clock adjustments during a burn
  Word,                \* 2^64, the modulus of timestamp_t
  Span,                \* the milliseconds in 2^64 nanoseconds
  Clocks,              \* where the clock may stand when a burn begins,
                       \* in milliseconds from start_time
  Received             \* the command bytes the operator sends

(* The longest a burn can hold its pins: the timer, one check interval,    *)
(* eight latencies on the way round the loop, and a clock stepped back.    *)
MaxBurn == hotflow_ms + IGN_CHECK_MS + 8 * MaxLate + MaxBack

(* A difference of readings that wrapped is at least this.                 *)
Far == Span - MaxBack

(* No setting comes near a wrapped reading (they are ints), and the clock  *)
(* stays within 2^64 nanoseconds of start_time.                            *)
ASSUME IgnitionAssumption ==
  /\ hotflow_ms \in Nat /\ preignite_ms \in Nat /\ pressureshutoff_ms \in Nat
  /\ enableShutoff \in BOOLEAN
  /\ IGN_CHECK_MS \in Nat \ {0}
  /\ MaxLate \in Nat /\ MaxBack \in Nat /\ MaxFwd \in Nat
  /\ Span \in Nat /\ Span > MaxBurn + MaxBack + MaxFwd
  /\ preignite_ms < Far /\ pressureshutoff_ms < Far
  /\ Word \in Nat /\ Word >= 2 * Span
  /\ Clocks # {}
  /\ \A c \in Clocks : /\ c \in Int
                       /\ c - MaxBack >= -Span
                       /\ c + MaxBurn + MaxFwd < Span
  /\ Received \subseteq Bytes

VARIABLES
  ignitionOn, pressureShutoff,  \* the two atomics of main.cpp
  pin,                          \* level driven on each pin
  mpc,                          \* where the monitor thread is
  mainOpen, timeElapsed,        \* the monitor's locals
  nap,                          \* what is left of the monitor's sleep_for
  late,                         \* how long the monitor has been runnable
  age,                          \* true time since initTime
  began,                        \* where the clock stood at initTime
  wpc,                          \* where the command thread is
  \* History, read by no action of the program:
  lastCmd,                      \* last ignition command not yet used up
  byBurn,                       \* pins the monitor raised and nobody wrote since
  opened,                       \* the monitor opened the valve in this burn
  firstBurn,                    \* no burn has ended yet
  stopFor, cutoffFor            \* how long each reason to end has stood

programVars == <<ignitionOn, pressureShutoff, pin, mpc, mainOpen, timeElapsed,
                 nap, late, age, began, wpc>>
historyVars == <<lastCmd, byBurn, opened, firstBurn, stopFor, cutoffFor>>
vars == <<programVars, historyVars>>

flags       == <<ignitionOn, pressureShutoff>>
locals      == <<mainOpen, timeElapsed>>
burnHistory == <<opened, firstBurn>>

(* The while loop of a burn, and the burn up to its last pin write.        *)
InLoop  == mpc \in {"loop", "shutoff", "stopchk", "sample"}
Closing == mpc \in {"closeMain", "closeIgn"}
InBurn  == mpc = "ignite" \/ InLoop \/ Closing

MonitorLabels == {"wait", "begin", "ignite", "loop", "shutoff", "stopchk",
                  "sample", "closeMain", "closeIgn", "clear"}

(* The two standing reasons to end a burn: the operator's stop, and a      *)
(* cutoff signalled once the delay has passed on any adjusted clock.       *)
PastDelay == age > pressureshutoff_ms + MaxBack
StopDue   == (InLoop \/ Closing) /\ ~ignitionOn
CutoffDue == (InLoop \/ Closing) /\ enableShutoff /\ pressureShutoff /\ PastDelay

(* Every step keeps the time each reason has stood without interruption.   *)
Watch ==
  /\ stopFor' = IF StopDue /\ StopDue' THEN stopFor + (age' - age) ELSE 0
  /\ cutoffFor' = IF CutoffDue /\ CutoffDue' THEN cutoffFor + (age' - age) ELSE 0

(* bcm2835_gpio_write by the command thread: whatever level the burn had   *)
(* put on the pin is replaced.                                             *)
Write(p, level) ==
  /\ pin' = IF p \in OutputPins THEN [pin EXCEPT ![p] = level] ELSE pin
  /\ byBurn' = byBurn \ {p}

(* The same write by the monitor thread.                                   *)
Raise(p) ==
  /\ pin' = [pin EXCEPT ![p] = HIGH]
  /\ byBurn' = byBurn \union {p}

(* Mutant: the difference taken in a signed type.                          *)
SignedDifference(n) == n

(* The difference of two timestamp_t.                                      *)
Uint64(n) == IF n >= 0 THEN n ELSE n + Word

(* get_elapsed_time_ms() on a clock c milliseconds from start_time: the    *)
(* nanoseconds wrap, and are then divided.                                 *)
Reading(c) == IF c >= 0 THEN c ELSE c + Span

(* timeElapsed = get_elapsed_time_ms() - initTime, on a clock that stands  *)
(* skew from where it would without the steps since initTime.              *)
Elapsed(skew) == Uint64(Reading(began + age + skew) - Reading(began))
-----------------------------------------------------------------------------
Init ==
  /\ ignitionOn = FALSE
  /\ pressureShutoff = FALSE
  /\ pin = [p \in Pins |-> LOW]
  /\ mpc = "wait"
  /\ mainOpen \in BOOLEAN       \* declared without an initial value
  /\ timeElapsed = 0
  /\ nap = 0 /\ late = 0 /\ age = 0 /\ began = 0
  /\ wpc = "recv"
  /\ lastCmd = "none"
  /\ byBurn = {}
  /\ opened = FALSE
  /\ firstBurn = TRUE
  /\ stopFor = 0 /\ cutoffFor = 0
-----------------------------------------------------------------------------
(* The monitor thread, ignThreadFunc.                                      *)

MonitorGoto(from, to) ==
  /\ mpc = from
  /\ nap = 0
  /\ mpc' = to
  /\ late' = 0
  /\ UNCHANGED wpc

(* A step that only looks, and one that goes to sleep after it has looked. *)
Pass(from, to) ==
  /\ MonitorGoto(from, to)
  /\ UNCHANGED <<flags, pin, locals, nap, age, began, lastCmd, byBurn, burnHistory>>
  /\ Watch
Doze(from, to) ==
  /\ MonitorGoto(from, to)
  /\ nap' = IGN_CHECK_MS
  /\ UNCHANGED <<flags, pin, locals, age, began, lastCmd, byBurn, burnHistory>>
  /\ Watch

(* The wait loop polls ignitionOn, and sleeps while it is down.            *)
PollIdle == ~ignitionOn /\ Doze("wait", "wait")

(* Mutant: a cutoff left over from the last burn holds up the next one.    *)
PollStartUnlessCutoff == ignitionOn /\ ~pressureShutoff /\ Pass("wait", "begin")

PollStart == ignitionOn /\ Pass("wait", "begin")

(* initTime is noted and timeElapsed set to 0.                             *)
BeginBurn ==
  /\ MonitorGoto("begin", "ignite")
  /\ timeElapsed' = 0
  /\ age' = 0
  /\ began' \in Clocks
  /\ opened' = FALSE
  /\ UNCHANGED <<flags, pin, mainOpen, nap, lastCmd, byBurn, firstBurn>>
  /\ Watch

LightIgniter ==
  /\ MonitorGoto("ignite", "loop")
  /\ Raise(IGN_START)
  /\ UNCHANGED <<flags, locals, nap, age, began, lastCmd, burnHistory>>
  /\ Watch

(* Leaving the loop uses up the start command that began the burn.         *)
LeaveLoop(from) ==
  /\ MonitorGoto(from, "closeMain")
  /\ lastCmd' = IF lastCmd = "start" THEN "none" ELSE lastCmd
  /\ UNCHANGED <<flags, pin, locals, nap, age, began, byBurn, burnHistory>>
  /\ Watch

(* Mutant: the settings mixed up.                                          *)
TimerEndsEarly == timeElapsed >= preignite_ms /\ LeaveLoop("loop")

(* The head of the loop: the timer, then the main valve.                   *)
TimerEnds == timeElapsed >= hotflow_ms /\ LeaveLoop("loop")

Opens(marked) ==
  /\ MonitorGoto("loop", "shutoff")
  /\ timeElapsed < hotflow_ms
  /\ ~mainOpen
  /\ Raise(MAIN_VALVE)
  /\ mainOpen' = marked
  /\ opened' = TRUE
  /\ UNCHANGED <<flags, timeElapsed, nap, age, began, lastCmd, firstBurn>>
  /\ Watch

(* Mutants: the valve opens with the igniter; mainOpen is not set, so that *)
(* the valve is opened on every pass.                                      *)
OpenAtOnce    == Opens(TRUE)
OpenEveryPass == timeElapsed > preignite_ms /\ Opens(FALSE)

OpenMainValve == timeElapsed > preignite_ms /\ Opens(TRUE)

KeepMainValve ==
  /\ timeElapsed < hotflow_ms
  /\ mainOpen \/ timeElapsed <= preignite_ms
  /\ Pass("loop", "shutoff")

(* Mutant: the cutoff delay counted from the end of the hotflow.           *)
CutoffSeenTooLate ==
  /\ timeElapsed > hotflow_ms + pressureshutoff_ms
  /\ enableShutoff /\ pressureShutoff

CutoffSeen ==
  /\ timeElapsed > pressureshutoff_ms
  /\ enableShutoff /\ pressureShutoff

CutoffEnds == CutoffSeen /\ LeaveLoop("shutoff")
NoCutoff   == ~CutoffSeen /\ Pass("shutoff", "stopchk")

StopEnds == ~ignitionOn /\ LeaveLoop("stopchk")

(* Mutant: the monitor may sleep again whatever it saw.                    *)
GoOnRegardless == Doze("stopchk", "sample")

GoOn == ignitionOn /\ Doze("stopchk", "sample")

Sample(elapsed) ==
  /\ MonitorGoto("sample", "loop")
  /\ timeElapsed' = elapsed
  /\ UNCHANGED <<flags, pin, mainOpen, nap, age, began, lastCmd, byBurn, burnHistory>>
  /\ Watch

(* Mutant: initTime is noted anew on every pass.                           *)
SampleFromNow == Sample(0)

SampleTime == \E skew \in (-MaxBack)..MaxFwd : Sample(Elapsed(skew))

Close(p, from, to) ==
  /\ MonitorGoto(from, to)
  /\ Write(p, LOW)
  /\ UNCHANGED <<flags, locals, nap, lastCmd, firstBurn>>

(* Mutant: the pins are closed only while ignition is still indicated.     *)
CloseMainValveIfOn ==
  /\ ignitionOn
  /\ Close(MAIN_VALVE, "closeMain", "closeIgn")
  /\ UNCHANGED <<age, began, opened>>
  /\ Watch

CloseMainValve ==
  /\ Close(MAIN_VALVE, "closeMain", "closeIgn")
  /\ UNCHANGED <<age, began, opened>>
  /\ Watch

(* The burn's last pin write; its clock is not looked at again.            *)
CloseLast(p) ==
  /\ Close(p, "closeIgn", "clear")
  /\ age' = 0 /\ began' = 0
  /\ opened' = FALSE
  /\ Watch

(* Mutant: the main valve is written twice and the igniter never.          *)
CloseWrongPin == CloseLast(MAIN_VALVE)

CloseIgniter == CloseLast(IGN_START)

Clear(marked) ==
  /\ MonitorGoto("clear", "wait")
  /\ ignitionOn' = FALSE
  /\ mainOpen' = marked
  /\ firstBurn' = FALSE
  /\ UNCHANGED <<pressureShutoff, pin, timeElapsed, nap, age, began, lastCmd,
                 byBurn, opened>>
  /\ Watch

(* Mutant: mainOpen is not reset at the end of a burn.                     *)
ClearFlagOnly == Clear(mainOpen)

ClearIgnition == Clear(FALSE)

Monitor ==
  \/ PollIdle \/ PollStart \/ BeginBurn \/ LightIgniter
  \/ TimerEnds \/ OpenMainValve \/ KeepMainValve
  \/ CutoffEnds \/ NoCutoff \/ StopEnds \/ GoOn \/ SampleTime
  \/ CloseMainValve \/ CloseIgniter \/ ClearIgnition
-----------------------------------------------------------------------------
(* The command thread: visitCommand on each received byte.  A byte that no *)
(* case handles, or whose case only logs, changes nothing.                 *)

WorkerGoto(from, to) ==
  /\ wpc = from
  /\ wpc' = to
  /\ UNCHANGED <<mpc, locals, nap, late, age, began, burnHistory>>

DriverCommand(c) ==
  /\ WorkerGoto("recv", "recv")
  /\ c \in DriverCommands
  /\ Write(DriverPin(DriverOf(c)), LevelOf(c))
  /\ UNCHANGED <<flags, lastCmd>>
  /\ Watch

(* START_IGNITION: doIgn raises ignitionOn, then lowers pressureShutoff.   *)
StartIgnition ==
  /\ WorkerGoto("recv", "doIgn")
  /\ START_IGNITION \in Received
  /\ ignitionOn' = TRUE
  /\ lastCmd' = "start"
  /\ UNCHANGED <<pressureShutoff, pin, byBurn>>
  /\ Watch

ResetShutoff ==
  /\ WorkerGoto("doIgn", "recv")
  /\ pressureShutoff' = FALSE
  /\ UNCHANGED <<ignitionOn, pin, lastCmd, byBurn>>
  /\ Watch

(* STOP_IGNITION: ignitionOn is lowered, then both pins.                   *)
StopIgnition ==
  /\ WorkerGoto("recv", "stopMain")
  /\ STOP_IGNITION \in Received
  /\ ignitionOn' = FALSE
  /\ lastCmd' = "stop"
  /\ UNCHANGED <<pressureShutoff, pin, byBurn>>
  /\ Watch

StopMainValve ==
  /\ WorkerGoto("stopMain", "stopIgn")
  /\ Write(MAIN_VALVE, LOW)
  /\ UNCHANGED <<flags, lastCmd>>
  /\ Watch

StopIgniter ==
  /\ WorkerGoto("stopIgn", "recv")
  /\ Write(IGN_START, LOW)
  /\ UNCHANGED <<flags, lastCmd>>
  /\ Watch

FinishCommand == ResetShutoff \/ StopMainValve \/ StopIgniter

Worker ==
  \/ \E c \in Received : DriverCommand(c)
  \/ StartIgnition \/ StopIgnition \/ FinishCommand
-----------------------------------------------------------------------------
(* The pressure transducer thread, after each PT1 sample: the running      *)
(* average is beyond the limits, or it is not.                             *)
PtSample(beyond) ==
  /\ pressureShutoff' = beyond
  /\ UNCHANGED <<ignitionOn, pin, mpc, locals, nap, late, age, began, wpc,
                 lastCmd, byBurn, opened, firstBurn>>
  /\ Watch
-----------------------------------------------------------------------------
(* The environment: time passes.                                           *)

Tick ==
  /\ IF nap > 0 THEN nap' = nap - 1 /\ late' = 0
                ELSE late < MaxLate /\ late' = late + 1 /\ nap' = nap
  /\ age' = IF InBurn THEN age + 1 ELSE age
  /\ UNCHANGED <<flags, pin, mpc, locals, began, wpc, lastCmd, byBurn, burnHistory>>
  /\ Watch

Next ==
  \/ Monitor
  \/ Worker
  \/ \E beyond \in BOOLEAN : PtSample(beyond)
  \/ Tick

Spec == Init /\ [][Next]_vars

(* The monitor thread and a command in progress are scheduled by the       *)
(* kernel and block on nothing but sleep_for; time passes.  Nothing makes  *)
(* the operator send a command or the pressure change.                     *)
Fairness == WF_vars(Monitor) /\ WF_vars(FinishCommand) /\ WF_vars(Tick)

LiveSpec == Spec /\ Fairness
-----------------------------------------------------------------------------
(* Properties.                                                             *)

TypeOK ==
  /\ ignitionOn \in BOOLEAN /\ pressureShutoff \in BOOLEAN
  /\ pin \in [Pins -> {LOW, HIGH}]
  /\ mpc \in MonitorLabels
  /\ mainOpen \in BOOLEAN
  /\ timeElapsed \in 0..(Word - 1)
  /\ nap \in 0..IGN_CHECK_MS /\ late \in 0..MaxLate
  /\ age \in Nat /\ began \in Clocks \union {0}
  /\ wpc \in {"recv", "doIgn", "stopMain", "stopIgn"}
  /\ lastCmd \in {"none", "start", "stop"}
  /\ byBurn \subseteq {MAIN_VALVE, IGN_START}
  /\ opened \in BOOLEAN /\ firstBurn \in BOOLEAN
  /\ stopFor \in Nat /\ cutoffFor \in Nat

(* However the threads interleave and whatever the operator does, a burn   *)
(* releases its last pin within the configured time, one check interval    *)
(* and the scheduling latency, extended only by a clock stepped back.      *)
BurnBounded == age <= MaxBurn

(* A pin the monitor raised is never left up once the monitor has gone     *)
(* back to waiting: every way out of the burn closes both.                 *)
NothingOutlivesBurn == mpc \in {"clear", "wait"} => byBurn = {}

(* A stop that stands ends the burn within one check interval, and so does *)
(* a cutoff that stands once the delay is over.                            *)
StopEndsBurn   == stopFor <= IGN_CHECK_MS + 6 * MaxLate
CutoffEndsBurn == cutoffFor <= IGN_CHECK_MS + 8 * MaxLate

(* From the second burn on the monitor's mainOpen is what it says it is:   *)
(* the valve is marked open exactly when this burn opened it.              *)
MainOpenTracksBurn == ~firstBurn /\ InBurn => (mainOpen <=> opened)

(* The monitor opens the main valve only when the pre-ignition time has    *)
(* passed since the burn began, less what the clock was stepped forward.   *)
OpensAfterPreignite ==
  [][ MAIN_VALVE \notin byBurn /\ MAIN_VALVE \in byBurn'
        => age + MaxFwd > preignite_ms ]_vars

(* A start that the monitor is waiting for is served, unless it is         *)
(* withdrawn, also when a cutoff is up that nobody has yet lowered.        *)
StartServed ==
  (ignitionOn /\ mpc = "wait") ~> (IGN_START \in byBurn \/ ~ignitionOn)
-----------------------------------------------------------------------------
(* Properties the sources claim and the code does not have.                *)

(* "will flip true once preigniteTime elapses": when the monitor has gone  *)
(* past the valve check with the time elapsed, the burn opened the valve.  *)
FlipsAfterPreignite ==
  mpc \in {"shutoff", "stopchk"} /\ timeElapsed > preignite_ms => opened

(* "Main thread has indicated an ignition stop, so close everything": once *)
(* STOP_IGNITION is carried out, the burn raises no pin.                   *)
StopIsFinal ==
  [][ lastCmd = "stop" /\ wpc = "recv" => byBurn' \subseteq byBurn ]_vars

(* Pre-ignition separates "starting ignition and opening the main valve":  *)
(* while ignition is on, the monitor opens the valve only on a lit igniter *)
(* (when the operator uses no driver command on it).                       *)
OpensOnlyWhenLit ==
  [][ ignitionOn /\ MAIN_VALVE \notin byBurn /\ MAIN_VALVE \in byBurn'
        => pin[IGN_START] = HIGH ]_vars

(* "Wait until the main worker thread indicates the start of a burn": a    *)
(* start given after the last burn ended its loop is still indicated when  *)
(* the monitor waits.                                                      *)
StartNotLost == mpc = "wait" /\ wpc = "recv" /\ lastCmd = "start" => ignitionOn
=============================================================================
