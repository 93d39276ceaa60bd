--------------------------- MODULE IgnitionProofs ---------------------------
(***************************************************************************)
(* Proofs about Ignition for every timing, every clock adjustment and      *)
(* every set of commands.                                                  *)
(***************************************************************************)
EXTENDS IgnitionInv, TLAPS

(* The abbreviations of UNCHANGED are always expanded.                     *)
USE DEF flags, locals, burnHistory

(* The bound of a burn in terms of its age at the head of the loop.        *)
LEMMA MaxBurnNat ==
  /\ MaxBurn \in Nat /\ Entry \in Nat
  /\ MaxBurn = Entry + IGN_CHECK_MS + 7 * MaxLate
BY IgnitionAssumption DEF MaxBurn, Entry

(* A wrapped reading is beyond every timer.                                *)
LEMMA FarAway ==
  /\ Far \in Nat /\ Far > MaxBurn + MaxFwd /\ Far > hotflow_ms
  /\ Far > preignite_ms /\ Far > pressureshutoff_ms
BY IgnitionAssumption, MaxBurnNat DEF Far, MaxBurn

(* What the monitor makes of the clock: what has passed, give or take the  *)
(* steps, or a wrapped difference, and when it can be the latter.          *)
LEMMA ElapsedIs ==
  ASSUME TypeOK, age <= MaxBurn, NEW skew \in (-MaxBack)..MaxFwd
  PROVE  /\ Elapsed(skew) \in 0..(Word - 1)
         /\ \/ Elapsed(skew) = age + skew
            \/ /\ Elapsed(skew) >= Far
               /\ age < MaxBack \/ (began < 0 /\ began + age + MaxFwd >= 0)
<1> DEFINE now == began + age + skew
<1>1. /\ age \in Nat /\ began \in Int /\ skew \in Int /\ now \in Int
      /\ -MaxBack <= skew /\ skew <= MaxFwd
      /\ began - MaxBack >= -Span /\ began + MaxBurn + MaxFwd < Span
  BY IgnitionAssumption, MaxBurnNat DEF TypeOK
<1>2. now >= -Span /\ now < Span /\ began >= -Span /\ began < Span
  BY <1>1, IgnitionAssumption, MaxBurnNat
<1>3. Span \in Nat /\ Word \in Nat /\ Word >= 2 * Span /\ Far = Span - MaxBack
      /\ Span > MaxBurn + MaxBack + MaxFwd /\ MaxBack \in Nat /\ MaxFwd \in Nat
  BY IgnitionAssumption DEF Far
<1> HIDE DEF now
<1>4. now = began + age + skew
  BY DEF now
<1>5. Elapsed(skew) = Uint64(Reading(now) - Reading(began))
  BY DEF Elapsed, now
<1>6. CASE now >= 0 /\ began >= 0
  <2>1. Elapsed(skew) = IF age + skew >= 0 THEN age + skew ELSE age + skew + Word
    BY <1>1, <1>4, <1>5, <1>6 DEF Uint64, Reading
  <2> QED
    BY <1>1, <1>2, <1>3, <1>4, <1>6, <2>1, MaxBurnNat
<1>7. CASE now < 0 /\ began < 0
  <2>1. Elapsed(skew) = IF age + skew >= 0 THEN age + skew ELSE age + skew + Word
    BY <1>1, <1>3, <1>4, <1>5, <1>7 DEF Uint64, Reading
  <2> QED
    BY <1>1, <1>2, <1>3, <1>4, <1>7, <2>1, MaxBurnNat
<1>8. CASE now >= 0 /\ began < 0
  <2>1. age + skew - Span < 0
    BY <1>1, <1>3, MaxBurnNat
  <2>2. Elapsed(skew) = age + skew - Span + Word
    BY <1>1, <1>3, <1>4, <1>5, <1>8, <2>1 DEF Uint64, Reading
  <2> QED
    BY <1>1, <1>2, <1>3, <1>4, <1>8, <2>1, <2>2, MaxBurnNat
<1>9. CASE now < 0 /\ began >= 0
  <2>1. age + skew + Span >= 0
    BY <1>1, <1>3, MaxBurnNat
  <2>2. Elapsed(skew) = age + skew + Span
    BY <1>1, <1>3, <1>4, <1>5, <1>9, <2>1 DEF Uint64, Reading
  <2> QED
    BY <1>1, <1>2, <1>3, <1>4, <1>9, <2>1, <2>2, MaxBurnNat
<1> QED
  BY <1>1, <1>4, <1>6, <1>7, <1>8, <1>9

(* So it is for every sample of a burn.                                    *)
LEMMA SampleIs ==
  ASSUME TypeOK, NapInv, AgeInv, SampleTime
  PROVE  \E skew \in (-MaxBack)..MaxFwd :
           /\ Sample(Elapsed(skew))
           /\ Elapsed(skew) \in 0..(Word - 1)
           /\ \/ Elapsed(skew) = age + skew
              \/ /\ Elapsed(skew) >= Far
                 /\ age < MaxBack \/ (began < 0 /\ began + age + MaxFwd >= 0)
<1>1. age <= MaxBurn
  BY IgnitionAssumption, MaxBurnNat
     DEF SampleTime, Sample, MonitorGoto, AgeInv, NapInv, TypeOK
<1> QED
  BY <1>1, ElapsedIs DEF SampleTime

(* The monitor sleeps only in its two sleep_for calls.                     *)
LEMMA NapStep == IInv /\ [Next]_vars => NapInv'
<1> SUFFICES ASSUME IInv, [Next]_vars PROVE NapInv'
  OBVIOUS
<1> USE IgnitionAssumption DEF IInv, TypeOK, NapInv
<1>1. CASE Monitor
  BY <1>1 DEF Monitor, MonitorGoto, PollIdle, Doze, PollStart, Pass, BeginBurn,
     LightIgniter, LeaveLoop, TimerEnds, OpenMainValve, Opens, KeepMainValve,
     CutoffEnds, NoCutoff, StopEnds, GoOn, SampleTime, Sample, CloseMainValve,
     Close, CloseIgniter, CloseLast, ClearIgnition, Clear
<1>2. CASE Worker
  BY <1>2 DEF Worker, WorkerGoto, DriverCommand, StartIgnition, StopIgnition,
     FinishCommand, ResetShutoff, StopMainValve, StopIgniter
<1>3. CASE \E beyond \in BOOLEAN : PtSample(beyond)
  BY <1>3 DEF PtSample
<1>4. CASE Tick
  BY <1>4 DEF Tick
<1>5. CASE UNCHANGED vars
  BY <1>5 DEF vars, programVars, historyVars
<1> QED
  BY <1>1, <1>2, <1>3, <1>4, <1>5 DEF Next

(* Each point of the loop adds at most one latency, and the sleep its      *)
(* interval, to the age the burn had at the last sample.                   *)
LEMMA AgeStep == IInv /\ [Next]_vars => AgeInv'
<1> SUFFICES ASSUME IInv, [Next]_vars PROVE AgeInv'
  OBVIOUS
<1> USE IgnitionAssumption, MaxBurnNat DEF IInv, TypeOK, NapInv, AgeInv,
    InBurn, InLoop, Closing
<1>1. CASE Monitor
  <2>1. CASE PollIdle
    BY <2>1 DEF MonitorGoto, PollIdle, Doze
  <2>2. CASE PollStart
    BY <2>2 DEF MonitorGoto, PollStart, Pass
  <2>3. CASE BeginBurn
    BY <2>3 DEF MonitorGoto, BeginBurn
  <2>4. CASE LightIgniter
    BY <2>4 DEF MonitorGoto, LightIgniter, Entry
  <2>5. CASE TimerEnds
    BY <2>5 DEF MonitorGoto, LeaveLoop, TimerEnds
  <2>6. CASE OpenMainValve
    BY <2>6 DEF MonitorGoto, OpenMainValve, Opens
  <2>7. CASE KeepMainValve
    BY <2>7 DEF MonitorGoto, KeepMainValve, Pass
  <2>8. CASE CutoffEnds
    BY <2>8 DEF MonitorGoto, LeaveLoop, CutoffEnds
  <2>9. CASE NoCutoff
    BY <2>9 DEF MonitorGoto, NoCutoff, Pass
  <2>10. CASE StopEnds
    BY <2>10 DEF MonitorGoto, LeaveLoop, StopEnds
  <2>11. CASE GoOn
    BY <2>11 DEF MonitorGoto, GoOn, Doze
  <2>12. CASE SampleTime
    BY <2>12, SampleIs, FarAway DEF MonitorGoto, Sample, Entry
  <2>13. CASE CloseMainValve
    BY <2>13 DEF MonitorGoto, CloseMainValve, Close
  <2>14. CASE CloseIgniter
    BY <2>14 DEF MonitorGoto, CloseIgniter, CloseLast, Close
  <2>15. CASE ClearIgnition
    BY <2>15 DEF MonitorGoto, ClearIgnition, Clear
  <2> QED
    BY <1>1, <2>1, <2>2, <2>3, <2>4, <2>5, <2>6, <2>7, <2>8,
       <2>9, <2>10, <2>11, <2>12, <2>13, <2>14, <2>15 DEF Monitor
<1>2. CASE Worker
  BY <1>2 DEF Worker, WorkerGoto, DriverCommand, StartIgnition, StopIgnition,
     FinishCommand, ResetShutoff, StopMainValve, StopIgniter
<1>3. CASE \E beyond \in BOOLEAN : PtSample(beyond)
  BY <1>3 DEF PtSample
<1>4. CASE Tick
  BY <1>4 DEF Tick
<1>5. CASE UNCHANGED vars
  BY <1>5 DEF vars, programVars, historyVars
<1> QED
  BY <1>1, <1>2, <1>3, <1>4, <1>5 DEF Next

(* A fresh sample of the time is what has passed, give or take the clock's *)
(* steps; after that time passes and only makes it an underestimate.       *)
LEMMA ElapsedStep == IInv /\ [Next]_vars => ElapsedInv'
<1> SUFFICES ASSUME IInv, [Next]_vars PROVE ElapsedInv'
  OBVIOUS
<1> USE IgnitionAssumption, MaxBurnNat DEF IInv, TypeOK, ElapsedInv, AgeInv,
    InBurn, InLoop, Closing
<1>1. CASE Monitor
  <2>1. CASE PollIdle
    BY <2>1 DEF MonitorGoto, PollIdle, Doze
  <2>2. CASE PollStart
    BY <2>2 DEF MonitorGoto, PollStart, Pass
  <2>3. CASE BeginBurn
    BY <2>3 DEF MonitorGoto, BeginBurn
  <2>4. CASE LightIgniter
    BY <2>4 DEF MonitorGoto, LightIgniter
  <2>5. CASE TimerEnds
    BY <2>5 DEF MonitorGoto, LeaveLoop, TimerEnds
  <2>6. CASE OpenMainValve
    BY <2>6 DEF MonitorGoto, OpenMainValve, Opens
  <2>7. CASE KeepMainValve
    BY <2>7 DEF MonitorGoto, KeepMainValve, Pass
  <2>8. CASE CutoffEnds
    BY <2>8 DEF MonitorGoto, LeaveLoop, CutoffEnds
  <2>9. CASE NoCutoff
    BY <2>9 DEF MonitorGoto, NoCutoff, Pass
  <2>10. CASE StopEnds
    BY <2>10 DEF MonitorGoto, LeaveLoop, StopEnds
  <2>11. CASE GoOn
    BY <2>11 DEF MonitorGoto, GoOn, Doze
  <2>12. CASE SampleTime
    BY <2>12, SampleIs, FarAway, MaxBurnNat DEF MonitorGoto, Sample
  <2>13. CASE CloseMainValve
    BY <2>13 DEF MonitorGoto, CloseMainValve, Close
  <2>14. CASE CloseIgniter
    BY <2>14 DEF MonitorGoto, CloseIgniter, CloseLast, Close
  <2>15. CASE ClearIgnition
    BY <2>15 DEF MonitorGoto, ClearIgnition, Clear
  <2> QED
    BY <1>1, <2>1, <2>2, <2>3, <2>4, <2>5, <2>6, <2>7, <2>8,
       <2>9, <2>10, <2>11, <2>12, <2>13, <2>14, <2>15 DEF Monitor
<1>2. CASE Worker
  BY <1>2 DEF Worker, WorkerGoto, DriverCommand, StartIgnition, StopIgnition,
     FinishCommand, ResetShutoff, StopMainValve, StopIgniter
<1>3. CASE \E beyond \in BOOLEAN : PtSample(beyond)
  BY <1>3 DEF PtSample
<1>4. CASE Tick
  BY <1>4 DEF Tick
<1>5. CASE UNCHANGED vars
  BY <1>5 DEF vars, programVars, historyVars
<1> QED
  BY <1>1, <1>2, <1>3, <1>4, <1>5 DEF Next

(* Nothing the command thread does adds to what the burn holds.            *)
LEMMA WorkerReleases == Worker => byBurn' \subseteq byBurn
<1>1. ASSUME NEW c \in Received, DriverCommand(c) PROVE byBurn' \subseteq byBurn
  BY <1>1 DEF DriverCommand, Write
<1>2. FinishCommand => byBurn' \subseteq byBurn
  BY DEF FinishCommand, ResetShutoff, StopMainValve, StopIgniter, Write
<1>3. StartIgnition \/ StopIgnition => byBurn' \subseteq byBurn
  BY DEF StartIgnition, StopIgnition
<1> QED
  BY <1>1, <1>2, <1>3 DEF Worker

(* A pin joins byBurn only where the monitor raises it, and both have left *)
(* it when the burn is over.                                               *)
LEMMA HeldStep == IInv /\ [Next]_vars => HeldInv'
<1> SUFFICES ASSUME IInv, [Next]_vars PROVE HeldInv'
  OBVIOUS
<1> USE IgnitionAssumption DEF IInv, TypeOK, HeldInv, InLoop, Closing, 
    MAIN_VALVE, IGN_START, Write, Raise
<1>1. CASE Monitor
  <2>1. CASE PollIdle
    BY <2>1 DEF MonitorGoto, PollIdle, Doze
  <2>2. CASE PollStart
    BY <2>2 DEF MonitorGoto, PollStart, Pass
  <2>3. CASE BeginBurn
    BY <2>3 DEF MonitorGoto, BeginBurn
  <2>4. CASE LightIgniter
    BY <2>4 DEF MonitorGoto, LightIgniter
  <2>5. CASE TimerEnds
    BY <2>5 DEF MonitorGoto, LeaveLoop, TimerEnds
  <2>6. CASE OpenMainValve
    BY <2>6 DEF MonitorGoto, OpenMainValve, Opens
  <2>7. CASE KeepMainValve
    BY <2>7 DEF MonitorGoto, KeepMainValve, Pass
  <2>8. CASE CutoffEnds
    BY <2>8 DEF MonitorGoto, LeaveLoop, CutoffEnds
  <2>9. CASE NoCutoff
    BY <2>9 DEF MonitorGoto, NoCutoff, Pass
  <2>10. CASE StopEnds
    BY <2>10 DEF MonitorGoto, LeaveLoop, StopEnds
  <2>11. CASE GoOn
    BY <2>11 DEF MonitorGoto, GoOn, Doze
  <2>12. CASE SampleTime
    BY <2>12 DEF MonitorGoto, SampleTime, Sample
  <2>13. CASE CloseMainValve
    BY <2>13 DEF MonitorGoto, CloseMainValve, Close
  <2>14. CASE CloseIgniter
    BY <2>14 DEF MonitorGoto, CloseIgniter, CloseLast, Close
  <2>15. CASE ClearIgnition
    BY <2>15 DEF MonitorGoto, ClearIgnition, Clear
  <2> QED
    BY <1>1, <2>1, <2>2, <2>3, <2>4, <2>5, <2>6, <2>7, <2>8,
       <2>9, <2>10, <2>11, <2>12, <2>13, <2>14, <2>15 DEF Monitor
<1>2. CASE Worker
  <2>1. byBurn' \subseteq byBurn
    BY <1>2, WorkerReleases
  <2>2. UNCHANGED <<mpc, mainOpen, opened>>
    BY <1>2 DEF Worker, WorkerGoto, DriverCommand, StartIgnition,
       StopIgnition, FinishCommand, ResetShutoff, StopMainValve, StopIgniter
  <2> QED
    BY <2>1, <2>2
<1>3. CASE \E beyond \in BOOLEAN : PtSample(beyond)
  BY <1>3 DEF PtSample
<1>4. CASE Tick
  BY <1>4 DEF Tick
<1>5. CASE UNCHANGED vars
  BY <1>5 DEF vars, programVars, historyVars
<1> QED
  BY <1>1, <1>2, <1>3, <1>4, <1>5 DEF Next

(* mainOpen is raised only with opened, and lowered before the next burn.  *)
LEMMA MainOpenStep == IInv /\ [Next]_vars => MainOpenInv'
<1> SUFFICES ASSUME IInv, [Next]_vars PROVE MainOpenInv'
  OBVIOUS
<1> USE IgnitionAssumption DEF IInv, TypeOK, HeldInv, MainOpenInv, InLoop,
Closing
<1>1. CASE Monitor
  <2>1. CASE PollIdle
    BY <2>1 DEF MonitorGoto, PollIdle, Doze
  <2>2. CASE PollStart
    BY <2>2 DEF MonitorGoto, PollStart, Pass
  <2>3. CASE BeginBurn
    BY <2>3 DEF MonitorGoto, BeginBurn
  <2>4. CASE LightIgniter
    BY <2>4 DEF MonitorGoto, LightIgniter
  <2>5. CASE TimerEnds
    BY <2>5 DEF MonitorGoto, LeaveLoop, TimerEnds
  <2>6. CASE OpenMainValve
    BY <2>6 DEF MonitorGoto, OpenMainValve, Opens
  <2>7. CASE KeepMainValve
    BY <2>7 DEF MonitorGoto, KeepMainValve, Pass
  <2>8. CASE CutoffEnds
    BY <2>8 DEF MonitorGoto, LeaveLoop, CutoffEnds
  <2>9. CASE NoCutoff
    BY <2>9 DEF MonitorGoto, NoCutoff, Pass
  <2>10. CASE StopEnds
    BY <2>10 DEF MonitorGoto, LeaveLoop, StopEnds
  <2>11. CASE GoOn
    BY <2>11 DEF MonitorGoto, GoOn, Doze
  <2>12. CASE SampleTime
    BY <2>12 DEF MonitorGoto, SampleTime, Sample
  <2>13. CASE CloseMainValve
    BY <2>13 DEF MonitorGoto, CloseMainValve, Close
  <2>14. CASE CloseIgniter
    BY <2>14 DEF MonitorGoto, CloseIgniter, CloseLast, Close
  <2>15. CASE ClearIgnition
    BY <2>15 DEF MonitorGoto, ClearIgnition, Clear
  <2> QED
    BY <1>1, <2>1, <2>2, <2>3, <2>4, <2>5, <2>6, <2>7, <2>8,
       <2>9, <2>10, <2>11, <2>12, <2>13, <2>14, <2>15 DEF Monitor
<1>2. CASE Worker
  BY <1>2 DEF Worker, WorkerGoto, DriverCommand, StartIgnition, StopIgnition,
     FinishCommand, ResetShutoff, StopMainValve, StopIgniter
<1>3. CASE \E beyond \in BOOLEAN : PtSample(beyond)
  BY <1>3 DEF PtSample
<1>4. CASE Tick
  BY <1>4 DEF Tick
<1>5. CASE UNCHANGED vars
  BY <1>5 DEF vars, programVars, historyVars
<1> QED
  BY <1>1, <1>2, <1>3, <1>4, <1>5 DEF Next

(* Every write to a pin gives it one of the two levels.                    *)
LEMMA PinStep == IInv /\ [Next]_vars => pin' \in [Pins -> {LOW, HIGH}]
<1> SUFFICES ASSUME IInv, [Next]_vars PROVE pin' \in [Pins -> {LOW, HIGH}]
  OBVIOUS
<1> USE DEF IInv, TypeOK
<1>1. ASSUME NEW p, NEW level \in {LOW, HIGH}, Write(p, level)
      PROVE  pin' \in [Pins -> {LOW, HIGH}]
  BY <1>1 DEF Write
<1>2. ASSUME NEW p, Raise(p) PROVE pin' \in [Pins -> {LOW, HIGH}]
  BY <1>2 DEF Raise
<1>3. CASE Monitor
  BY <1>1, <1>2, <1>3 DEF Monitor, PollIdle, Doze, PollStart, Pass, BeginBurn,
     LightIgniter, LeaveLoop, TimerEnds, OpenMainValve, Opens, KeepMainValve,
     CutoffEnds, NoCutoff, StopEnds, GoOn, SampleTime, Sample, CloseMainValve,
     Close, CloseIgniter, CloseLast, ClearIgnition, Clear
<1>4. CASE Worker
  <2>1. ASSUME NEW c \in Received, DriverCommand(c)
        PROVE  pin' \in [Pins -> {LOW, HIGH}]
    BY <1>1, <2>1 DEF DriverCommand, LevelOf
  <2> QED
    BY <1>1, <1>4, <2>1 DEF Worker, StartIgnition, StopIgnition,
       FinishCommand, ResetShutoff, StopMainValve, StopIgniter
<1>5. CASE (\E beyond \in BOOLEAN : PtSample(beyond)) \/ Tick
  BY <1>5 DEF PtSample, Tick
<1>6. CASE UNCHANGED vars
  BY <1>6 DEF vars, programVars
<1> QED
  BY <1>3, <1>4, <1>5, <1>6 DEF Next

(* While a burn goes on its clock is only moved forwards.                  *)
LEMMA AgeGrows ==
  ASSUME IInv, Next, (InLoop \/ Closing)'
  PROVE  age' - age \in 0..1 \/ ~(InLoop \/ Closing)
<1> USE DEF IInv, TypeOK, InLoop, Closing
<1>1. CASE Monitor
  BY <1>1 DEF Monitor, MonitorGoto, PollIdle, Doze, PollStart, Pass, BeginBurn,
     LightIgniter, LeaveLoop, TimerEnds, OpenMainValve, Opens, KeepMainValve,
     CutoffEnds, NoCutoff, StopEnds, GoOn, SampleTime, Sample, CloseMainValve,
     Close, CloseIgniter, CloseLast, ClearIgnition, Clear
<1>2. CASE Worker
  BY <1>2 DEF Worker, WorkerGoto, DriverCommand, StartIgnition, StopIgnition,
     FinishCommand, ResetShutoff, StopMainValve, StopIgniter
<1>3. CASE (\E beyond \in BOOLEAN : PtSample(beyond)) \/ Tick
  BY <1>3 DEF PtSample, Tick
<1> QED
  BY <1>1, <1>2, <1>3 DEF Next

(* Every step keeps watch over the reasons to end a burn.                  *)
LEMMA Watched == Next => Watch
BY DEF Next, Monitor, PollIdle, Doze, PollStart, Pass, BeginBurn, LightIgniter,
   LeaveLoop, TimerEnds, OpenMainValve, Opens, KeepMainValve, CutoffEnds,
   NoCutoff, StopEnds, GoOn, SampleTime, Sample, CloseMainValve, Close,
   CloseIgniter, CloseLast, ClearIgnition, Clear, Worker, DriverCommand,
   StartIgnition, StopIgnition, FinishCommand, ResetShutoff, StopMainValve,
   StopIgniter, PtSample, Tick

(* How long a reason has stood grows with the burn's age, or starts again. *)
LEMMA DueStep == IInv /\ [Next]_vars => stopFor' \in Nat /\ cutoffFor' \in Nat
<1> SUFFICES ASSUME IInv, [Next]_vars PROVE stopFor' \in Nat /\ cutoffFor' \in Nat
  OBVIOUS
<1> USE DEF IInv, TypeOK
<1>1. CASE Next
  <2>1. Watch
    BY <1>1, Watched
  <2>2. CASE (InLoop \/ Closing) /\ (InLoop \/ Closing)'
    <3>1. age' - age \in Nat
      BY <1>1, <2>2, AgeGrows
    <3> QED
      BY <2>1, <3>1 DEF Watch
  <2>3. CASE ~((InLoop \/ Closing) /\ (InLoop \/ Closing)')
    BY <2>1, <2>3 DEF Watch, StopDue, CutoffDue
  <2> QED
    BY <2>2, <2>3
<1>2. CASE UNCHANGED vars
  BY <1>2 DEF vars, historyVars
<1> QED
  BY <1>1, <1>2

(* Zero is in every range the variables are reset to.                      *)
LEMMA Zero ==
  /\ 0 \in 0..(Word - 1) /\ 0 \in 0..MaxLate /\ 0 \in 0..IGN_CHECK_MS
  /\ 0 \in (-MaxBack)..MaxFwd
BY IgnitionAssumption, MaxBurnNat

(* Every step keeps the types.                                             *)
LEMMA TypeStep == IInv /\ [Next]_vars => TypeOK'
<1> SUFFICES ASSUME IInv, [Next]_vars PROVE TypeOK'
  OBVIOUS
<1> USE IgnitionAssumption, MaxBurnNat, Zero DEF IInv, TypeOK, MonitorLabels
<1>1. /\ pin' \in [Pins -> {LOW, HIGH}]
      /\ byBurn' \subseteq {MAIN_VALVE, IGN_START}
      /\ stopFor' \in Nat /\ cutoffFor' \in Nat
  BY PinStep, DueStep, HeldStep DEF HeldInv
<1>2. CASE Monitor
  <2>1. CASE PollIdle
    BY <1>1, <2>1 DEF MonitorGoto, PollIdle, Doze
  <2>2. CASE PollStart
    BY <1>1, <2>2 DEF MonitorGoto, PollStart, Pass
  <2>3. CASE BeginBurn
    BY <1>1, <2>3 DEF MonitorGoto, BeginBurn
  <2>4. CASE LightIgniter
    BY <1>1, <2>4 DEF MonitorGoto, LightIgniter
  <2>5. CASE TimerEnds
    BY <1>1, <2>5 DEF MonitorGoto, LeaveLoop, TimerEnds
  <2>6. CASE OpenMainValve
    BY <1>1, <2>6 DEF MonitorGoto, OpenMainValve, Opens
  <2>7. CASE KeepMainValve
    BY <1>1, <2>7 DEF MonitorGoto, KeepMainValve, Pass
  <2>8. CASE CutoffEnds
    BY <1>1, <2>8 DEF MonitorGoto, LeaveLoop, CutoffEnds
  <2>9. CASE NoCutoff
    BY <1>1, <2>9 DEF MonitorGoto, NoCutoff, Pass
  <2>10. CASE StopEnds
    BY <1>1, <2>10 DEF MonitorGoto, LeaveLoop, StopEnds
  <2>11. CASE GoOn
    BY <1>1, <2>11 DEF MonitorGoto, GoOn, Doze
  <2>12. CASE SampleTime
    BY <1>1, <2>12, SampleIs DEF MonitorGoto, Sample
  <2>13. CASE CloseMainValve
    BY <1>1, <2>13 DEF MonitorGoto, CloseMainValve, Close
  <2>14. CASE CloseIgniter
    BY <1>1, <2>14 DEF MonitorGoto, CloseIgniter, CloseLast, Close
  <2>15. CASE ClearIgnition
    BY <1>1, <2>15 DEF MonitorGoto, ClearIgnition, Clear
  <2> QED
    BY <1>2, <2>1, <2>2, <2>3, <2>4, <2>5, <2>6, <2>7, <2>8,
       <2>9, <2>10, <2>11, <2>12, <2>13, <2>14, <2>15 DEF Monitor
<1>3. CASE Worker
  <2>1. ASSUME NEW c \in Received, DriverCommand(c) PROVE TypeOK'
    BY <1>1, <2>1 DEF DriverCommand, WorkerGoto
  <2>2. CASE StartIgnition
    BY <1>1, <2>2 DEF StartIgnition, WorkerGoto
  <2>3. CASE StopIgnition
    BY <1>1, <2>3 DEF StopIgnition, WorkerGoto
  <2>4. CASE ResetShutoff
    BY <1>1, <2>4 DEF ResetShutoff, WorkerGoto
  <2>5. CASE StopMainValve
    BY <1>1, <2>5 DEF StopMainValve, WorkerGoto
  <2>6. CASE StopIgniter
    BY <1>1, <2>6 DEF StopIgniter, WorkerGoto
  <2> QED
    BY <1>3, <2>1, <2>2, <2>3, <2>4, <2>5, <2>6 DEF Worker, FinishCommand
<1>4. CASE \E beyond \in BOOLEAN : PtSample(beyond)
  BY <1>1, <1>4 DEF PtSample
<1>5. CASE Tick
  BY <1>1, <1>5 DEF Tick
<1>6. CASE UNCHANGED vars
  BY <1>6 DEF vars, programVars, historyVars
<1> QED
  BY <1>2, <1>3, <1>4, <1>5, <1>6 DEF Next

(* The invariant holds at the start, whatever mainOpen happens to be.      *)
LEMMA IInvInit == Init => IInv
<1> SUFFICES ASSUME Init PROVE IInv
  OBVIOUS
<1> USE IgnitionAssumption, MaxBurnNat DEF Init
<1>1. pin \in [Pins -> {LOW, HIGH}]
  OBVIOUS
<1>2. TypeOK
  BY <1>1, Zero DEF TypeOK, MonitorLabels
<1>3. NapInv /\ AgeInv /\ ElapsedInv
  BY DEF NapInv, AgeInv, ElapsedInv, InBurn, InLoop, Closing
<1>4. HeldInv /\ MainOpenInv
  BY DEF HeldInv, MainOpenInv, InLoop, Closing
<1> QED
  BY <1>2, <1>3, <1>4 DEF IInv

(* The inductive invariant holds throughout.                               *)
LEMMA IInvHolds == Spec => []IInv
<1>1. IInv /\ [Next]_vars => IInv'
  BY TypeStep, NapStep, AgeStep, ElapsedStep, HeldStep, MainOpenStep DEF IInv
<1> QED
  BY IInvInit, <1>1, PTL DEF Spec
-----------------------------------------------------------------------------
(* The variables keep to their types; in particular the difference of two  *)
(* clock readings always fits timestamp_t.                                 *)
THEOREM TypeCorrect == Spec => []TypeOK
BY IInvHolds, PTL DEF IInv

(* A burn lets go of its pins within MaxBurn milliseconds, for every       *)
(* timing, interleaving and clock adjustment the constants allow.          *)
THEOREM BurnIsBounded == Spec => []BurnBounded
<1>1. IInv => BurnBounded
  BY IgnitionAssumption, MaxBurnNat
     DEF IInv, TypeOK, AgeInv, NapInv, BurnBounded, InBurn, InLoop, Closing,
     MonitorLabels
<1> QED
  BY IInvHolds, <1>1, PTL

(* No burn leaves a pin up behind it.                                      *)
THEOREM NothingIsLeftUp == Spec => []NothingOutlivesBurn
<1>1. IInv => NothingOutlivesBurn
  BY DEF IInv, HeldInv, NothingOutlivesBurn, InLoop, Closing
<1> QED
  BY IInvHolds, <1>1, PTL

(* Once the first burn is over, mainOpen tells whether this burn opened    *)
(* the main valve.                                                         *)
THEOREM MainOpenIsTrue == Spec => []MainOpenTracksBurn
<1>1. IInv => MainOpenTracksBurn
  BY DEF IInv, TypeOK, HeldInv, MainOpenInv, MainOpenTracksBurn, InBurn,
     InLoop, Closing
<1> QED
  BY IInvHolds, <1>1, PTL

(* The monitor opens the valve only once the pre-ignition time has passed, *)
(* less what the clock was stepped forward; no other thread opens it on    *)
(* the burn's account.                                                     *)
THEOREM OpensInTime == Spec => OpensAfterPreignite
<1> DEFINE Opening == MAIN_VALVE \notin byBurn /\ MAIN_VALVE \in byBurn'
<1>1. IInv /\ [Next]_vars => (Opening => age + MaxFwd > preignite_ms)
  <2> SUFFICES ASSUME IInv, [Next]_vars, Opening
               PROVE  age + MaxFwd > preignite_ms
    OBVIOUS
  <2>1. OpenMainValve
    <3>1. ~Worker
      BY WorkerReleases
    <3> QED
      BY <3>1 DEF Next, Monitor, PollIdle, Doze, PollStart, Pass, BeginBurn,
         LightIgniter, LeaveLoop, TimerEnds, KeepMainValve, CutoffEnds,
         NoCutoff, StopEnds, GoOn, SampleTime, Sample, CloseMainValve, Close,
         CloseIgniter, CloseLast, ClearIgnition, Clear, Write, Raise, PtSample,
         Tick, vars, historyVars, MAIN_VALVE, IGN_START
  <2> QED
    BY <2>1, IgnitionAssumption, MaxBurnNat, FarAway
       DEF IInv, TypeOK, ElapsedInv, InLoop, OpenMainValve, Opens,
       MonitorGoto
<1>2. IInv /\ [Next]_vars => [Opening => age + MaxFwd > preignite_ms]_vars
  BY <1>1
<1> QED
  BY IInvHolds, <1>2, PTL DEF Spec, OpensAfterPreignite
-----------------------------------------------------------------------------
(* A stop is seen at the first check after it.                             *)
LEMMA StopStep == IInv /\ StopInv /\ [Next]_vars => StopInv'
<1> SUFFICES ASSUME IInv, StopInv, [Next]_vars PROVE StopInv'
  OBVIOUS
<1> USE IgnitionAssumption DEF IInv, TypeOK, NapInv, StopInv, Watch, StopDue,
    InBurn, InLoop, Closing
<1>1. CASE Monitor
  <2>1. CASE PollIdle
    BY <2>1 DEF MonitorGoto, PollIdle, Doze
  <2>2. CASE PollStart
    BY <2>2 DEF MonitorGoto, PollStart, Pass
  <2>3. CASE BeginBurn
    BY <2>3 DEF MonitorGoto, BeginBurn
  <2>4. CASE LightIgniter
    BY <2>4 DEF MonitorGoto, LightIgniter
  <2>5. CASE TimerEnds
    BY <2>5 DEF MonitorGoto, LeaveLoop, TimerEnds
  <2>6. CASE OpenMainValve
    BY <2>6 DEF MonitorGoto, OpenMainValve, Opens
  <2>7. CASE KeepMainValve
    BY <2>7 DEF MonitorGoto, KeepMainValve, Pass
  <2>8. CASE CutoffEnds
    BY <2>8 DEF MonitorGoto, LeaveLoop, CutoffEnds
  <2>9. CASE NoCutoff
    BY <2>9 DEF MonitorGoto, NoCutoff, Pass
  <2>10. CASE StopEnds
    BY <2>10 DEF MonitorGoto, LeaveLoop, StopEnds
  <2>11. CASE GoOn
    BY <2>11 DEF MonitorGoto, GoOn, Doze
  <2>12. CASE SampleTime
    BY <2>12 DEF MonitorGoto, SampleTime, Sample
  <2>13. CASE CloseMainValve
    BY <2>13 DEF MonitorGoto, CloseMainValve, Close
  <2>14. CASE CloseIgniter
    BY <2>14 DEF MonitorGoto, CloseIgniter, CloseLast, Close
  <2>15. CASE ClearIgnition
    BY <2>15 DEF MonitorGoto, ClearIgnition, Clear
  <2> QED
    BY <1>1, <2>1, <2>2, <2>3, <2>4, <2>5, <2>6, <2>7, <2>8,
       <2>9, <2>10, <2>11, <2>12, <2>13, <2>14, <2>15 DEF Monitor
<1>2. CASE Worker
  BY <1>2 DEF Worker, WorkerGoto, DriverCommand, StartIgnition, StopIgnition,
     FinishCommand, ResetShutoff, StopMainValve, StopIgniter
<1>3. CASE \E beyond \in BOOLEAN : PtSample(beyond)
  BY <1>3 DEF PtSample
<1>4. CASE Tick
  BY <1>4 DEF Tick
<1>5. CASE UNCHANGED vars
  BY <1>5 DEF vars, programVars, historyVars
<1> QED
  BY <1>1, <1>2, <1>3, <1>4, <1>5 DEF Next

(* A stop that stands ends the burn within one check interval and six      *)
(* latencies.                                                              *)
THEOREM StopEnding == Spec => []StopEndsBurn
<1>1. Init => StopInv
  BY IgnitionAssumption DEF Init, StopInv
<1>2. IInv /\ StopInv => StopEndsBurn
  BY IgnitionAssumption DEF IInv, TypeOK, NapInv, StopInv, StopEndsBurn,
     StopDue, InLoop, Closing, MonitorLabels
<1> QED
  BY IInvHolds, StopStep, <1>1, <1>2, PTL DEF Spec

(* A cutoff is seen at the first check after a fresh sample of the time.   *)
LEMMA CutoffStep == IInv /\ CutoffInv /\ [Next]_vars => CutoffInv'
<1> SUFFICES ASSUME IInv, CutoffInv, [Next]_vars PROVE CutoffInv'
  OBVIOUS
<1> USE IgnitionAssumption DEF IInv, TypeOK, NapInv, CutoffInv, Fresh, Watch,
    CutoffDue, PastDelay, InBurn, InLoop, Closing
<1>1. CASE Monitor
  <2>1. CASE PollIdle
    BY <2>1 DEF MonitorGoto, PollIdle, Doze
  <2>2. CASE PollStart
    BY <2>2 DEF MonitorGoto, PollStart, Pass
  <2>3. CASE BeginBurn
    BY <2>3 DEF MonitorGoto, BeginBurn
  <2>4. CASE LightIgniter
    BY <2>4 DEF MonitorGoto, LightIgniter
  <2>5. CASE TimerEnds
    BY <2>5 DEF MonitorGoto, LeaveLoop, TimerEnds
  <2>6. CASE OpenMainValve
    BY <2>6 DEF MonitorGoto, OpenMainValve, Opens
  <2>7. CASE KeepMainValve
    BY <2>7 DEF MonitorGoto, KeepMainValve, Pass
  <2>8. CASE CutoffEnds
    BY <2>8 DEF MonitorGoto, LeaveLoop, CutoffEnds, CutoffSeen
  <2>9. CASE NoCutoff
    BY <2>9 DEF MonitorGoto, NoCutoff, Pass, CutoffSeen
  <2>10. CASE StopEnds
    BY <2>10 DEF MonitorGoto, LeaveLoop, StopEnds
  <2>11. CASE GoOn
    BY <2>11 DEF MonitorGoto, GoOn, Doze
  <2>12. CASE SampleTime
    BY <2>12, SampleIs, FarAway, MaxBurnNat DEF MonitorGoto, Sample
  <2>13. CASE CloseMainValve
    BY <2>13 DEF MonitorGoto, CloseMainValve, Close
  <2>14. CASE CloseIgniter
    BY <2>14 DEF MonitorGoto, CloseIgniter, CloseLast, Close
  <2>15. CASE ClearIgnition
    BY <2>15 DEF MonitorGoto, ClearIgnition, Clear
  <2> QED
    BY <1>1, <2>1, <2>2, <2>3, <2>4, <2>5, <2>6, <2>7, <2>8,
       <2>9, <2>10, <2>11, <2>12, <2>13, <2>14, <2>15 DEF Monitor
<1>2. CASE Worker
  BY <1>2 DEF Worker, WorkerGoto, DriverCommand, StartIgnition, StopIgnition,
     FinishCommand, ResetShutoff, StopMainValve, StopIgniter
<1>3. CASE \E beyond \in BOOLEAN : PtSample(beyond)
  BY <1>3 DEF PtSample
<1>4. CASE Tick
  BY <1>4 DEF Tick
<1>5. CASE UNCHANGED vars
  BY <1>5 DEF vars, programVars, historyVars
<1> QED
  BY <1>1, <1>2, <1>3, <1>4, <1>5 DEF Next

(* A cutoff that stands past the delay ends the burn within one check      *)
(* interval and eight latencies, even if the clock is stepped back.        *)
THEOREM CutoffEnding == Spec => []CutoffEndsBurn
<1>1. Init => CutoffInv
  BY IgnitionAssumption DEF Init, CutoffInv
<1>2. IInv /\ CutoffInv => CutoffEndsBurn
  BY IgnitionAssumption DEF IInv, TypeOK, NapInv, CutoffInv, CutoffEndsBurn,
     CutoffDue, InLoop, Closing, MonitorLabels
<1> QED
  BY IInvHolds, CutoffStep, <1>1, <1>2, PTL DEF Spec

-----------------------------------------------------------------------------
(* What a step can do to a start that stands: a latency of the monitor is  *)
(* used up, a millisecond passes, or the operator withdraws it.            *)
LEMMA LightStep ==
  ASSUME IInv, [Next]_vars, StartStands
  PROVE  \/ /\ StartStands' /\ TimeToLight' <= TimeToLight
            /\ Tick => TimeToLight' = TimeToLight - 1
         \/ lastCmd' = "stop"
         \/ mpc' = "loop" /\ IGN_START \in byBurn'
<1> USE IgnitionAssumption DEF IInv, TypeOK, NapInv, StartStands, StepsToLight,
    TimeToLight
<1>1. CASE PollStart \/ BeginBurn
  <2>1. ~Tick
    BY <1>1 DEF PollStart, BeginBurn, Pass, MonitorGoto, Tick
  <2>2. CASE PollStart
    <3>1. TimeToLight = 3 * MaxLate - late /\ TimeToLight' = 2 * MaxLate
      BY <2>2 DEF PollStart, Pass, MonitorGoto
    <3> QED
      BY <2>1, <2>2, <3>1 DEF PollStart, Pass, MonitorGoto
  <2>3. CASE BeginBurn
    <3>1. TimeToLight = 2 * MaxLate - late /\ TimeToLight' = MaxLate
      BY <2>3 DEF BeginBurn, MonitorGoto
    <3> QED
      BY <2>1, <2>3, <3>1 DEF BeginBurn, MonitorGoto
  <2> QED
    BY <1>1, <2>2, <2>3
<1>2. CASE LightIgniter
  BY <1>2 DEF LightIgniter, MonitorGoto, Raise
<1>3. CASE Monitor /\ ~(PollStart \/ BeginBurn \/ LightIgniter)
  BY <1>3 DEF Monitor, MonitorGoto, PollIdle, Doze, LeaveLoop, TimerEnds,
     OpenMainValve, Opens, KeepMainValve, Pass, CutoffEnds, NoCutoff, StopEnds,
     GoOn, SampleTime, Sample, CloseMainValve, Close, CloseIgniter, CloseLast,
     ClearIgnition, Clear
<1>4. CASE StopIgnition
  BY <1>4 DEF StopIgnition
<1>5. CASE (Worker /\ ~StopIgnition) \/ (\E beyond \in BOOLEAN : PtSample(beyond))
  <2>1. /\ UNCHANGED <<mpc, nap, late>>
        /\ ignitionOn'
    BY <1>5 DEF Worker, WorkerGoto, DriverCommand, StartIgnition, FinishCommand,
       ResetShutoff, StopMainValve, StopIgniter, PtSample
  <2>2. ~Tick
    BY <2>1 DEF Tick
  <2> QED
    BY <2>1, <2>2
<1>6. CASE Tick
  BY <1>6 DEF Tick
<1>7. CASE UNCHANGED vars
  BY <1>7 DEF vars, programVars, Tick
<1> QED
  BY <1>1, <1>2, <1>3, <1>4, <1>5, <1>6, <1>7 DEF Next

(* A start that the monitor is waiting for lights the igniter within one   *)
(* check interval and three latencies, or is withdrawn by a stop.          *)
THEOREM LitInTime == Spec => []LightWindow /\ LightsInTime
<1>1. IInv => LightWindow
  BY IgnitionAssumption DEF IInv, TypeOK, NapInv, LightWindow, StartStands,
     StepsToLight, TimeToLight
<1>2. IInv /\ [Next]_vars =>
        [ StartStands =>
            \/ /\ StartStands' /\ TimeToLight' <= TimeToLight
               /\ Tick => TimeToLight' = TimeToLight - 1
            \/ lastCmd' = "stop"
            \/ mpc' = "loop" /\ IGN_START \in byBurn' ]_vars
  BY LightStep
<1> QED
  BY IInvHolds, <1>1, <1>2, PTL DEF Spec, LightsInTime

-----------------------------------------------------------------------------
(* An unopened burn passes the head of the loop only while its last sample *)
(* of the time says that pre-ignition lasts.                               *)
LEMMA OpenStep == IInv /\ OpenInv /\ [Next]_vars => OpenInv'
<1> SUFFICES ASSUME IInv, OpenInv, [Next]_vars PROVE OpenInv'
  OBVIOUS
<1> USE IgnitionAssumption DEF IInv, TypeOK, NapInv, AgeInv, MainOpenInv, HeldInv,
    OpenInv, PreEntry, InBurn, InLoop, Closing
<1>1. CASE Monitor
  <2>1. CASE PollIdle
    BY <2>1 DEF MonitorGoto, PollIdle, Doze
  <2>2. CASE PollStart
    BY <2>2 DEF MonitorGoto, PollStart, Pass
  <2>3. CASE BeginBurn
    BY <2>3 DEF MonitorGoto, BeginBurn
  <2>4. CASE LightIgniter
    BY <2>4 DEF MonitorGoto, LightIgniter
  <2>5. CASE TimerEnds
    BY <2>5 DEF MonitorGoto, LeaveLoop, TimerEnds
  <2>6. CASE OpenMainValve
    BY <2>6 DEF MonitorGoto, OpenMainValve, Opens
  <2>7. CASE KeepMainValve
    BY <2>7 DEF MonitorGoto, KeepMainValve, Pass
  <2>8. CASE CutoffEnds
    BY <2>8 DEF MonitorGoto, LeaveLoop, CutoffEnds
  <2>9. CASE NoCutoff
    BY <2>9 DEF MonitorGoto, NoCutoff, Pass
  <2>10. CASE StopEnds
    BY <2>10 DEF MonitorGoto, LeaveLoop, StopEnds
  <2>11. CASE GoOn
    BY <2>11 DEF MonitorGoto, GoOn, Doze
  <2>12. CASE SampleTime
    BY <2>12, SampleIs, FarAway, MaxBurnNat DEF MonitorGoto, Sample
  <2>13. CASE CloseMainValve
    BY <2>13 DEF MonitorGoto, CloseMainValve, Close
  <2>14. CASE CloseIgniter
    BY <2>14 DEF MonitorGoto, CloseIgniter, CloseLast, Close
  <2>15. CASE ClearIgnition
    BY <2>15 DEF MonitorGoto, ClearIgnition, Clear
  <2> QED
    BY <1>1, <2>1, <2>2, <2>3, <2>4, <2>5, <2>6, <2>7, <2>8,
       <2>9, <2>10, <2>11, <2>12, <2>13, <2>14, <2>15 DEF Monitor
<1>2. CASE Worker
  BY <1>2 DEF Worker, WorkerGoto, DriverCommand, StartIgnition, StopIgnition,
     FinishCommand, ResetShutoff, StopMainValve, StopIgniter
<1>3. CASE \E beyond \in BOOLEAN : PtSample(beyond)
  BY <1>3 DEF PtSample
<1>4. CASE Tick
  BY <1>4 DEF Tick
<1>5. CASE UNCHANGED vars
  BY <1>5 DEF vars, programVars, historyVars
<1> QED
  BY <1>1, <1>2, <1>3, <1>4, <1>5 DEF Next

(* From the second burn on, the valve opens within LatestOpen, which       *)
(* follows the pre-ignition time, or the burn has left its loop.           *)
THEOREM OpensSoon == Spec => []OpensByThen
<1>1. Init => OpenInv
  BY DEF Init, OpenInv
<1>2. IInv /\ OpenInv => OpensByThen
  BY IgnitionAssumption DEF IInv, TypeOK, NapInv, OpenInv, OpensByThen,
     LatestOpen, PreEntry, InLoop
<1> QED
  BY IInvHolds, OpenStep, <1>1, <1>2, PTL DEF Spec

(* A sample wraps only if the clock then stands before the burn's start.   *)
LEMMA WrapStep == IInv /\ WrapInv /\ [Next]_vars => WrapInv'
<1> SUFFICES ASSUME IInv, WrapInv, [Next]_vars PROVE WrapInv'
  OBVIOUS
<1> USE IgnitionAssumption, MaxBurnNat, FarAway DEF IInv, TypeOK, WrapInv, Crossed
<1>1. CASE LightIgniter
  BY <1>1 DEF LightIgniter, MonitorGoto, AgeInv
<1>2. CASE SampleTime
  <2>1. PICK skew \in (-MaxBack)..MaxFwd :
          /\ Sample(Elapsed(skew))
          /\ \/ Elapsed(skew) = age + skew
             \/ /\ Elapsed(skew) >= Far
                /\ age < MaxBack \/ (began < 0 /\ began + age + MaxFwd >= 0)
    BY <1>2, SampleIs
  <2>2. /\ timeElapsed' = Elapsed(skew) /\ late' = 0
        /\ age' = age /\ began' = began /\ age <= MaxBurn /\ age \in Nat
    BY <2>1 DEF Sample, MonitorGoto, AgeInv, NapInv
  <2>3. CASE Elapsed(skew) = age + skew
    <3>1. timeElapsed' \in Int /\ timeElapsed' < Far
      BY <2>2, <2>3
    <3> QED
      BY <2>2, <3>1
  <2>4. CASE age < MaxBack \/ (began < 0 /\ began + age + MaxFwd >= 0)
    BY <2>2, <2>4
  <2> QED
    BY <2>1, <2>3, <2>4
<1>3. CASE Monitor /\ ~(LightIgniter \/ SampleTime)
  BY <1>3 DEF Monitor, MonitorGoto, PollIdle, Doze, PollStart, Pass, BeginBurn,
     LeaveLoop, TimerEnds, OpenMainValve, Opens, KeepMainValve, CutoffEnds,
     NoCutoff, StopEnds, GoOn, CloseMainValve, Close, CloseIgniter, CloseLast,
     ClearIgnition, Clear
<1>4. CASE Worker
  BY <1>4 DEF Worker, WorkerGoto, DriverCommand, StartIgnition, StopIgnition,
     FinishCommand, ResetShutoff, StopMainValve, StopIgniter
<1>5. CASE \E beyond \in BOOLEAN : PtSample(beyond)
  BY <1>5 DEF PtSample
<1>6. CASE Tick
  BY <1>6 DEF Tick, NapInv, InBurn, InLoop
<1>7. CASE UNCHANGED vars
  BY <1>7 DEF vars, programVars
<1> QED
  BY <1>1, <1>2, <1>3, <1>4, <1>5, <1>6, <1>7 DEF Next

(* The timer ends no burn early, unless the clock is stepped back behind   *)
(* the beginning of the burn, or passes start_time in it.                  *)
THEOREM TimerKeepsTime == Spec => TimerNotEarly
<1> DEFINE Ending == mpc = "loop" /\ mpc' = "closeMain"
           InTime == age + MaxFwd >= hotflow_ms \/ age < MaxBack + MaxLate \/ Crossed
<1>1. IInv /\ WrapInv /\ [Next]_vars => (Ending => InTime)
  <2> SUFFICES ASSUME IInv, WrapInv, [Next]_vars, Ending PROVE InTime
    OBVIOUS
  <2>1. TimerEnds
    BY DEF Next, Monitor, PollIdle, Doze, PollStart, Pass, BeginBurn,
       LightIgniter, LeaveLoop, OpenMainValve, Opens, KeepMainValve,
       CutoffEnds, NoCutoff, StopEnds, GoOn, SampleTime, Sample,
       CloseMainValve, Close, CloseIgniter, CloseLast, ClearIgnition, Clear,
       MonitorGoto, Worker, WorkerGoto, DriverCommand, StartIgnition,
       StopIgnition, FinishCommand, ResetShutoff, StopMainValve, StopIgniter,
       PtSample, Tick, vars, programVars
  <2> QED
    BY <2>1, IgnitionAssumption, MaxBurnNat, FarAway
       DEF IInv, TypeOK, ElapsedInv, WrapInv, InLoop, TimerEnds
<1>2. IInv /\ WrapInv /\ [Next]_vars => [Ending => InTime]_vars
  BY <1>1
<1>3. Init => WrapInv
  BY DEF Init, WrapInv
<1> QED
  BY IInvHolds, WrapStep, <1>2, <1>3, PTL DEF Spec, TimerNotEarly

-----------------------------------------------------------------------------
(* Refinement.  A step of the command thread, of the pressure transducer   *)
(* thread or of the wall clock lets go of pins at most; a step of the      *)
(* monitor is a step of the burn cycle or none.                            *)
LEMMA RefinementStep ==
  IInv /\ BurnBounded' /\ [Next]_vars => [Burn!BurnNext]_(Burn!burnVars)
<1> SUFFICES ASSUME IInv, BurnBounded', [Next]_vars
             PROVE  [Burn!BurnNext]_(Burn!burnVars)
  OBVIOUS
<1> USE DEF Burn!burnVars, Burn!BurnNext, IInv, HeldInv, InBurn, InLoop,
Closing
<1>1. CASE Monitor
  <2>1. CASE PollIdle \/ PollStart
    BY <2>1 DEF PollIdle, Doze, PollStart, Pass, MonitorGoto
  <2>2. CASE BeginBurn
    <3>1. age = 0 /\ opened = FALSE
      BY <2>2 DEF BeginBurn, MonitorGoto, AgeInv, TypeOK
    <3> QED
      BY <2>2, <3>1 DEF BeginBurn, MonitorGoto, Burn!Begin
  <2>3. CASE LightIgniter
    BY <2>3 DEF LightIgniter, MonitorGoto, Raise, Burn!Ignite
  <2>4. CASE TimerEnds
    BY <2>4 DEF TimerEnds, LeaveLoop, MonitorGoto
  <2>5. CASE OpenMainValve
    <3>1. age > preignite_ms - MaxFwd
      BY <2>5, IgnitionAssumption, MaxBurnNat, FarAway
         DEF OpenMainValve, Opens, MonitorGoto, TypeOK, ElapsedInv
    <3>2. ~opened
      BY <2>5 DEF OpenMainValve, Opens
    <3> QED
      BY <2>5, <3>1, <3>2 DEF OpenMainValve, Opens, MonitorGoto, Raise,
         Burn!Open
  <2>6. CASE KeepMainValve
    BY <2>6 DEF KeepMainValve, Pass, MonitorGoto
  <2>7. CASE CutoffEnds
    BY <2>7 DEF CutoffEnds, LeaveLoop, MonitorGoto
  <2>8. CASE NoCutoff
    BY <2>8 DEF NoCutoff, Pass, MonitorGoto
  <2>9. CASE StopEnds
    BY <2>9 DEF StopEnds, LeaveLoop, MonitorGoto
  <2>10. CASE GoOn
    BY <2>10 DEF GoOn, Doze, MonitorGoto
  <2>11. CASE SampleTime
    BY <2>11 DEF SampleTime, Sample, MonitorGoto
  <2>12. CASE CloseMainValve
    BY <2>12 DEF CloseMainValve, Close, MonitorGoto, Write, Burn!Release
  <2>13. CASE CloseIgniter
    BY <2>13 DEF CloseIgniter, CloseLast, Close, MonitorGoto, Write, Burn!End
  <2>14. CASE ClearIgnition
    BY <2>14 DEF ClearIgnition, Clear, MonitorGoto
  <2> QED
    BY <1>1, <2>1, <2>2, <2>3, <2>4, <2>5, <2>6, <2>7, <2>8, <2>9, <2>10,
       <2>11, <2>12, <2>13, <2>14 DEF Monitor
<1>2. CASE Worker
  <2>1. UNCHANGED <<mpc, opened, age>>
    BY <1>2 DEF Worker, WorkerGoto, DriverCommand, StartIgnition,
       StopIgnition, FinishCommand, ResetShutoff, StopMainValve, StopIgniter
  <2>2. byBurn' \subseteq byBurn
    BY <1>2, WorkerReleases
  <2>3. CASE InBurn
    BY <2>1, <2>2, <2>3 DEF Burn!Release
  <2>4. CASE ~InBurn
    <3>1. byBurn = {} /\ byBurn' = {}
      BY <2>2, <2>4
    <3> QED
      BY <2>1, <2>4, <3>1
  <2> QED
    BY <2>3, <2>4
<1>3. CASE \E beyond \in BOOLEAN : PtSample(beyond)
  BY <1>3 DEF PtSample
<1>4. CASE Tick
  <2>1. CASE InBurn
    <3>1. age' = age + 1 /\ age \in Nat /\ UNCHANGED <<mpc, opened, byBurn>>
      BY <1>4, <2>1 DEF Tick, TypeOK
    <3>2. age < MaxBurn
      BY <3>1, MaxBurnNat DEF BurnBounded
    <3> QED
      BY <2>1, <3>1, <3>2 DEF Burn!Pass
  <2>2. CASE ~InBurn
    BY <1>4, <2>2 DEF Tick
  <2> QED
    BY <2>1, <2>2
<1>5. CASE UNCHANGED vars
  BY <1>5 DEF vars, programVars, historyVars
<1> QED
  BY <1>1, <1>2, <1>3, <1>4, <1>5 DEF Next

(* The threads implement the burn cycle: a burn opens the valve at most    *)
(* once, never too early, and is over within MaxBurn milliseconds.         *)
THEOREM Refinement == Spec => BurnRefined
<1>1. Init => Burn!BurnInit
  BY DEF Init, Burn!BurnInit, InBurn, InLoop, Closing
<1> QED
  BY IInvHolds, BurnIsBounded, RefinementStep, <1>1, PTL
     DEF Spec, BurnRefined, Burn!BurnSafe
=============================================================================
