---------------------------- MODULE IgnitionInv -----------------------------
(***************************************************************************)
(* The inductive invariants behind Ignition's bounds, and the refinement   *)
(* mapping from Ignition to BurnCycle.                                     *)
(***************************************************************************)
EXTENDS Ignition

(* The oldest a burn can be when the monitor comes to the head of its loop *)
(* with the timer still running: on the first pass one latency, later on   *)
(* the timer plus what the clock was stepped back.                         *)
Entry == hotflow_ms + MaxBack + MaxLate

(* A sleeping monitor is not late, and sleeps only where it calls          *)
(* sleep_for.                                                              *)
NapInv ==
  /\ nap > 0 => late = 0
  /\ mpc \notin {"wait", "sample"} => nap = 0

(* How old the burn is at each point of the monitor's way round.           *)
AgeInv ==
  /\ ~InBurn => age = 0
  /\ mpc = "ignite"    => age <= late /\ timeElapsed = 0
  /\ mpc = "loop"      => /\ timeElapsed < hotflow_ms => age <= Entry + late
                          /\ age <= Entry + IGN_CHECK_MS + 4 * MaxLate + late
  /\ mpc = "shutoff"   => age <= Entry + MaxLate + late
  /\ mpc = "stopchk"   => age <= Entry + 2 * MaxLate + late
  /\ mpc = "sample"    => age + nap <= Entry + IGN_CHECK_MS + 3 * MaxLate + late
  /\ mpc = "closeMain" => age <= Entry + IGN_CHECK_MS + 5 * MaxLate + late
  /\ mpc = "closeIgn"  => age <= Entry + IGN_CHECK_MS + 6 * MaxLate + late

(* What the program believes of the time is at most what has passed, plus  *)
(* the step forward; or it is a wrapped difference, beyond any timer.      *)
ElapsedInv ==
  InLoop => timeElapsed <= age + MaxFwd \/ timeElapsed >= Far

(* The burn holds a pin only from where it raises it to where it closes    *)
(* it, and the valve is marked open if this burn opened it.                *)
HeldInv ==
  /\ byBurn \subseteq {MAIN_VALVE, IGN_START}
  /\ ~(InLoop \/ Closing) => byBurn = {}
  /\ mpc = "closeIgn" => byBurn \subseteq {IGN_START}
  /\ ~(InLoop \/ Closing) => ~opened
  /\ MAIN_VALVE \in byBurn => opened
  /\ opened => mainOpen

(* From the second burn on, mainOpen is down until this burn opens the     *)
(* valve.                                                                  *)
MainOpenInv == ~firstBurn /\ mainOpen /\ mpc # "clear" => opened

(* How long a stop can have stood at each point: it is seen at the next    *)
(* "stopchk", which comes after at most one sleep.                         *)
StopInv ==
  /\ ~StopDue => stopFor = 0
  /\ mpc = "sample"    => stopFor + nap <= IGN_CHECK_MS + late
  /\ mpc = "loop"      => stopFor <= IGN_CHECK_MS + MaxLate + late
  /\ mpc = "shutoff"   => stopFor <= IGN_CHECK_MS + 2 * MaxLate + late
  /\ mpc = "stopchk"   => stopFor <= IGN_CHECK_MS + 3 * MaxLate + late
  /\ mpc = "closeMain" => stopFor <= IGN_CHECK_MS + 4 * MaxLate + late
  /\ mpc = "closeIgn"  => stopFor <= IGN_CHECK_MS + 5 * MaxLate + late

(* The same for a cutoff: the monitor may pass "shutoff" once with a time  *)
(* it sampled before the delay was over, but not a second time.            *)
Fresh == timeElapsed > pressureshutoff_ms
CutoffInv ==
  /\ ~CutoffDue => cutoffFor = 0
  /\ mpc = "loop"      => /\ ~Fresh => cutoffFor <= late
                          /\ cutoffFor <= IGN_CHECK_MS + 4 * MaxLate + late
  /\ mpc = "shutoff"   => /\ ~Fresh => cutoffFor <= MaxLate + late
                          /\ cutoffFor <= IGN_CHECK_MS + 5 * MaxLate + late
  /\ mpc = "stopchk"   => cutoffFor <= 2 * MaxLate + late
  /\ mpc = "sample"    => cutoffFor + nap <= IGN_CHECK_MS + 3 * MaxLate + late
  /\ mpc = "closeMain" => cutoffFor <= IGN_CHECK_MS + 6 * MaxLate + late
  /\ mpc = "closeIgn"  => cutoffFor <= IGN_CHECK_MS + 7 * MaxLate + late

(* The invariant that is inductive for the threads' steps and the clock.   *)
IInv == TypeOK /\ NapInv /\ AgeInv /\ ElapsedInv /\ HeldInv /\ MainOpenInv
-----------------------------------------------------------------------------
(* How long a start can stand before the igniter is lit.  The monitor has  *)
(* what is left of its sleep and one latency for each step still to take.  *)
StartStands == ignitionOn /\ mpc \in {"wait", "begin", "ignite"}
StepsToLight ==
  IF mpc = "wait" THEN 3 ELSE IF mpc = "begin" THEN 2 ELSE 1
TimeToLight == nap + StepsToLight * MaxLate - late

(* A start the monitor waits for lights the igniter within one check       *)
(* interval and three latencies, unless a stop withdraws it: the time left *)
(* is never more than that, runs down with the clock and is never put off. *)
LightWindow == StartStands => TimeToLight \in 0..(IGN_CHECK_MS + 3 * MaxLate)
LightsInTime ==
  [][ StartStands =>
        \/ /\ StartStands' /\ TimeToLight' <= TimeToLight
           /\ Tick => TimeToLight' = TimeToLight - 1
        \/ lastCmd' = "stop"
        \/ mpc' = "loop" /\ IGN_START \in byBurn' ]_vars

(* How old a burn that has not opened its valve is at each point, from the *)
(* second burn on: it passes the head of the loop unopened on the first    *)
(* pass, or with a sample that says preignite_ms at most.                  *)
PreEntry ==
  IF preignite_ms + MaxBack >= MaxLate THEN preignite_ms + MaxBack ELSE MaxLate
OpenInv == ~firstBurn /\ ~opened =>
  /\ mpc = "loop"    => /\ timeElapsed <= preignite_ms => age <= PreEntry + late
                        /\ age <= PreEntry + IGN_CHECK_MS + 4 * MaxLate + late
  /\ mpc = "shutoff" => age <= PreEntry + MaxLate + late
  /\ mpc = "stopchk" => age <= PreEntry + 2 * MaxLate + late
  /\ mpc = "sample"  => age + nap <= PreEntry + IGN_CHECK_MS + 3 * MaxLate + late

(* A burn that runs on opens its valve soon after the pre-ignition time:   *)
(* one check interval, the way round the loop and a clock stepped back.    *)
LatestOpen == PreEntry + IGN_CHECK_MS + 5 * MaxLate
OpensByThen == ~firstBurn /\ InLoop /\ age > LatestOpen => opened

(* A burn that began with the clock behind start_time, and may have seen   *)
(* it pass start_time since, be it without any step.                       *)
Crossed == began < 0 /\ began + age + MaxFwd >= 0

(* A difference of clock readings wraps only in a burn younger than the    *)
(* step back, and in one that crossed start_time.                          *)
WrapInv ==
  mpc = "loop" /\ timeElapsed >= Far => age < MaxBack + late \/ Crossed

(* The timer ends no burn before the hotflow time, less what the clock was *)
(* stepped forward, but for the two kinds of burn whose unsigned time      *)
(* wraps: one whose clock was stepped back behind its beginning, and one   *)
(* that began behind start_time and went past it.                          *)
TimerNotEarly ==
  [][ mpc = "loop" /\ mpc' = "closeMain" =>
        age + MaxFwd >= hotflow_ms \/ age < MaxBack + MaxLate \/ Crossed ]_vars
-----------------------------------------------------------------------------
(* A burn as BurnCycle sees it.                                            *)
Burn == INSTANCE BurnCycle WITH
  Igniter      <- IGN_START,
  Valve        <- MAIN_VALVE,
  EarliestOpen <- preignite_ms - MaxFwd,
  phase        <- IF ~InBurn THEN "idle"
                  ELSE IF opened THEN "hotflow" ELSE "preignite",
  held         <- byBurn

(* The threads, the flags and the adjusted clock together keep to the burn *)
(* cycle: ignThreadFunc opens the valve at most once per burn and in time, *)
(* and whatever the other threads do a burn lets go of its pins in time.   *)
BurnRefined == Burn!BurnSafe

(* And under the scheduling the kernel gives, every burn comes to its end. *)
BurnRefinedLive == Burn!BurnSpec
=============================================================================
