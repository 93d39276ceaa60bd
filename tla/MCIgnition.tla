----------------------------- MODULE MCIgnition -----------------------------
(***************************************************************************)
(* Small instances of Ignition for TLC: what the operator sends.  The      *)
(* number of burns is not bounded, since every counter of a burn is reset  *)
(* when the burn ends.                                                     *)
(***************************************************************************)
EXTENDS IgnitionInv

(* Both ignition commands, and the two driver commands that reach behind   *)
(* the monitor's back: closing the main valve and lighting the igniter.    *)
IgnitionAndDrivers ==
  {UNSET_DRIVER(1), SET_DRIVER(6), STOP_IGNITION, START_IGNITION}

(* A burn may begin while the clock is behind start_time, so little that   *)
(* it may pass start_time during the burn, or ahead of it.                 *)
SomeClocks == {-2, 1}
Ahead      == {1}

IgnitionOnly == {STOP_IGNITION, START_IGNITION}
=============================================================================
