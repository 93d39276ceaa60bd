---------------------------- MODULE MCController ----------------------------
(***************************************************************************)
(* A small instance of Controller for TLC.                                 *)
(***************************************************************************)
EXTENDS Controller

(* Both ignition commands, a driver command that closes the main valve     *)
(* under a burn, a byte that commands nothing, and the end of a session.   *)
SomeBytes == {STOP_IGNITION, START_IGNITION, UNSET_DRIVER(1), 20, Quit}
=============================================================================
