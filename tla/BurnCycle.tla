----------------------------- MODULE BurnCycle ------------------------------
(***************************************************************************)
(* What the controller promises about a burn, with nothing of threads,     *)
(* flags or clocks.  A burn lights the igniter, opens the valve at most    *)
(* once and not too early, may be made to let go of either pin at any      *)
(* time, and lets go of both within MaxBurn milliseconds of its start.     *)
(***************************************************************************)
EXTENDS Integers

CONSTANTS
  Igniter, Valve,   \* the two pins of a burn
  EarliestOpen,     \* the valve stays shut until the burn is older than this
  MaxBurn           \* the oldest a burn can get

VARIABLES
  phase,   \* "idle", "preignite" or "hotflow"
  held,    \* the pins the burn holds up
  age      \* milliseconds since the burn began

burnVars == <<phase, held, age>>

BurnInit == phase = "idle" /\ held = {} /\ age = 0

Begin ==
  /\ phase = "idle"
  /\ phase' = "preignite"
  /\ UNCHANGED <<held, age>>

Ignite ==
  /\ phase = "preignite"
  /\ held' = held \union {Igniter}
  /\ UNCHANGED <<phase, age>>

Open ==
  /\ phase = "preignite"
  /\ age > EarliestOpen
  /\ phase' = "hotflow"
  /\ held' = held \union {Valve}
  /\ UNCHANGED age

Release ==
  /\ phase # "idle"
  /\ held' \in SUBSET held
  /\ UNCHANGED <<phase, age>>

End ==
  /\ phase # "idle"
  /\ phase' = "idle"
  /\ held' = {}
  /\ age' = 0

Pass ==
  /\ phase # "idle"
  /\ age < MaxBurn
  /\ age' = age + 1
  /\ UNCHANGED <<phase, held>>

BurnNext == Begin \/ Ignite \/ Open \/ Release \/ End \/ Pass

BurnSafe == BurnInit /\ [][BurnNext]_burnVars
BurnSpec == BurnSafe /\ WF_burnVars(End)
=============================================================================
