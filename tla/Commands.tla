------------------------------ MODULE Commands ------------------------------
(***************************************************************************)
(* The vocabulary of the controller: the six driver pins of the board, the *)
(* command bytes of the TCP protocol, the pin each visitor writes for a    *)
(* driver command, and the pins its start-up makes outputs.                *)
(***************************************************************************)
EXTENDS Integers

CONSTANT EngineType    \* which visitor main constructs: "LUNA" or "TITAN"

ASSUME EngineAssumption == EngineType \in {"LUNA", "TITAN"}

LOW  == 0
HIGH == 1

-----------------------------------------------------------------------------
(* Pins.  A pin is named by the number of the driver wired to it; the      *)
(* engines only rename them, so an alias is the same pin.                  *)

Pins == 1..6

MAIN_VALVE        == 1
PRESSURE_VALVE    == 2
MAIN_FEED_VALVE   == 1
OXI_VALVE         == 2
GROUND_VENT_VALVE == 3
IGN_START         == 6

(* The pins that initialize_pins / titan_initialize_pins configure as      *)
(* outputs; a write to any other pin drives nothing.                       *)
OutputPins ==
  IF EngineType = "LUNA"
    THEN {MAIN_VALVE, PRESSURE_VALVE, IGN_START}
    ELSE {MAIN_FEED_VALVE, OXI_VALVE, GROUND_VENT_VALVE, IGN_START}

-----------------------------------------------------------------------------
(* Command bytes, with the numbering of enum COMMAND.                      *)

Bytes == 0..255

UNSET_DRIVER(k) == 2 * k - 2
SET_DRIVER(k)   == 2 * k - 1
STOP_IGNITION   == 12
START_IGNITION  == 13

DriverCommands == 0..11

(* The driver a driver command addresses, and the level it asks for.       *)
DriverOf(c) == c \div 2 + 1
LevelOf(c)  == IF c % 2 = 1 THEN HIGH ELSE LOW

(* The pin each visitor writes for driver k: the base visitor writes       *)
(* DRIVERk, the engines override the drivers they have renamed and defer   *)
(* to the base for the rest.                                               *)
BasePin(k)  == k
LunaPin(k)  == CASE k = 1 -> MAIN_VALVE
                 [] k = 2 -> PRESSURE_VALVE
                 [] OTHER -> BasePin(k)
TitanPin(k) == CASE k = 1 -> MAIN_FEED_VALVE
                 [] k = 2 -> OXI_VALVE
                 [] k = 3 -> GROUND_VENT_VALVE
                 [] OTHER -> BasePin(k)

DriverPin(k) == IF EngineType = "LUNA" THEN LunaPin(k) ELSE TitanPin(k)
=============================================================================
