------------------------------- MODULE AdcBus -------------------------------
(***************************************************************************)
(* The SPI bus: three converters, selected by a pin each, and the three    *)
(* sensor threads that read from them one at a time under adc_mutex.       *)
(*                                                                         *)
(* A pin is named by its place on the header, and a driver pin by its      *)
(* driver.  A write changes the latch of a pin, which the pin shows only   *)
(* once it has been made an output.                                        *)
(***************************************************************************)
EXTENDS Integers

LOW  == 0
HIGH == 1

ADC_0_CS == 26
ADC_1_CS == 24
ADC_2_CS == 22
Converters == {ADC_0_CS, ADC_1_CS, ADC_2_CS}
BusPins == (1..6) \union Converters

(* The converter the sensors of each thread are wired to.                  *)
LC_ADC == ADC_2_CS
PT_ADC == ADC_1_CS
TC_ADC == ADC_0_CS
WiredTo == [LC |-> LC_ADC, PT |-> PT_ADC, TC |-> TC_ADC]

(* The sensors by number, and those that main gives each thread.           *)
NUM_SENSORS == 13
SensorsOf == [LC |-> 0..4, PT |-> 5..8, TC |-> 9..12]
Threads == {"LC", "PT", "TC"}
NoSensor == -1
Nobody == "nobody"

(* Mutant: the fifth load cell has slipped into the next group.            *)
SENSOR_PINS_Shifted(s) == IF s <= 3 THEN 22 ELSE IF s <= 8 THEN 24 ELSE 26

SENSOR_PINS(s) == IF s <= 4 THEN 22 ELSE IF s <= 8 THEN 24 ELSE 26

VARIABLES
  tpc,      \* where each thread is
  item,     \* the sensor it is reading
  holder,   \* who has adc_mutex
  output,   \* the pins that are outputs
  level,    \* the latch of each pin
  parked,   \* history: the chip selects this process has set HIGH
  clean     \* history: the last read to select began with all of them parked

pinVars == <<output, level>>
busVars == <<tpc, item, holder, pinVars, parked, clean>>

Selected == {c \in Converters : c \in output /\ level[c] = LOW}

Everywhere(x) == [t \in Threads |-> x]

BusInit ==
  /\ tpc = Everywhere("off") /\ item = Everywhere(NoSensor)
  /\ holder = Nobody
  /\ output = {} /\ level = [p \in BusPins |-> LOW]
  /\ parked = {} /\ clean = FALSE

(* A process that ends takes its threads and its mutex with it, but no pin.*)
ThreadsEnd ==
  /\ tpc' = Everywhere("off") /\ item' = Everywhere(NoSensor)
  /\ holder' = Nobody
  /\ UNCHANGED pinVars
  /\ parked' = {} /\ clean' = FALSE

Goto(t, from, to) == tpc[t] = from /\ tpc' = [tpc EXCEPT ![t] = to]
Fsel(p)     == output' = output \union {p}
Write(p, l) == level' = [level EXCEPT ![p] = l]
-----------------------------------------------------------------------------
(* read_item.                                                              *)

(* Mutant: the bound names the last sensor, not the one after it.          *)
InTableShort(s) == s < NUM_SENSORS - 1

InTable(s) == s <= NUM_SENSORS

(* The early return for an index outside the table keeps the mutex.        *)
Lock(t, s) ==
  /\ holder = Nobody
  /\ holder' = t
  /\ Goto(t, "idle", IF InTable(s) THEN "select" ELSE "idle")
  /\ item' = [item EXCEPT ![t] = s]
  /\ UNCHANGED <<pinVars, parked, clean>>

Select(t) ==
  /\ Goto(t, "select", "transfer")
  /\ Write(SENSOR_PINS(item[t]), LOW)
  /\ clean' = (Converters \subseteq parked)
  /\ UNCHANGED <<item, holder, output, parked>>

(* The transfer lasts as long as the thread is at "transfer".              *)
Transfer(t) ==
  /\ Goto(t, "transfer", "deselect")
  /\ UNCHANGED <<item, holder, pinVars, parked, clean>>

(* Mutant: the converter is left selected.                                 *)
DeselectNot(t) ==
  /\ Goto(t, "deselect", "unlock")
  /\ UNCHANGED <<item, holder, pinVars, parked, clean>>

Deselect(t) ==
  /\ Goto(t, "deselect", "unlock")
  /\ Write(SENSOR_PINS(item[t]), HIGH)
  /\ UNCHANGED <<item, holder, output, parked, clean>>

Unlock(t) ==
  /\ Goto(t, "unlock", "idle")
  /\ holder' = Nobody
  /\ item' = [item EXCEPT ![t] = NoSensor]
  /\ UNCHANGED <<pinVars, parked, clean>>

Reading(t) == Select(t) \/ Transfer(t) \/ Deselect(t) \/ Unlock(t)
=============================================================================
