------------------------------ MODULE LogFiles ------------------------------
(***************************************************************************)
(* Log files as Logger creates them.  The file's name, directory included, *)
(* is made from one reading of the clock and the directory from another;   *)
(* the file cannot be opened where there is no such directory.             *)
(***************************************************************************)
EXTENDS Integers

CONSTANTS
  Loggers,     \* numbered in the order in which they are constructed
  MaxSecond    \* bound: the seconds the clock shows are 0 to MaxSecond

ASSUME LogFilesAssumption == Loggers \subseteq Nat /\ MaxSecond \in Nat

VARIABLES
  second,      \* the wall clock
  writable,    \* whether the disk takes new directories and files
  dirs,        \* the seconds that have a directory under logs/
  named,       \* the second in each file's name, -1 before it has one
  made,        \* history: the second each logger saw a directory made for
  fileOpen     \* whether file_fd is a descriptor

logVars == <<second, writable, dirs, named, made, fileOpen>>

(* Other loggers of the program and earlier runs may have been first.      *)
LogInit ==
  /\ second = 0
  /\ writable \in BOOLEAN
  /\ dirs \in SUBSET (0..MaxSecond)
  /\ named = [l \in Loggers |-> -1]
  /\ made = [l \in Loggers |-> -1]
  /\ fileOpen = [l \in Loggers |-> FALSE]

(* The second turns over, or the local time is set, forward or back.       *)
SecondTurns ==
  /\ second' \in (0..MaxSecond) \ {second}
  /\ UNCHANGED <<writable, dirs, named, made, fileOpen>>

NameFile(l) ==
  /\ named' = [named EXCEPT ![l] = second]
  /\ UNCHANGED <<second, writable, dirs, made, fileOpen>>

(* Mutant: a directory that is already there is taken for a failure.       *)
create_log_file_anew(l) ==
  /\ dirs' = IF writable THEN dirs \union {second} ELSE dirs
  /\ fileOpen' = [fileOpen EXCEPT
       ![l] = writable /\ second \notin dirs /\ named[l] = second]
  /\ made' = [made EXCEPT ![l] = second]
  /\ UNCHANGED <<second, writable, named>>

create_log_file(l) ==
  /\ dirs' = IF writable THEN dirs \union {second} ELSE dirs
  /\ fileOpen' = [fileOpen EXCEPT ![l] = writable /\ named[l] \in dirs']
  /\ made' = [made EXCEPT ![l] = second]
  /\ UNCHANGED <<second, writable, named>>
=============================================================================
