------------------------------- MODULE Config -------------------------------
(***************************************************************************)
(* ConfigMapping: reading a configuration file line by line into a map     *)
(* from sections and keys to lists of values, and the getters.  A line is  *)
(* what the two scan formats make of it; one step is one round of          *)
(* readFrom's loop.  The file stream keeps its state bits, which a line    *)
(* longer than the line buffer sets, as does a read that fails (an I/O     *)
(* error, or the path is a directory), and nothing clears.                 *)
(***************************************************************************)
EXTENDS Integers, Sequences, SequencesExt, FiniteSetsExt

CONSTANTS
  Sections, Keys, Values,
  Null,         \* the section "" of what stands before the first header
  MaxLines,     \* the longest file
  MaxAgain      \* the longest file that is read after another one

ASSUME ConfigAssumption == Null \notin Sections /\ {MaxLines, MaxAgain} \subseteq Nat

(* A line is skipped (a comment, an empty line), a header, a pair (either  *)
(* cut to the scan width), neither (as are the header [] and a pair whose  *)
(* key is too wide), or too long for the buffer, as a comment or otherwise.*)
Lines ==
  [kind : {"skipped", "malformed", "long", "longComment"}]
    \union [kind : {"header"}, section : Sections]
    \union [kind : {"pair"}, key : Keys, value : Values]
Files == UNION { [1..n -> Lines] : n \in 0..MaxLines }
Blank == [section \in Sections \union {Null} |-> [key \in Keys |-> << >>]]

VARIABLES
  file, at,   \* the file and how many of its lines have been taken
  stream,     \* "good", or what it failed by: a "long" line or a "read"
  current_section,
  map,        \* the values of each key, in order; << >> if it is not there
  result,     \* what readFrom returned, or that it has not
  answer      \* what the last getter returned and stored

vars == <<file, at, stream, current_section, map, result, answer>>

Unanswered == [status |-> 1, section |-> Null, values |-> << >>]

Init ==
  /\ file = << >> /\ at = 0
  /\ stream = "good"
  /\ current_section = Null
  /\ map = Blank
  /\ result = "none"
  /\ answer = Unanswered
-----------------------------------------------------------------------------
(* readFrom.                                                               *)

Return(code, m) == result' = code /\ map' = m

(* Mutant: the map is not cleared.                                         *)
OpenOver(f) ==
  /\ result = "none" \/ (result # "reading" /\ Len(f) <= MaxAgain)
  /\ file' = f /\ at' = 0 /\ stream' = "good"
  /\ current_section' = Null
  /\ Return("reading", map)
  /\ answer' = Unanswered

Open(f) ==
  /\ result = "none" \/ (result # "reading" /\ Len(f) <= MaxAgain)
  /\ file' = f /\ at' = 0 /\ stream' = "good"
  /\ current_section' = Null
  /\ Return("reading", Blank)
  /\ answer' = Unanswered

CannotOpen ==
  /\ result # "reading"
  /\ Return("1", Blank)
  /\ answer' = Unanswered
  /\ UNCHANGED <<file, at, stream, current_section>>

(* getline stores the next line.  Once the stream has failed it stores an  *)
(* empty one and takes nothing from the file.                              *)
GetLine(kind) ==
  /\ result = "reading" /\ stream = "good"
  /\ at < Len(file)
  /\ file[at + 1].kind = kind
  /\ at' = at + 1
  /\ UNCHANGED <<file, answer>>

SkipLine ==
  /\ GetLine("skipped")
  /\ UNCHANGED <<stream, current_section, map, result>>

(* The first character is looked at before the stream's state.             *)
SkipLongComment ==
  /\ GetLine("longComment")
  /\ stream' = "long"
  /\ UNCHANGED <<current_section, map, result>>

(* The read may fail anywhere, and with it the stream.  What was stored of *)
(* the line is then nothing, or the beginning of a comment, and is skipped *)
(* before the failure is looked at; or it is the beginning of something    *)
(* else, and readFrom gives up.                                            *)
ReadErrorSkipped ==
  /\ result = "reading" /\ stream = "good"
  /\ stream' = "read"
  /\ UNCHANGED <<file, at, current_section, map, result, answer>>

ReadErrorSeen ==
  /\ result = "reading" /\ stream = "good"
  /\ at < Len(file)
  /\ file[at + 1].kind \in {"header", "pair", "malformed", "long"}
  /\ stream' = "read"
  /\ Return("1", Blank)
  /\ UNCHANGED <<file, at, current_section, answer>>

(* From then on every line is empty, and eof never comes.                  *)
SkipForEver ==
  /\ result = "reading" /\ stream # "good"
  /\ UNCHANGED vars

(* Mutant: a line that is too long is skipped, as a comment is.            *)
LongLineSkipped ==
  /\ GetLine("long")
  /\ stream' = "long"
  /\ UNCHANGED <<current_section, map, result>>

LongLine ==
  /\ GetLine("long")
  /\ stream' = "long"
  /\ Return("1", Blank)
  /\ UNCHANGED current_section

Header ==
  /\ GetLine("header")
  /\ current_section' = file[at + 1].section
  /\ UNCHANGED <<stream, map, result>>

isPresent(section, key) == map[section][key] # << >>

Pair ==
  /\ GetLine("pair")
  /\ LET line == file[at + 1]
     IN  map' = [map EXCEPT ![current_section][line.key] = Append(@, line.value)]
  /\ UNCHANGED <<stream, current_section, result>>

Malformed ==
  /\ GetLine("malformed")
  /\ Return("1", Blank)
  /\ UNCHANGED <<stream, current_section>>

(* Mutant: the empty line after the last one is taken as a line.           *)
EndOfFileTaken ==
  /\ result = "reading" /\ stream = "good"
  /\ at = Len(file)
  /\ at' = at + 1
  /\ Return("0", map)
  /\ UNCHANGED <<file, stream, current_section, answer>>

(* The end of the file, with its last line or with the empty one after it. *)
EndOfFile ==
  /\ result = "reading" /\ stream = "good"
  /\ at = Len(file)
  /\ Return("0", map)
  /\ UNCHANGED <<file, at, stream, current_section, answer>>

ReadLine ==
  \/ SkipLine \/ SkipLongComment \/ LongLine \/ Header \/ Pair \/ Malformed
  \/ EndOfFile \/ ReadErrorSkipped \/ ReadErrorSeen
-----------------------------------------------------------------------------
(* The getters.  getString, getInt and getDouble give the first value, and *)
(* getVector all of them.  getBool stores what getInt left in an           *)
(* uninitialised variable, and always returns 0.                           *)
Answer(status, section, key, values) ==
  /\ result # "reading"
  /\ answer' = [status |-> status, section |-> section, key |-> key,
                values |-> values]
  /\ UNCHANGED <<file, at, stream, current_section, map, result>>

(* Mutant: the last value counts.                                          *)
GetLast(section, key) ==
  /\ isPresent(section, key)
  /\ Answer(0, section, key, <<Last(map[section][key])>>)

GetOne(section, key) ==
  /\ isPresent(section, key)
  /\ Answer(0, section, key, <<Head(map[section][key])>>)

getVector(section, key) ==
  /\ isPresent(section, key)
  /\ Answer(0, section, key, map[section][key])

GetNothing(section, key) ==
  /\ ~isPresent(section, key)
  /\ Answer(1, section, key, << >>)

getBool(section, key) ==
  /\ ~isPresent(section, key)
  /\ \E garbage \in Values : Answer(0, section, key, <<garbage>>)

Get(section, key) ==
  \/ GetOne(section, key) \/ getVector(section, key)
  \/ GetNothing(section, key) \/ getBool(section, key)

Next ==
  \/ \E f \in Files : Open(f)
  \/ CannotOpen
  \/ ReadLine
  \/ SkipForEver
  \/ \E section \in Sections \union {Null}, key \in Keys : Get(section, key)

(* readFrom is called by a thread that does nothing else until it returns. *)
Spec == Init /\ [][Next]_vars /\ WF_vars(ReadLine)
-----------------------------------------------------------------------------
(* What a file says, independently of how it is read.                      *)

SectionOf(f, i) ==
  LET headers == {j \in 1..(i - 1) : f[j].kind = "header"}
  IN  IF headers = {} THEN Null ELSE f[Max(headers)].section

Declared(f, section, key) ==
  LET pairs == {i \in 1..Len(f) : /\ f[i].kind = "pair" /\ f[i].key = key
                                  /\ SectionOf(f, i) = section}
  IN  [n \in 1..Cardinality(pairs) |->
         f[CHOOSE i \in pairs : Cardinality({j \in pairs : j <= i}) = n].value]

Kinds(f) == {f[i].kind : i \in 1..Len(f)}
-----------------------------------------------------------------------------
(* Properties.                                                             *)

TypeOK ==
  /\ file \in Files /\ at \in 0..Len(file)
  /\ stream \in {"good", "long", "read"}
  /\ current_section \in Sections \union {Null}
  /\ \A section \in Sections \union {Null}, key \in Keys :
       map[section][key] \in Seq(Values)
  /\ result \in {"none", "reading", "0", "1"}
  /\ answer.status \in {0, 1} /\ answer.values \in Seq(Values)

(* When readFrom returns 0 the map is what the file says: every pair under *)
(* the header it stands below, repeated keys in order, nothing left of an  *)
(* earlier file; when it returns 1 the map is empty.                       *)
MapIsTheFile ==
  /\ result = "0" => \A section \in Sections \union {Null}, key \in Keys :
                       map[section][key] = Declared(file, section, key)
  /\ result = "1" => map = Blank

(* A getter that has a key to look at reports the file's first value, or   *)
(* the list of all, whatever kind of getter it is.                         *)
GettersTell ==
  result = "0" /\ answer.status = 0 =>
    LET said == Declared(file, answer.section, answer.key)
    IN  said # << >> => answer.values \in {said, <<Head(said)>>}

(* readFrom returns, unless a comment is too long for the line buffer or a *)
(* read fails where what it stored is skipped.                             *)
ReadReturns ==
  (result = "reading" /\ "longComment" \notin Kinds(file))
    ~> (result # "reading" \/ stream = "read")

(* What it returns by: the rounds its loop has left get fewer with every   *)
(* round, until the stream fails and it has not returned.  It fails so by  *)
(* a comment that is too long or by a read, and from then on no round      *)
(* changes anything.                                                       *)
RoundsLeft ==
  IF result = "reading" /\ stream = "good" THEN Len(file) - at + 1 ELSE 0
FailsOnComment ==
  result = "reading" /\ stream = "long" => \E i \in 1..at : file[i].kind = "longComment"
RoundsRunOut ==
  [][ result = "reading" =>
        IF stream # "good" THEN UNCHANGED vars ELSE RoundsLeft' < RoundsLeft ]_vars
-----------------------------------------------------------------------------
(* Properties the sources claim and the code does not have.                *)

(* "Lines beginning with '#' are ignored in parsing and can be used as     *)
(* comments": a file of comments, headers and pairs is read, unless a read *)
(* fails.                                                                  *)
CommentsIgnored ==
  (result = "reading" /\ Kinds(file) \subseteq
     {"skipped", "longComment", "header", "pair"}) ~> (result = "0" \/ stream = "read")
=============================================================================
