---------------------------- MODULE ConfigProofs ----------------------------
(***************************************************************************)
(* Proofs about the reading of a configuration, for any sections, keys and *)
(* values, and files of any length.                                        *)
(***************************************************************************)
EXTENDS Config, SequenceTheorems, FiniteSetTheorems, TLAPS

Names == Sections \union {Null}

(* The map as the constructor and the steps of readFrom leave it.          *)
ReadTypes ==
  /\ file \in Files /\ at \in 0..Len(file)
  /\ stream \in {"good", "long", "read"}
  /\ current_section \in Names
  /\ map \in [Names -> [Keys -> Seq(Values)]]
  /\ result \in {"none", "reading", "0", "1"}
  /\ answer.status \in {0, 1} /\ answer.values \in Seq(Values)

(* A file is a sequence of lines, no longer than the longest.              *)
LEMMA FileIsSeq ==
  ASSUME NEW f \in Files
  PROVE  /\ f \in Seq(Lines) /\ Len(f) \in 0..MaxLines
         /\ \A i \in 1..Len(f) : f[i] \in Lines
<1>1. PICK n \in 0..MaxLines : f \in [1..n -> Lines]
  BY DEF Files
<1>2. f = [i \in 1..n |-> f[i]] /\ n \in Nat /\ \A i \in 1..n : f[i] \in Lines
  BY <1>1, ConfigAssumption
<1>3. [i \in 1..n |-> f[i]] \in Seq(Lines)
  BY <1>2, IsASeq
<1> QED
  BY <1>2, <1>3

LEMMA LineParts ==
  ASSUME NEW line \in Lines
  PROVE  /\ line.kind = "header" => line.section \in Sections
         /\ line.kind = "pair" => line.key \in Keys /\ line.value \in Values
<1>1. CASE line \in [kind : {"header"}, section : Sections]
  BY <1>1
<1>2. CASE line \in [kind : {"pair"}, key : Keys, value : Values]
  BY <1>2
<1>3. CASE line \in [kind : {"skipped", "malformed", "long", "longComment"}]
  BY <1>3
<1> QED
  BY <1>1, <1>2, <1>3 DEF Lines

LEMMA Nothing == << >> \in Seq(Values) /\ << >> \in Files /\ Len(<< >>) = 0
<1>1. << >> \in Seq(Values) /\ Len(<< >>) = 0
  BY EmptySeq
<1>2. << >> \in [1..0 -> Lines] /\ 0 \in 0..MaxLines
  BY ConfigAssumption
<1> QED
  BY <1>1, <1>2 DEF Files

LEMMA BlankIsMap == Blank \in [Names -> [Keys -> Seq(Values)]]
BY Nothing DEF Blank, Names

LEMMA Answers ==
  ASSUME ReadTypes, NEW section \in Names, NEW key \in Keys, Get(section, key)
  PROVE  /\ answer'.status \in {0, 1} /\ answer'.values \in Seq(Values)
         /\ UNCHANGED <<file, at, stream, current_section, map, result>>
         /\ result # "reading"
<1>1. map[section][key] \in Seq(Values)
  BY DEF ReadTypes
<1>2. CASE GetOne(section, key)
  <2>1. Head(map[section][key]) \in Values
    BY <1>1, <1>2, HeadTailProperties DEF GetOne, isPresent
  <2> QED
    BY <1>2, <2>1 DEF GetOne, Answer
<1>3. CASE getVector(section, key)
  BY <1>1, <1>3 DEF getVector, Answer
<1>4. CASE GetNothing(section, key)
  BY <1>4, Nothing DEF GetNothing, Answer
<1>5. CASE getBool(section, key)
  <2>1. PICK garbage \in Values : Answer(0, section, key, <<garbage>>)
    BY <1>5 DEF getBool
  <2> QED
    BY <2>1 DEF Answer
<1> QED
  BY <1>2, <1>3, <1>4, <1>5 DEF Get

(* Every variable keeps its type; readFrom never takes a line past the     *)
(* file's last one.                                                        *)
LEMMA TypesHold == Spec => []ReadTypes
<1>1. Init => ReadTypes
  <2>1. Init => answer.status \in {0, 1} /\ answer.values \in Seq(Values)
    BY Nothing DEF Init, Unanswered
  <2>2. Init => file \in Files /\ at \in 0..Len(file)
    BY Nothing DEF Init
  <2> QED
    BY <2>1, <2>2, BlankIsMap DEF Init, ReadTypes, Names
<1>2. ReadTypes /\ [Next]_vars => ReadTypes'
  <2> SUFFICES ASSUME ReadTypes, [Next]_vars PROVE ReadTypes'
    OBVIOUS
  <2> USE DEF ReadTypes
  <2>1. ASSUME NEW f \in Files, Open(f) PROVE ReadTypes'
    <3>1. answer'.status \in {0, 1} /\ answer'.values \in Seq(Values)
      BY <2>1, Nothing DEF Open, Unanswered
    <3>2. file' = f /\ at' \in 0..Len(f)
      BY <2>1, FileIsSeq DEF Open
    <3> QED
      BY <2>1, <3>1, <3>2, BlankIsMap DEF Open, Return, Names
  <2>2. CASE CannotOpen
    <3>1. answer'.status \in {0, 1} /\ answer'.values \in Seq(Values)
      BY <2>2, Nothing DEF CannotOpen, Unanswered
    <3> QED
      BY <2>2, <3>1, BlankIsMap DEF CannotOpen, Return
  <2>3. ASSUME NEW kind, GetLine(kind)
        PROVE  /\ UNCHANGED <<file, answer>> /\ at' \in 0..Len(file)
               /\ file[at + 1] \in Lines /\ file[at + 1].kind = kind
    BY <2>3, FileIsSeq DEF GetLine
  <2>4. CASE SkipLine \/ SkipLongComment \/ ReadErrorSkipped
    BY <2>3, <2>4 DEF SkipLine, SkipLongComment, ReadErrorSkipped
  <2>5. CASE LongLine \/ Malformed \/ ReadErrorSeen
    BY <2>3, <2>5, BlankIsMap DEF LongLine, Malformed, ReadErrorSeen, Return
  <2>6. CASE Header
    <3>1. file[at + 1].section \in Sections
      BY <2>3, <2>6, LineParts DEF Header
    <3> QED
      BY <2>3, <2>6, <3>1 DEF Header, Names
  <2>7. CASE Pair
    <3> DEFINE line == file[at + 1]
    <3>1. line.key \in Keys /\ line.value \in Values
      BY <2>3, <2>7, LineParts DEF Pair
    <3>2. map[current_section][line.key] \in Seq(Values)
      BY <3>1
    <3>3. Append(map[current_section][line.key], line.value) \in Seq(Values)
      BY <3>1, <3>2, AppendProperties
    <3>4. map' = [map EXCEPT ![current_section][line.key] =
                    Append(map[current_section][line.key], line.value)]
      BY <2>7 DEF Pair
    <3>5. map' \in [Names -> [Keys -> Seq(Values)]]
      <4> HIDE DEF line
      <4> QED
        BY <3>1, <3>3, <3>4
    <3> QED
      BY <2>3, <2>7, <3>5 DEF Pair
  <2>8. CASE EndOfFile
    BY <2>8 DEF EndOfFile, Return
  <2>9. ASSUME NEW section \in Names, NEW key \in Keys, Get(section, key)
        PROVE  ReadTypes'
    BY <2>9, Answers
  <2>10. CASE SkipForEver \/ UNCHANGED vars
    BY <2>10 DEF SkipForEver, vars
  <2> QED
    BY <2>1, <2>2, <2>4, <2>5, <2>6, <2>7, <2>8, <2>9, <2>10 DEF Next, ReadLine, Names
<1> QED
  BY <1>1, <1>2, PTL DEF Spec

(* Every variable keeps its type and readFrom its place within the file:   *)
(* no line behind the last one is taken, for files of any length.          *)
THEOREM ConfigTypeCorrect == Spec => []TypeOK
<1>1. ASSUME ReadTypes PROVE TypeOK
  BY <1>1 DEF ReadTypes, TypeOK, Names
<1> QED
  BY <1>1, TypesHold, PTL
-----------------------------------------------------------------------------
(* What readFrom gives up on leaves nothing in the map.                    *)
Emptied == result = "1" => map = Blank

LEMMA EmptiedHolds == Spec => []Emptied
<1>1. Init => Emptied
  BY DEF Init, Emptied
<1>2. ReadTypes /\ Emptied /\ [Next]_vars => Emptied'
  <2> SUFFICES ASSUME ReadTypes, Emptied, [Next]_vars PROVE Emptied'
    OBVIOUS
  <2>1. CASE (\E f \in Files : Open(f)) \/ CannotOpen
    BY <2>1 DEF Open, CannotOpen, Return, Emptied
  <2>2. CASE ReadLine
    BY <2>2 DEF ReadLine, SkipLine, SkipLongComment, LongLine, Header, Pair, Malformed,
       EndOfFile, ReadErrorSkipped, ReadErrorSeen, GetLine, Return, Emptied
  <2>3. ASSUME NEW section \in Names, NEW key \in Keys, Get(section, key)
        PROVE  Emptied'
    BY <2>3, Answers DEF Emptied
  <2>4. CASE SkipForEver \/ UNCHANGED vars
    BY <2>4 DEF SkipForEver, vars, Emptied
  <2> QED
    BY <2>1, <2>2, <2>3, <2>4 DEF Next, Names
<1> QED
  BY <1>1, <1>2, TypesHold, PTL DEF Spec
-----------------------------------------------------------------------------
(* What the first n lines of a file say of a key: the places of its pairs, *)
(* and a sequence that has the value of the i-th of them at place i.       *)
UpTo(f, n, section, key) ==
  {i \in 1..n : f[i].kind = "pair" /\ f[i].key = key /\ SectionOf(f, i) = section}

Rank(P, i) == Cardinality({j \in P : j <= i})

Tells(q, f, P) ==
  /\ Len(q) = Cardinality(P)
  /\ \A i \in P : Rank(P, i) \in 1..Len(q) /\ q[Rank(P, i)] = f[i].value
  /\ \A m \in 1..Len(q) : \E i \in P : Rank(P, i) = m

(* It is the one that Declared chooses.                                    *)
LEMMA TellsIsDeclared ==
  ASSUME NEW f, NEW section, NEW key, NEW q \in Seq(Values),
         Tells(q, f, UpTo(f, Len(f), section, key))
  PROVE  q = Declared(f, section, key)
<1> DEFINE P == UpTo(f, Len(f), section, key)
           d == [m \in 1..Cardinality(P) |->
                   f[CHOOSE i \in P : Cardinality({j \in P : j <= i}) = m].value]
<1>1. Declared(f, section, key) = d
  BY DEF Declared, UpTo
<1>2. q = [m \in 1..Cardinality(P) |-> q[m]]
  <2>1. Len(q) \in Nat /\ q \in [1..Len(q) -> Values] /\ Len(q) = Cardinality(P)
    BY LenProperties DEF Tells
  <2> QED
    BY <2>1
<1>3. ASSUME NEW m \in 1..Cardinality(P) PROVE q[m] = d[m]
  <2> DEFINE c == CHOOSE i \in P : Rank(P, i) = m
  <2>1. \E i \in P : Rank(P, i) = m
    BY DEF Tells
  <2>2. c \in P /\ Rank(P, c) = m
    BY <2>1
  <2> HIDE DEF c, P
  <2>3. q[m] = f[c].value
    BY <2>2 DEF Tells, P
  <2>4. d[m] = f[CHOOSE i \in P : Cardinality({j \in P : j <= i}) = m].value
    OBVIOUS
  <2>5. c = CHOOSE i \in P : Cardinality({j \in P : j <= i}) = m
    BY DEF c, Rank
  <2> QED
    BY <2>3, <2>4, <2>5
<1> HIDE DEF P
<1> QED
  BY <1>1, <1>2, <1>3

(* One more pair adds its value at the end.                                *)
LEMMA OneMore ==
  ASSUME NEW n \in Nat, NEW f, NEW P \in SUBSET (1..n), NEW q \in Seq(Values),
         Tells(q, f, P), f[n + 1].value \in Values
  PROVE  Tells(Append(q, f[n + 1].value), f, P \union {n + 1})
<1> DEFINE v == f[n + 1].value
           new == Append(q, v)
           Q == P \union {n + 1}
<1>0. n + 1 \notin P /\ \A j \in P : j \in 1..n /\ j <= n + 1
  OBVIOUS
<1>1. IsFiniteSet(P)
  <2>1. IsFiniteSet(1..n)
    BY FS_Interval
  <2> QED
    BY <2>1, FS_Subset
<1>2. Cardinality(Q) = Cardinality(P) + 1 /\ Len(q) = Cardinality(P) /\ Len(q) \in Nat
  <2>1. Cardinality(Q) = Cardinality(P) + 1
    BY <1>0, <1>1, FS_AddElement
  <2>2. Len(q) \in Nat
    BY LenProperties
  <2> QED
    BY <2>1, <2>2 DEF Tells
<1>3. /\ Len(new) = Len(q) + 1 /\ new[Len(q) + 1] = v
      /\ \A i \in 1..Len(q) : new[i] = q[i]
  BY AppendProperties
<1>4. Rank(Q, n + 1) = Len(q) + 1
  <2>1. {j \in Q : j <= n + 1} = Q
    <3>1. \A j \in Q : j <= n + 1
      BY <1>0
    <3> HIDE DEF Q
    <3> QED
      BY <3>1
  <2>2. Rank(Q, n + 1) = Cardinality(Q)
    BY <2>1 DEF Rank
  <2> QED
    BY <1>2, <2>2
<1>5. ASSUME NEW i \in P PROVE Rank(Q, i) = Rank(P, i)
  <2>1. {j \in Q : j <= i} = {j \in P : j <= i}
    OBVIOUS
  <2> QED
    BY <2>1 DEF Rank
<1>q. \A i : i \in Q <=> i \in P \/ i = n + 1
  OBVIOUS
<1> HIDE DEF new, v, Q
<1>6. ASSUME NEW i \in Q PROVE Rank(Q, i) \in 1..Len(new) /\ new[Rank(Q, i)] = f[i].value
  <2>1. CASE i = n + 1
    BY <1>2, <1>3, <1>4, <2>1 DEF v
  <2>2. CASE i \in P
    <3>1. Rank(P, i) \in 1..Len(q) /\ q[Rank(P, i)] = f[i].value
      BY <2>2 DEF Tells
    <3> QED
      BY <1>2, <1>3, <1>5, <2>2, <3>1
  <2> QED
    BY <1>q, <2>1, <2>2
<1>7. ASSUME NEW m \in 1..Len(new) PROVE \E i \in Q : Rank(Q, i) = m
  <2>1. CASE m = Len(q) + 1
    BY <1>4, <1>q, <2>1
  <2>2. CASE m \in 1..Len(q)
    <3>1. PICK i \in P : Rank(P, i) = m
      BY <2>2 DEF Tells
    <3> QED
      BY <1>5, <1>q, <3>1
  <2> QED
    BY <1>2, <1>3, <2>1, <2>2
<1> QED
  BY <1>2, <1>3, <1>6, <1>7 DEF Tells, new, v, Q

LEMMA UpToNext ==
  ASSUME NEW n \in Nat, NEW f, NEW section, NEW key
  PROVE  UpTo(f, n + 1, section, key) =
           IF f[n + 1].kind = "pair" /\ f[n + 1].key = key /\ SectionOf(f, n + 1) = section
             THEN UpTo(f, n, section, key) \union {n + 1}
             ELSE UpTo(f, n, section, key)
<1>1. 1..(n + 1) = (1..n) \union {n + 1}
  OBVIOUS
<1> QED
  BY <1>1 DEF UpTo

(* A header holds from the line after it to the next one.                  *)
LEMMA SectionNext ==
  ASSUME NEW n \in Nat, NEW f
  PROVE  SectionOf(f, n + 2) =
           IF f[n + 1].kind = "header" THEN f[n + 1].section ELSE SectionOf(f, n + 1)
<1> DEFINE H(i) == {j \in 1..(i - 1) : f[j].kind = "header"}
<1>1. \A i : SectionOf(f, i) = IF H(i) = {} THEN Null ELSE f[Max(H(i))].section
  BY DEF SectionOf
<1>2. CASE f[n + 1].kind = "header"
  <2>1. n + 1 \in H(n + 2) /\ \A j \in H(n + 2) : n + 1 >= j /\ (j >= n + 1 => j = n + 1)
    BY <1>2
  <2>2. Max(H(n + 2)) = n + 1
    BY <2>1 DEF Max
  <2> QED
    BY <1>1, <1>2, <2>1, <2>2
<1>3. CASE f[n + 1].kind # "header"
  <2>1. H(n + 2) = H(n + 1)
    BY <1>3
  <2> QED
    BY <1>1, <1>3, <2>1
<1> QED
  BY <1>2, <1>3

(* The map says what the lines taken so far do.                            *)
Follows ==
  /\ result = "reading" =>
       /\ current_section = SectionOf(file, at + 1)
       /\ \A section \in Names, key \in Keys :
            Tells(map[section][key], file, UpTo(file, at, section, key))
  /\ result = "0" => \A section \in Names, key \in Keys :
       Tells(map[section][key], file, UpTo(file, Len(file), section, key))

LEMMA NoLines ==
  ASSUME NEW f, NEW section \in Names, NEW key \in Keys
  PROVE  /\ SectionOf(f, 1) = Null
         /\ Tells(Blank[section][key], f, UpTo(f, 0, section, key))
<1>1. 1..0 = {}
  OBVIOUS
<1>2. SectionOf(f, 1) = Null
  <2>1. {j \in 1..(1 - 1) : f[j].kind = "header"} = {}
    OBVIOUS
  <2> QED
    BY <2>1 DEF SectionOf
<1>3. Blank[section][key] = << >>
  BY DEF Blank, Names
<1>4. UpTo(f, 0, section, key) = {}
  BY <1>1 DEF UpTo
<1>5. Tells(<< >>, f, {})
  BY <1>1, Nothing, FS_EmptySet DEF Tells
<1> QED
  BY <1>2, <1>3, <1>4, <1>5

(* A line that is taken moves the section and the map as it says.          *)
LEMMA LineFollows ==
  ASSUME ReadTypes, Follows, SkipLine \/ SkipLongComment \/ Header \/ Pair
  PROVE  Follows'
<1> DEFINE line == file[at + 1]
<1>1. /\ result = "reading" /\ result' = "reading"
      /\ at \in Nat /\ at' = at + 1 /\ file' = file
      /\ line \in Lines
  <2>1. \A i \in 1..Len(file) : file[i] \in Lines
    BY FileIsSeq DEF ReadTypes
  <2>2. Len(file) \in Nat
    BY FileIsSeq DEF ReadTypes
  <2> QED
    BY <2>1, <2>2 DEF SkipLine, SkipLongComment, Header, Pair, GetLine, ReadTypes
<1>2. line.kind \in {"skipped", "longComment", "header", "pair"}
      /\ (Header <=> line.kind = "header") /\ (Pair <=> line.kind = "pair")
  BY DEF SkipLine, SkipLongComment, Header, Pair, GetLine
<1>3. current_section' = SectionOf(file, at + 2)
  <2>1. current_section = SectionOf(file, at + 1)
    BY <1>1 DEF Follows
  <2>2. current_section' = IF line.kind = "header" THEN line.section ELSE current_section
    BY <1>2 DEF SkipLine, SkipLongComment, Header, Pair
  <2> QED
    BY <1>1, <2>1, <2>2, SectionNext
<1>4. ASSUME NEW section \in Names, NEW key \in Keys
      PROVE  Tells(map'[section][key], file, UpTo(file, at + 1, section, key))
  <2> DEFINE P == UpTo(file, at, section, key)
             q == map[section][key]
  <2>1. Tells(q, file, P) /\ q \in Seq(Values) /\ P \in SUBSET (1..at)
    BY <1>1 DEF Follows, ReadTypes, UpTo
  <2>2. CASE line.kind = "pair"
    <3>1. line.key \in Keys /\ line.value \in Values
      BY <1>1, <2>2, LineParts
    <3>2. /\ map' = [map EXCEPT ![current_section][line.key] = Append(@, line.value)]
          /\ current_section = SectionOf(file, at + 1) /\ current_section \in Names
      BY <1>1, <1>2, <2>2 DEF Pair, Follows, ReadTypes
    <3> HIDE DEF line
    <3>3. CASE line.key = key /\ current_section = section
      <4>1. map'[section][key] = Append(q, line.value)
        BY <3>1, <3>2, <3>3 DEF ReadTypes
      <4>2. UpTo(file, at + 1, section, key) = P \union {at + 1}
        BY <1>1, <2>2, <3>2, <3>3, UpToNext DEF line
      <4>3. Tells(Append(q, file[at + 1].value), file, P \union {at + 1})
        <5>1. file[at + 1].value \in Values
          BY <3>1 DEF line
        <5> HIDE DEF P, q
        <5> QED
          BY <1>1, <2>1, <5>1, OneMore
      <4> QED
        BY <4>1, <4>2, <4>3 DEF line
    <3>4. CASE ~(line.key = key /\ current_section = section)
      <4>1. map'[section][key] = q
        BY <3>1, <3>2, <3>4 DEF ReadTypes
      <4>2. UpTo(file, at + 1, section, key) = P
        BY <1>1, <2>2, <3>2, <3>4, UpToNext DEF line
      <4> QED
        BY <2>1, <4>1, <4>2
    <3> QED
      BY <3>3, <3>4
  <2>3. CASE line.kind # "pair"
    <3>1. map' = map
      BY <1>2, <2>3 DEF SkipLine, SkipLongComment, Header
    <3>2. UpTo(file, at + 1, section, key) = P
      BY <1>1, <2>3, UpToNext
    <3> QED
      BY <2>1, <3>1, <3>2
  <2> QED
    BY <2>2, <2>3
<1>5. at + 2 = (at + 1) + 1
  BY <1>1
<1> QED
  BY <1>1, <1>3, <1>4, <1>5 DEF Follows

LEMMA FollowsHold == Spec => []Follows
<1>1. Init => Follows
  BY DEF Init, Follows
<1>2. ReadTypes /\ Follows /\ [Next]_vars => Follows'
  <2> SUFFICES ASSUME ReadTypes, Follows, [Next]_vars PROVE Follows'
    OBVIOUS
  <2>1. ASSUME NEW f \in Files, Open(f) PROVE Follows'
    <3>1. /\ result' = "reading" /\ map' = Blank /\ at' = 0 /\ file' = f
          /\ current_section' = Null
      BY <2>1 DEF Open, Return
    <3>2. \A section \in Names, key \in Keys :
            Tells(Blank[section][key], f, UpTo(f, 0, section, key))
      BY NoLines
    <3>3. SectionOf(f, 0 + 1) = Null
      <4>1. {j \in 1..((0 + 1) - 1) : f[j].kind = "header"} = {}
        OBVIOUS
      <4> QED
        BY <4>1 DEF SectionOf
    <3> QED
      BY <3>1, <3>2, <3>3 DEF Follows
  <2>2. CASE CannotOpen \/ LongLine \/ Malformed \/ ReadErrorSeen
    BY <2>2 DEF CannotOpen, LongLine, Malformed, ReadErrorSeen, Return, Follows
  <2>3. CASE EndOfFile
    BY <2>3 DEF EndOfFile, Return, Follows
  <2>4. ASSUME NEW section \in Names, NEW key \in Keys, Get(section, key)
        PROVE  Follows'
    BY <2>4, Answers DEF Follows
  <2>5. CASE SkipForEver \/ ReadErrorSkipped \/ UNCHANGED vars
    BY <2>5 DEF SkipForEver, ReadErrorSkipped, vars, Follows
  <2> QED
    BY <2>1, <2>2, <2>3, <2>4, <2>5, LineFollows DEF Next, ReadLine, Names
<1> QED
  BY <1>1, <1>2, TypesHold, PTL DEF Spec

(* When readFrom returns 0 the map is what the file says, for files of any *)
(* length: every pair under the header it stands below, repeated keys in   *)
(* order, nothing left of an earlier file; when it returns 1 it is empty.  *)
THEOREM MapFollowsFile == Spec => []MapIsTheFile
<1>1. ReadTypes /\ Emptied /\ Follows => MapIsTheFile
  <2> SUFFICES ASSUME ReadTypes, Emptied, Follows, result = "0",
                      NEW section \in Names, NEW key \in Keys
               PROVE  map[section][key] = Declared(file, section, key)
    BY DEF MapIsTheFile, Emptied, Names
  <2>1. /\ map[section][key] \in Seq(Values)
        /\ Tells(map[section][key], file, UpTo(file, Len(file), section, key))
    BY DEF ReadTypes, Follows
  <2> QED
    BY <2>1, TellsIsDeclared
<1> QED
  BY <1>1, TypesHold, EmptiedHolds, FollowsHold, PTL
-----------------------------------------------------------------------------
(* No other line than a comment that is too long leaves the stream failed  *)
(* in the loop.                                                            *)
LEMMA CommentFails == Spec => []FailsOnComment
<1>1. Init => FailsOnComment
  BY DEF Init, FailsOnComment
<1>2. ReadTypes /\ FailsOnComment /\ [Next]_vars => FailsOnComment'
  <2> SUFFICES ASSUME ReadTypes, FailsOnComment, [Next]_vars PROVE FailsOnComment'
    OBVIOUS
  <2>1. CASE \E f \in Files : Open(f)
    BY <2>1 DEF Open, FailsOnComment
  <2>2. CASE CannotOpen \/ LongLine \/ Malformed \/ EndOfFile \/ ReadErrorSeen
    BY <2>2 DEF CannotOpen, LongLine, Malformed, EndOfFile, ReadErrorSeen, Return,
       FailsOnComment
  <2>3. CASE SkipLongComment
    <3>1. at \in Nat /\ at' = at + 1 /\ file' = file /\ file[at + 1].kind = "longComment"
      BY <2>3 DEF SkipLongComment, GetLine, ReadTypes
    <3> QED
      BY <3>1 DEF FailsOnComment
  <2>4. CASE SkipLine \/ Header \/ Pair
    BY <2>4 DEF SkipLine, Header, Pair, GetLine, FailsOnComment
  <2>5. CASE \E section \in Names, key \in Keys : Get(section, key)
    BY <2>5, Answers DEF FailsOnComment
  <2>6. CASE SkipForEver \/ ReadErrorSkipped \/ UNCHANGED vars
    BY <2>6 DEF SkipForEver, ReadErrorSkipped, vars, FailsOnComment
  <2> QED
    BY <2>1, <2>2, <2>3, <2>4, <2>5, <2>6 DEF Next, ReadLine, Names
<1> QED
  BY <1>1, <1>2, TypesHold, PTL DEF Spec

(* Every round of readFrom's loop brings its end nearer, which is at most  *)
(* one round more away than the file has lines, until the stream fails by  *)
(* a comment too long for the line buffer or by a read that fails and is   *)
(* skipped; from then on no round changes anything.                        *)
THEOREM ReadingEnds == Spec => [](RoundsLeft \in Nat /\ FailsOnComment) /\ RoundsRunOut
<1>1. ReadTypes => RoundsLeft \in Nat
  BY FileIsSeq, ConfigAssumption DEF ReadTypes, RoundsLeft
<1>2. ReadTypes /\ [Next]_vars =>
        [ result = "reading" =>
            IF stream # "good" THEN UNCHANGED vars ELSE RoundsLeft' < RoundsLeft ]_vars
  <2> SUFFICES ASSUME ReadTypes, Next, result = "reading"
               PROVE  IF stream # "good" THEN UNCHANGED vars ELSE RoundsLeft' < RoundsLeft
    OBVIOUS
  <2>1. /\ Len(file) \in Nat /\ at \in 0..Len(file)
        /\ stream = "good" => RoundsLeft = Len(file) - at + 1
    BY FileIsSeq, ConfigAssumption DEF ReadTypes, RoundsLeft
  <2>2. CASE SkipForEver
    BY <2>2 DEF SkipForEver
  <2>3. CASE ReadLine
    <3>1. /\ stream = "good" /\ file' = file
          /\ (at' = at + 1 \/ result' # "reading" \/ stream' # "good")
      BY <2>3 DEF ReadLine, SkipLine, SkipLongComment, LongLine, Header, Pair,
         Malformed, EndOfFile, ReadErrorSkipped, ReadErrorSeen, GetLine, Return
    <3> QED
      BY <2>1, <3>1 DEF RoundsLeft
  <2> QED
    BY <2>2, <2>3, Answers DEF Next, Open, CannotOpen, Names
<1> QED
  BY <1>1, <1>2, TypesHold, CommentFails, PTL DEF Spec, RoundsRunOut
-----------------------------------------------------------------------------
(* A getter that answers has looked into the map that is still there.      *)
Looked ==
  /\ result = "reading" => answer.status = 1
  /\ result = "0" /\ answer.status = 0 =>
       /\ answer.section \in Names /\ answer.key \in Keys
       /\ LET q == map[answer.section][answer.key]
          IN  q # << >> => answer.values \in {q, <<Head(q)>>}

(* A getter that has a key to look at reports the file's first value, or   *)
(* the list of all, for files of any length.                               *)
THEOREM GettersFollowFile == Spec => []GettersTell
<1>1. Init => Looked
  BY DEF Init, Looked
<1>2. ReadTypes /\ Looked /\ [Next]_vars => Looked'
  <2> SUFFICES ASSUME ReadTypes, Looked, [Next]_vars PROVE Looked'
    OBVIOUS
  <2>1. CASE \E f \in Files : Open(f)
    BY <2>1 DEF Open, Return, Unanswered, Looked
  <2>2. CASE CannotOpen \/ LongLine \/ Malformed \/ ReadErrorSeen
    BY <2>2 DEF CannotOpen, LongLine, Malformed, ReadErrorSeen, GetLine, Return,
       Unanswered, Looked
  <2>3. CASE SkipLine \/ SkipLongComment \/ Header \/ Pair
    BY <2>3 DEF SkipLine, SkipLongComment, Header, Pair, GetLine, Looked
  <2>4. CASE EndOfFile
    BY <2>4 DEF EndOfFile, Return, Looked
  <2>5. ASSUME NEW section \in Names, NEW key \in Keys, Get(section, key)
        PROVE  Looked'
    <3>1. map' = map /\ result' = result /\ result # "reading"
      BY <2>5, Answers
    <3>2. CASE GetOne(section, key) \/ getVector(section, key)
      BY <3>1, <3>2 DEF GetOne, getVector, Answer, Looked
    <3>3. CASE GetNothing(section, key)
      BY <3>1, <3>3 DEF GetNothing, Answer, Looked
    <3>4. CASE getBool(section, key)
      BY <3>1, <3>4 DEF getBool, Answer, isPresent, Looked
    <3> QED
      BY <2>5, <3>2, <3>3, <3>4 DEF Get
  <2>6. CASE SkipForEver \/ ReadErrorSkipped \/ UNCHANGED vars
    BY <2>6 DEF SkipForEver, ReadErrorSkipped, vars, Looked
  <2> QED
    BY <2>1, <2>2, <2>3, <2>4, <2>5, <2>6 DEF Next, ReadLine, Names
<1>3. Looked /\ MapIsTheFile => GettersTell
  BY DEF Looked, MapIsTheFile, GettersTell, Names
<1> QED
  BY <1>1, <1>2, <1>3, TypesHold, MapFollowsFile, PTL DEF Spec
=============================================================================
