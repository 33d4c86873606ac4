-------------------------- MODULE CommandLineProofs --------------------------
(***************************************************************************)
(* Proofs about the command lines of the port (src/main.rs), for any       *)
(* processes, names, directories and pictures: what is printed is what the *)
(* reference says of two whole pictures, a batch prints all or nothing,    *)
(* and the outputs of normalize keep the pixels of their inputs.           *)
(***************************************************************************)
EXTENDS CommandLine, TLAPS, SequenceTheorems, FiniteSetTheorems

-----------------------------------------------------------------------------
(* The inductive invariant.                                                *)

Blends == (Pixels \X {1, 5, 9}) \cup [1..1 -> Pixels]
Sides == {"sRGB", "gAMA", "iCCP"} \X Blends
ScoreLines == [name : Paths, score : SUBSET (Sides \X Sides)]
OutputLines == [name : Paths, destination : Paths]

Labels == {"start", "original", "distorted", "variants", "ingest", "create", "encode", "report",
           "done", "failed", "killed"}

CommandTypeOK ==
  /\ scenario \in Scenarios
  /\ files \in [Paths -> Contents]
  /\ pc \in [Processes -> Labels]
  /\ todo \in [Processes -> Seq(Paths)]
  /\ taken \in [Processes -> Seq(Paths)]
  /\ images \in [Processes -> Seq(Pictures)]
  /\ lines \in [Processes -> Seq(ScoreLines \cup OutputLines)]

Ended == {"done", "failed", "killed"}

\* What p takes, in this order.
Queue(p) == taken[p] \o todo[p]

Nothing(p) == taken[p] = <<>> /\ todo[p] = <<>> /\ images[p] = <<>> /\ lines[p] = <<>>

(* The pictures in hand belong to the paths taken.  Those of a scorer were *)
(* all accepted: no colour but sRGB, one size, no less than 8x8.           *)
InHand(p) == Len(images[p]) = Len(taken[p])

Accepted(p) ==
  \A k \in 1..Len(images[p]) :
    /\ Decodes(images[p][k])
    /\ ~Below8x8(images[p][1])
    /\ SameSize(images[p][1], images[p][k])

PairInv(p) ==
  /\ pc[p] \in {"start", "original", "distorted"} \cup Ended
  /\ InHand(p) /\ Accepted(p)
  /\ pc[p] = "start" => Nothing(p)
  /\ pc[p] = "original" => taken[p] = <<>> /\ Len(todo[p]) = 2
  /\ pc[p] = "distorted" => Len(taken[p]) = 1 /\ Len(todo[p]) = 1
  /\ lines[p] # <<>> =>
       LET a == images[p][1]
           b == images[p][2]
       IN  /\ pc[p] = "done" /\ Len(taken[p]) = 2 /\ Len(lines[p]) = 1
           /\ lines[p][1] = [name |-> taken[p][2], score |-> Score(a, b, Backgrounds(a, b))]

\* No variant comes twice, so that a name tells which picture a line is about.
VariantsOnce(p) ==
  \A i, j \in 2..Len(Queue(p)) : Queue(p)[i] = Queue(p)[j] => i = j

ManyLines(p) ==
  \A i \in 1..Len(lines[p]) :
    lines[p][i] = [name |-> taken[p][i + 1],
                   score |-> Score(images[p][1], images[p][i + 1], {5})]

ManyInv(p) ==
  /\ pc[p] \in {"start", "original", "variants"} \cup Ended
  /\ InHand(p) /\ Accepted(p)
  /\ \A k \in 1..Len(images[p]) : images[p][k].alpha = "none"
  /\ pc[p] = "start" => Nothing(p)
  /\ pc[p] = "original" => taken[p] = <<>> /\ todo[p] # <<>>
  /\ pc[p] = "variants" => taken[p] # <<>>
  /\ VariantsOnce(p)
  /\ lines[p] # <<>> => /\ pc[p] \in {"variants", "done", "killed"}
                        /\ todo[p] = <<>> /\ Len(lines[p]) < Len(taken[p])
  /\ ManyLines(p)
  /\ pc[p] = "done" => todo[p] = <<>> /\ Len(lines[p]) + 1 = Len(taken[p])

\* All that a normalizer takes is of its inputs; no two have the same name.
NormalizeInv(p) ==
  /\ pc[p] \in {"start", "ingest", "create", "encode", "report"} \cup Ended
  /\ InHand(p)
  /\ pc[p] = "start" => Nothing(p)
  /\ Nothing(p) \/ Queue(p) = Command(p).inputs
  /\ \A k \in 1..Len(images[p]) : images[p][k].alpha # "real"
  /\ \A i, j \in 1..Len(taken[p]) : taken[p][i][2] = taken[p][j][2] => i = j
  /\ Len(lines[p]) <= Len(taken[p])
  /\ pc[p] = "ingest" => Len(lines[p]) = Len(taken[p])
  /\ pc[p] \in {"create", "encode", "report"} => Len(lines[p]) + 1 = Len(taken[p])
  /\ \A i \in 1..Len(lines[p]) :
       lines[p][i] = [name |-> taken[p][i], destination |-> Destination(p, taken[p][i])]

ProcessInv(p) ==
  /\ Command(p).mode = "pair" => PairInv(p)
  /\ Command(p).mode = "score-many" => ManyInv(p)
  /\ Command(p).mode = "normalize" => NormalizeInv(p)

CommandInv == CommandTypeOK /\ \A p \in Processes : ProcessInv(p)

-----------------------------------------------------------------------------
(* Of the files.  No process locks any: when two normalizers write to one  *)
(* directory, or one to a directory the other reads or writes, an output   *)
(* may be the other's.                                                     *)

InputsAndOutputs(c) == {c.inputs[i][1] : i \in DOMAIN c.inputs} \cup {c.out}

Apart ==
  \A s \in Scenarios : \A p, q \in Processes :
    LET c == s.commands[p]
        d == s.commands[q]
    IN p # q /\ c.mode = "normalize" /\ d.mode = "normalize" => c.out \notin InputsAndOutputs(d)

\* The outputs written: those of the lines, and one that is to be reported.
Written(p) == IF pc[p] = "report" THEN Len(taken[p]) ELSE Len(lines[p])

FilesInv(p) ==
  /\ \A k \in 1..Len(taken[p]) : images[p][k] = scenario.files[taken[p][k]]
  /\ \A k \in 1..Written(p) : files[Destination(p, taken[p][k])] = Normalized(images[p][k])
  /\ \A path \in Paths :
       path[1] \in InputsAndOutputs(Command(p)) =>
         \/ \E k \in 1..Len(taken[p]) : path = Destination(p, taken[p][k])
         \/ files[path] = scenario.files[path]

OutputsInv == \A p \in Processes : ~Scores(p) => FilesInv(p)

-----------------------------------------------------------------------------
(* Pictures, paths and what actions do with them.                          *)

\* A path has a directory and a name.
LEMMA PathParts ==
  /\ \A path \in Paths : /\ path = <<path[1], path[2]>>
                         /\ path[1] \in Directories /\ path[2] \in Range(Names)
  /\ \A dir \in Directories, name \in Range(Names) : <<dir, name>> \in Paths
BY DEF Paths

LEMMA NamesAreNames == \A i \in DOMAIN Names : Names[i] \in Range(Names)
BY DEF Range

LEMMA CommandsOf ==
  ASSUME CommandTypeOK, NEW p \in Processes
  PROVE  /\ scenario.files \in [Paths -> Contents]
         /\ Command(p) \in Commands
         /\ Command(p).mode \in {"pair", "score-many", "normalize"}
         /\ Command(p).mode = "pair" => Command(p).positional \in Seq(Paths)
         /\ Command(p).mode = "score-many" => /\ Command(p).orig \in Paths
                                              /\ Command(p).vars \in Directories
         /\ Command(p).mode = "normalize" => /\ Command(p).inputs \in Seq(Paths)
                                             /\ Command(p).out \in Directories
<1>1. scenario \in Scenarios
  BY DEF CommandTypeOK
<1>2. /\ scenario.files \in [Paths -> Contents]
      /\ scenario.commands \in [Processes -> Commands]
  BY <1>1, ScenariosAssumption
<1>3. Command(p) \in Commands
  BY <1>2 DEF Command
<1> QED BY <1>2, <1>3 DEF Commands

\* What is decoded is a picture.
LEMMA WholeIsPicture ==
  ASSUME NEW c \in Contents, c.state = "whole"
  PROVE  c \in Pictures
BY DEF Contents, Missing, Torn

LEMMA NormalizedIsPicture ==
  ASSUME NEW c \in Pictures
  PROVE  /\ Normalized(c) \in Pictures
         /\ Normalized(c).pixels = c.pixels /\ Normalized(c).alpha = "none"
         /\ Normalized(c).state = "whole"
BY DEF Normalized, Pictures

LEMMA ScoreIsScore ==
  ASSUME NEW a \in Pictures, NEW b \in Pictures, NEW S \in SUBSET {1, 5, 9}
  PROVE  Score(a, b, S) \in SUBSET (Sides \X Sides)
<1>1. ASSUME NEW c \in Pictures, NEW bg \in {1, 5, 9}
      PROVE  Linear(c, bg) \in Sides
  <2>1. c.pixels \in Pixels
    BY DEF Pictures
  <2>2. <<c.pixels, bg>> \in Blends
    BY <2>1 DEF Blends
  <2>3. <<c.pixels>> \in Blends
    BY <2>1 DEF Blends
  <2>4. AlphaBlend(c, bg) \in Blends
    BY <2>2, <2>3 DEF AlphaBlend
  <2> QED BY <2>4 DEF Linear, Sides
<1>2. \A bg \in S : <<Linear(a, bg), Linear(b, bg)>> \in Sides \X Sides
  BY <1>1
<1> QED BY <1>2 DEF Score

-----------------------------------------------------------------------------
\* What is taken and what is to be taken are together as before.
LEMMA HeadMoves ==
  ASSUME NEW S, NEW s \in Seq(S), NEW t \in Seq(S), t # <<>>
  PROVE  Append(s, Head(t)) \o Tail(t) = s \o t
<1>1. Head(t) \in S /\ Tail(t) \in Seq(S) /\ <<Head(t)>> \in Seq(S)
  BY HeadTailProperties
<1>2. Append(s, Head(t)) = s \o <<Head(t)>>
  BY <1>1, AppendIsConcat
<1>3. (s \o <<Head(t)>>) \o Tail(t) = s \o (<<Head(t)>> \o Tail(t))
  BY <1>1, ConcatAssociative
<1>4. <<Head(t)>> \o Tail(t) = t
  <2>1. /\ Len(t) \in Nat \ {0} /\ Len(Tail(t)) = Len(t) - 1 /\ Head(t) = t[1]
        /\ \A i \in 1..Len(Tail(t)) : Tail(t)[i] = t[i + 1]
    BY HeadTailProperties, EmptySeq
  <2>2. /\ <<Head(t)>> \o Tail(t) \in Seq(S)
        /\ Len(<<Head(t)>> \o Tail(t)) = 1 + Len(Tail(t))
        /\ \A i \in 1..1 + Len(Tail(t)) : (<<Head(t)>> \o Tail(t))[i] =
             IF i <= 1 THEN <<Head(t)>>[i] ELSE Tail(t)[i - 1]
    BY <1>1, ConcatProperties
  <2> DEFINE u == <<Head(t)>> \o Tail(t)
  <2>3. Len(u) = Len(t)
    BY <2>1, <2>2
  <2>4. ASSUME NEW i \in 1..Len(u) PROVE u[i] = t[i]
    <3>1. CASE i = 1
      BY <2>1, <2>2, <3>1
    <3>2. CASE i # 1
      BY <2>1, <2>2, <2>3, <3>2
    <3> QED BY <3>1, <3>2
  <2> QED BY <2>2, <2>3, <2>4, SeqEqual
<1> QED BY <1>2, <1>3, <1>4

LEMMA TakeMoves ==
  ASSUME CommandTypeOK, NEW p \in Processes, todo[p] # <<>>, Take(p)
  PROVE  /\ todo' \in [Processes -> Seq(Paths)] /\ taken' \in [Processes -> Seq(Paths)]
         /\ Head(todo[p]) \in Paths /\ Head(todo[p]) = todo[p][1]
         /\ Len(todo[p]) \in Nat \ {0} /\ Len(todo'[p]) = Len(todo[p]) - 1
         /\ Len(taken[p]) \in Nat /\ Len(taken'[p]) = Len(taken[p]) + 1
         /\ \A k \in 1..Len(taken[p]) : taken'[p][k] = taken[p][k]
         /\ taken'[p][Len(taken[p]) + 1] = Head(todo[p])
         /\ taken'[p] # <<>>
         /\ taken'[p] \o todo'[p] = taken[p] \o todo[p]
         /\ \A q \in Processes \ {p} : todo'[q] = todo[q] /\ taken'[q] = taken[q]
<1> DEFINE s == taken[p]
           t == todo[p]
<1>1. s \in Seq(Paths) /\ t \in Seq(Paths) /\ t # <<>>
  BY DEF CommandTypeOK
<1>2. /\ taken' = [taken EXCEPT ![p] = Append(s, Head(t))]
      /\ todo' = [todo EXCEPT ![p] = Tail(t)]
  BY DEF Take
<1>3. /\ Head(t) \in Paths /\ Tail(t) \in Seq(Paths) /\ Len(t) \in Nat \ {0}
      /\ Head(t) = t[1] /\ Len(Tail(t)) = Len(t) - 1
      /\ \A i \in 1..Len(Tail(t)) : Tail(t)[i] = t[i + 1]
  BY <1>1
<1>4. /\ Append(s, Head(t)) \in Seq(Paths) /\ Len(s) \in Nat
      /\ Len(Append(s, Head(t))) = Len(s) + 1
      /\ \A k \in 1..Len(s) : Append(s, Head(t))[k] = s[k]
      /\ Append(s, Head(t))[Len(s) + 1] = Head(t)
  BY <1>1, <1>3
<1>5. taken'[p] = Append(s, Head(t)) /\ todo'[p] = Tail(t)
  BY <1>2 DEF CommandTypeOK
<1>6. /\ todo' \in [Processes -> Seq(Paths)] /\ taken' \in [Processes -> Seq(Paths)]
      /\ \A q \in Processes \ {p} : todo'[q] = todo[q] /\ taken'[q] = taken[q]
  BY <1>2, <1>3, <1>4 DEF CommandTypeOK
<1>7. Append(s, Head(t)) \o Tail(t) = s \o t
  BY <1>1, HeadMoves
<1>8. s = taken[p] /\ t = todo[p]
  OBVIOUS
<1> HIDE DEF s, t
<1>9. /\ Len(todo'[p]) = Len(t) - 1 /\ Len(taken'[p]) = Len(s) + 1
      /\ \A k \in 1..Len(s) : taken'[p][k] = s[k]
      /\ taken'[p][Len(s) + 1] = Head(t)
  BY <1>3, <1>4, <1>5
<1>10. taken'[p] # <<>>
  BY <1>4, <1>5, <1>9
<1>11. taken'[p] \o todo'[p] = s \o t
  BY <1>5, <1>7
<1> QED BY <1>3, <1>4, <1>6, <1>8, <1>9, <1>10, <1>11

LEMMA HoldAdds ==
  ASSUME CommandTypeOK, NEW p \in Processes, NEW c \in Pictures, Hold(p, c)
  PROVE  /\ images' \in [Processes -> Seq(Pictures)]
         /\ Len(images[p]) \in Nat /\ Len(images'[p]) = Len(images[p]) + 1
         /\ \A k \in 1..Len(images[p]) : images'[p][k] = images[p][k]
         /\ images'[p][Len(images[p]) + 1] = c
         /\ \A q \in Processes \ {p} : images'[q] = images[q]
<1>1. images[p] \in Seq(Pictures)
  BY DEF CommandTypeOK
<1>2. images' = [images EXCEPT ![p] = Append(images[p], c)]
  BY DEF Hold
<1>3. images'[p] = Append(images[p], c)
  BY <1>2 DEF CommandTypeOK
<1>4. Append(images[p], c) \in Seq(Pictures)
  BY <1>1
<1>5. /\ images' \in [Processes -> Seq(Pictures)]
      /\ \A q \in Processes \ {p} : images'[q] = images[q]
  BY <1>2, <1>4 DEF CommandTypeOK
<1> QED BY <1>1, <1>3, <1>5

LEMMA PrintsAdds ==
  ASSUME CommandTypeOK, NEW p \in Processes, NEW line \in ScoreLines \cup OutputLines,
         Prints(p, line)
  PROVE  /\ lines' \in [Processes -> Seq(ScoreLines \cup OutputLines)]
         /\ Len(lines[p]) \in Nat /\ Len(lines'[p]) = Len(lines[p]) + 1
         /\ \A k \in 1..Len(lines[p]) : lines'[p][k] = lines[p][k]
         /\ lines'[p][Len(lines[p]) + 1] = line
         /\ \A q \in Processes \ {p} : lines'[q] = lines[q]
<1> DEFINE L == ScoreLines \cup OutputLines
<1>1. lines[p] \in Seq(L) /\ line \in L
  BY DEF CommandTypeOK
<1>2. lines' = [lines EXCEPT ![p] = Append(lines[p], line)]
  BY DEF Prints
<1>3. lines'[p] = Append(lines[p], line)
  BY <1>2 DEF CommandTypeOK
<1> HIDE DEF L
<1>4. /\ Append(lines[p], line) \in Seq(L) /\ Len(lines[p]) \in Nat
      /\ Len(Append(lines[p], line)) = Len(lines[p]) + 1
      /\ \A k \in 1..Len(lines[p]) : Append(lines[p], line)[k] = lines[p][k]
      /\ Append(lines[p], line)[Len(lines[p]) + 1] = line
  BY <1>1
<1>5. /\ lines' \in [Processes -> Seq(L)]
      /\ \A q \in Processes \ {p} : lines'[q] = lines[q]
  BY <1>2, <1>4 DEF CommandTypeOK, L
<1> QED BY <1>1, <1>3, <1>4, <1>5 DEF L

-----------------------------------------------------------------------------
(* The invariant of a process is about what is its own.                    *)

SameFor(q) ==
  /\ pc'[q] = pc[q] /\ todo'[q] = todo[q] /\ taken'[q] = taken[q]
  /\ images'[q] = images[q] /\ lines'[q] = lines[q]

LEMMA LongIsNotEmpty ==
  ASSUME NEW S, NEW s \in Seq(S)
  PROVE  /\ Len(s) \in Nat
         /\ Len(s) = 0 <=> s = <<>>
BY EmptySeq, LenProperties

LEMMA OthersKept ==
  ASSUME NEW q \in Processes, SameFor(q), UNCHANGED scenario, ProcessInv(q)
  PROVE  ProcessInv(q)'
<1>1. Command(q)' = Command(q)
  BY DEF Command
<1>2. InHand(q)' = InHand(q) /\ Accepted(q)' = Accepted(q) /\ Nothing(q)' = Nothing(q)
  BY DEF SameFor, InHand, Accepted, Nothing
<1>3. Queue(q)' = Queue(q) /\ VariantsOnce(q)' = VariantsOnce(q)
  BY DEF SameFor, Queue, VariantsOnce
<1>4. ManyLines(q)' = ManyLines(q)
  BY DEF SameFor, ManyLines
<1>5. PairInv(q)' = PairInv(q)
  BY <1>2 DEF SameFor, PairInv
<1>6. ManyInv(q)' = ManyInv(q)
  BY <1>2, <1>3, <1>4 DEF SameFor, ManyInv
<1>7. NormalizeInv(q)' = NormalizeInv(q)
  BY <1>1, <1>2, <1>3 DEF SameFor, NormalizeInv, Destination
<1> QED BY <1>1, <1>5, <1>6, <1>7 DEF ProcessInv

LEMMA OneMoves ==
  ASSUME CommandInv, NEW p \in Processes, UNCHANGED scenario,
         CommandTypeOK', ProcessInv(p)', \A q \in Processes \ {p} : SameFor(q)
  PROVE  CommandInv'
BY OthersKept DEF CommandInv

\* Where p goes.
LEMMA GoesTo ==
  ASSUME CommandTypeOK, NEW p \in Processes, NEW label \in Labels, GoTo(p, label)
  PROVE  /\ pc' \in [Processes -> Labels] /\ pc'[p] = label
         /\ \A q \in Processes \ {p} : pc'[q] = pc[q]
BY DEF GoTo, CommandTypeOK

\* An exit with an error, or a kill, leaves what there is.
LEMMA Stops ==
  ASSUME CommandInv, NEW p \in Processes, UNCHANGED scenario, Running(p),
         NEW label \in {"failed", "killed"}, GoTo(p, label),
         UNCHANGED <<files, todo, taken, images, lines>>,
         label = "failed" /\ Command(p).mode = "score-many" => lines[p] = <<>>
  PROVE  CommandInv'
<1>1. /\ pc' \in [Processes -> Labels] /\ pc'[p] = label
      /\ \A q \in Processes \ {p} : pc'[q] = pc[q]
  <2>1. CommandTypeOK /\ label \in Labels
    BY DEF CommandInv, Labels
  <2> QED BY <2>1, GoesTo
<1>2. CommandTypeOK' /\ \A q \in Processes \ {p} : SameFor(q)
  BY <1>1 DEF CommandInv, CommandTypeOK, SameFor
<1>3. Command(p)' = Command(p) /\ pc[p] \notin Ended /\ ProcessInv(p)
  BY DEF Command, CommandInv, Running, Ended
<1>4. InHand(p)' = InHand(p) /\ Accepted(p)' = Accepted(p) /\ Queue(p)' = Queue(p)
      /\ VariantsOnce(p)' = VariantsOnce(p) /\ ManyLines(p)' = ManyLines(p)
      /\ Nothing(p)' = Nothing(p)
  BY DEF InHand, Accepted, Queue, VariantsOnce, ManyLines, Nothing
<1>5. PairInv(p) => PairInv(p)'
  BY <1>1, <1>3, <1>4 DEF PairInv, Ended
<1>6. Command(p).mode = "score-many" /\ ManyInv(p) => ManyInv(p)'
  BY <1>1, <1>3, <1>4 DEF ManyInv, Ended
<1>7. NormalizeInv(p) => NormalizeInv(p)'
  BY <1>1, <1>3, <1>4 DEF NormalizeInv, Ended, Destination
<1>8. ProcessInv(p)'
  BY <1>3, <1>5, <1>6, <1>7 DEF ProcessInv
<1> QED BY <1>2, <1>8, OneMoves

-----------------------------------------------------------------------------
(* A pair.                                                                 *)

LEMMA PairStartKeeps ==
  ASSUME CommandInv, NEW p \in Processes, UNCHANGED scenario, PairStart(p)
  PROVE  CommandInv'
<1>1. /\ CommandTypeOK /\ pc[p] = "start" /\ Command(p).mode = "pair"
      /\ ProcessInv(p) /\ PairInv(p) /\ Nothing(p)
      /\ Command(p).positional \in Seq(Paths)
  BY CommandsOf DEF CommandInv, ProcessInv, PairInv, PairStart
<1>2. CASE GoTo(p, "failed") /\ UNCHANGED <<files, todo, taken, images, lines>>
  BY <1>1, <1>2, Stops DEF Running
<1>3. CASE /\ GoTo(p, "done") /\ UNCHANGED <<files, todo, taken, images, lines>>
  <2>1. /\ pc' \in [Processes -> Labels] /\ pc'[p] = "done"
        /\ \A q \in Processes \ {p} : pc'[q] = pc[q]
    BY <1>1, <1>3, GoesTo DEF Labels
  <2>2. CommandTypeOK' /\ \A q \in Processes \ {p} : SameFor(q)
    BY <1>1, <1>3, <2>1 DEF CommandTypeOK, SameFor
  <2>3. PairInv(p)'
    BY <1>1, <1>3, <2>1 DEF PairInv, InHand, Accepted, Nothing, Ended
  <2>4. ProcessInv(p)'
    BY <1>1, <2>3 DEF ProcessInv, Command
  <2> QED BY <2>2, <2>4, OneMoves
<1>4. CASE /\ Len(Command(p).positional) = 2
           /\ GoTo(p, "original")
           /\ todo' = [todo EXCEPT ![p] = Command(p).positional]
           /\ UNCHANGED <<files, taken, images, lines>>
  <2>1. /\ pc' \in [Processes -> Labels] /\ pc'[p] = "original"
        /\ \A q \in Processes \ {p} : pc'[q] = pc[q]
    BY <1>1, <1>4, GoesTo DEF Labels
  <2>2. /\ todo' \in [Processes -> Seq(Paths)] /\ todo'[p] = Command(p).positional
        /\ \A q \in Processes \ {p} : todo'[q] = todo[q]
    BY <1>1, <1>4 DEF CommandTypeOK
  <2>3. CommandTypeOK' /\ \A q \in Processes \ {p} : SameFor(q)
    BY <1>1, <1>4, <2>1, <2>2 DEF CommandTypeOK, SameFor
  <2>4. PairInv(p)'
    BY <1>1, <1>4, <2>1, <2>2 DEF PairInv, InHand, Accepted, Nothing, Ended
  <2>5. ProcessInv(p)'
    BY <1>1, <2>4 DEF ProcessInv, Command
  <2> QED BY <2>3, <2>5, OneMoves
<1> QED BY <1>2, <1>3, <1>4 DEF PairStart, Fail

LEMMA PairOriginalKeeps ==
  ASSUME CommandInv, NEW p \in Processes, UNCHANGED scenario, PairOriginal(p)
  PROVE  CommandInv'
<1> DEFINE c == Next1(p)
<1>1. /\ CommandTypeOK /\ pc[p] = "original" /\ Command(p).mode = "pair"
      /\ ProcessInv(p) /\ PairInv(p)
      /\ taken[p] = <<>> /\ Len(todo[p]) = 2 /\ todo[p] \in Seq(Paths)
  BY DEF CommandInv, ProcessInv, PairInv, PairOriginal, CommandTypeOK
<1>2. CASE Fail(p)
  BY <1>1, <1>2, Stops DEF Running, Fail
<1>3. CASE /\ Decodes(c) /\ ~Below8x8(c)
           /\ Take(p) /\ Hold(p, c) /\ GoTo(p, "distorted") /\ UNCHANGED <<files, lines>>
  <2>1. /\ pc' \in [Processes -> Labels] /\ pc'[p] = "distorted"
        /\ \A q \in Processes \ {p} : pc'[q] = pc[q]
    BY <1>1, <1>3, GoesTo DEF Labels
  <2>0. todo[p] # <<>> /\ Len(taken[p]) = 0
    <3>1. Len(todo[p]) # 0
      BY <1>1
    <3> QED BY <1>1, <3>1, EmptySeq, Zenon
  <2>2. /\ todo' \in [Processes -> Seq(Paths)] /\ taken' \in [Processes -> Seq(Paths)]
        /\ Head(todo[p]) \in Paths
        /\ Len(todo'[p]) = Len(todo[p]) - 1 /\ Len(taken'[p]) = Len(taken[p]) + 1
        /\ \A q \in Processes \ {p} : todo'[q] = todo[q] /\ taken'[q] = taken[q]
    BY <1>1, <1>3, <2>0, TakeMoves
  <2>11. Len(todo'[p]) = 1 /\ Len(taken'[p]) = 1
    BY <1>1, <2>0, <2>2
  <2>3. c \in Pictures
    BY <1>1, <1>3, <2>2, WholeIsPicture DEF Next1, Decodes, DecodesForIngest, CommandTypeOK
  <2>4. Len(images[p]) = 0
    BY <1>1 DEF PairInv, InHand
  <2>5. /\ images' \in [Processes -> Seq(Pictures)]
        /\ Len(images'[p]) = 1 /\ images'[p][1] = c
        /\ \A q \in Processes \ {p} : images'[q] = images[q]
    <3> HIDE DEF c
    <3>1. /\ images' \in [Processes -> Seq(Pictures)]
          /\ Len(images'[p]) = Len(images[p]) + 1 /\ images'[p][Len(images[p]) + 1] = c
          /\ \A q \in Processes \ {p} : images'[q] = images[q]
      BY <1>1, <1>3, <2>3, HoldAdds
    <3> QED BY <2>4, <3>1
  <2>6. CommandTypeOK' /\ \A q \in Processes \ {p} : SameFor(q)
    BY <1>1, <1>3, <2>1, <2>2, <2>5 DEF CommandTypeOK, SameFor
  <2>7. Accepted(p)'
    BY <1>3, <2>5 DEF Accepted, SameSize
  <2>8. lines[p] = <<>>
    BY <1>1 DEF PairInv
  <2>9. PairInv(p)'
    BY <1>3, <2>1, <2>11, <2>5, <2>7, <2>8 DEF PairInv, InHand
  <2>10. ProcessInv(p)'
    BY <1>1, <2>9 DEF ProcessInv, Command
  <2> QED BY <2>6, <2>10, OneMoves
<1> QED BY <1>2, <1>3 DEF PairOriginal

LEMMA PairDistortedKeeps ==
  ASSUME CommandInv, NEW p \in Processes, UNCHANGED scenario, PairDistorted(p)
  PROVE  CommandInv'
<1> DEFINE a == images[p][1]
           b == Next1(p)
           line == [name |-> Head(todo[p]), score |-> Score(a, b, Backgrounds(a, b))]
<1>1. /\ CommandTypeOK /\ pc[p] = "distorted" /\ ProcessInv(p)
  BY DEF CommandInv, PairDistorted
<1>2. Command(p).mode = "pair" /\ PairInv(p)
  BY <1>1, CommandsOf DEF ProcessInv, ManyInv, NormalizeInv, Ended
<1>3. /\ Len(taken[p]) = 1 /\ Len(todo[p]) = 1 /\ todo[p] \in Seq(Paths)
      /\ images[p] \in Seq(Pictures) /\ Len(images[p]) = 1 /\ a \in Pictures
      /\ Decodes(a) /\ ~Below8x8(a) /\ lines[p] = <<>>
  BY <1>1, <1>2 DEF PairInv, InHand, Accepted, CommandTypeOK
<1>4. CASE Fail(p)
  BY <1>1, <1>2, <1>4, Stops DEF Running, Fail
<1>5. CASE /\ Decodes(b) /\ SameSize(a, b)
           /\ Take(p) /\ Hold(p, b) /\ Prints(p, line) /\ GoTo(p, "done")
           /\ UNCHANGED files
  <2>1. /\ pc' \in [Processes -> Labels] /\ pc'[p] = "done"
        /\ \A q \in Processes \ {p} : pc'[q] = pc[q]
    BY <1>1, <1>5, GoesTo DEF Labels
  <2>0. todo[p] # <<>>
    BY <1>3, LongIsNotEmpty
  <2>2. /\ todo' \in [Processes -> Seq(Paths)] /\ taken' \in [Processes -> Seq(Paths)]
        /\ Head(todo[p]) \in Paths /\ Len(taken'[p]) = 2 /\ taken'[p][2] = Head(todo[p])
        /\ \A q \in Processes \ {p} : todo'[q] = todo[q] /\ taken'[q] = taken[q]
    <3>1. /\ todo' \in [Processes -> Seq(Paths)] /\ taken' \in [Processes -> Seq(Paths)]
          /\ Head(todo[p]) \in Paths /\ Len(taken'[p]) = Len(taken[p]) + 1
          /\ taken'[p][Len(taken[p]) + 1] = Head(todo[p])
          /\ \A q \in Processes \ {p} : todo'[q] = todo[q] /\ taken'[q] = taken[q]
      BY <1>1, <1>5, <2>0, TakeMoves
    <3> QED BY <1>3, <3>1
  <2>3. b \in Pictures
    BY <1>1, <1>5, <2>2, WholeIsPicture DEF Next1, Decodes, DecodesForIngest, CommandTypeOK
  <2>4. /\ images' \in [Processes -> Seq(Pictures)]
        /\ Len(images'[p]) = 2 /\ images'[p][1] = a /\ images'[p][2] = b
        /\ \A q \in Processes \ {p} : images'[q] = images[q]
    <3> HIDE DEF b
    <3>1. /\ images' \in [Processes -> Seq(Pictures)]
          /\ Len(images'[p]) = Len(images[p]) + 1 /\ images'[p][Len(images[p]) + 1] = b
          /\ \A k \in 1..Len(images[p]) : images'[p][k] = images[p][k]
          /\ \A q \in Processes \ {p} : images'[q] = images[q]
      BY <1>1, <1>5, <2>3, HoldAdds
    <3> QED BY <1>3, <3>1
  <2>5. line \in ScoreLines \cup OutputLines
    <3>1. Score(a, b, Backgrounds(a, b)) \in SUBSET (Sides \X Sides)
      BY <1>3, <2>3, ScoreIsScore DEF Backgrounds
    <3> QED BY <2>2, <3>1 DEF ScoreLines
  <2>6. /\ lines' \in [Processes -> Seq(ScoreLines \cup OutputLines)]
        /\ Len(lines'[p]) = 1 /\ lines'[p][1] = line
        /\ \A q \in Processes \ {p} : lines'[q] = lines[q]
    <3> HIDE DEF line
    <3> QED BY <1>1, <1>3, <1>5, <2>5, PrintsAdds
  <2>7. CommandTypeOK' /\ \A q \in Processes \ {p} : SameFor(q)
    BY <1>1, <1>5, <2>1, <2>2, <2>4, <2>6 DEF CommandTypeOK, SameFor
  <2>8. Accepted(p)'
    <3>1. SameSize(a, a)
      BY DEF SameSize
    <3> HIDE DEF a, b
    <3> QED BY <1>3, <1>5, <2>4, <3>1 DEF Accepted
  <2>9. PairInv(p)'
    <3>1. InHand(p)'
      BY <2>2, <2>4 DEF InHand
    <3>2. lines'[p][1] = [name |-> taken'[p][2],
                          score |-> Score(images'[p][1], images'[p][2],
                                          Backgrounds(images'[p][1], images'[p][2]))]
      BY <2>2, <2>4, <2>6
    <3> QED BY <2>1, <2>2, <2>6, <2>8, <3>1, <3>2 DEF PairInv, Ended
  <2>10. ProcessInv(p)'
    BY <1>2, <2>9 DEF ProcessInv, Command
  <2> QED BY <2>7, <2>10, OneMoves
<1> QED BY <1>4, <1>5 DEF PairDistorted

-----------------------------------------------------------------------------
(* score-many.                                                             *)

LEMMA VariantsListed ==
  ASSUME NEW dir \in Directories, NEW s \in Sortings(Present(dir))
  PROVE  LET v == [k \in DOMAIN s |-> <<dir, Names[s[k]]>>]
         IN  /\ v \in Seq(Paths)
             /\ \A i, j \in 1..Len(v) : v[i] = v[j] => i = j
<1> DEFINE v == [k \in DOMAIN s |-> <<dir, Names[s[k]]>>]
           S == Present(dir)
           n == Cardinality(S)
<1>1. DOMAIN Names = 1..Len(Names) /\ Len(Names) \in Nat
  BY NamesAssumption, LenProperties
<1>2. S \subseteq 1..Len(Names)
  BY <1>1 DEF Present
<1>3. n \in Nat
  <2>1. IsFiniteSet(1..Len(Names))
    BY <1>1, FS_Interval
  <2>2. IsFiniteSet(S)
    BY <1>2, <2>1, FS_Subset
  <2> QED BY <2>2, FS_CardinalityType
<1>4. /\ s \in [1..n -> S]
      /\ \A k, l \in 1..n : k < l => s[k] < s[l]
  BY DEF Sortings
<1>5. \A k \in 1..n : <<dir, Names[s[k]]>> \in Paths
  BY <1>1, <1>2, <1>4, NamesAreNames, PathParts
<1> HIDE DEF n, S
<1>6. v = [k \in 1..n |-> <<dir, Names[s[k]]>>]
  BY <1>4
<1> HIDE DEF v
<1>7. v \in Seq(Paths) /\ Len(v) = n
  BY <1>3, <1>5, <1>6
<1>8. ASSUME NEW i \in 1..n, NEW j \in 1..n, v[i] = v[j] PROVE i = j
  <2>1. <<dir, Names[s[i]]>> = <<dir, Names[s[j]]>>
    BY <1>6, <1>8
  <2>2. Names[s[i]] = Names[s[j]] /\ s[i] \in 1..Len(Names) /\ s[j] \in 1..Len(Names)
    BY <1>2, <1>4, <2>1
  <2>3. s[i] = s[j]
    BY <1>1, <2>2, NamesAssumption
  <2>4. ~(s[i] < s[j]) /\ ~(s[j] < s[i])
    BY <2>2, <2>3
  <2>5. ~(i < j) /\ ~(j < i)
    BY <1>4, <2>4
  <2> QED BY <1>3, <2>5
<1> QED BY <1>7, <1>8 DEF v

LEMMA ManyStartKeeps ==
  ASSUME CommandInv, NEW p \in Processes, UNCHANGED scenario, ManyStart(p)
  PROVE  CommandInv'
<1> DEFINE dir == Command(p).vars
           orig == Command(p).orig
<1>1. /\ CommandTypeOK /\ pc[p] = "start" /\ Command(p).mode = "score-many"
      /\ ProcessInv(p) /\ ManyInv(p) /\ Nothing(p)
      /\ orig \in Paths /\ dir \in Directories
  BY CommandsOf DEF CommandInv, ProcessInv, ManyInv, ManyStart
<1>2. CASE Fail(p)
  BY <1>1, <1>2, Stops DEF Running, Fail, Nothing
<1>3. CASE /\ \E s \in Sortings(Present(dir)) :
                todo' = [todo EXCEPT ![p] =
                           <<orig>> \o [k \in DOMAIN s |-> <<dir, Names[s[k]]>>]]
           /\ GoTo(p, "original") /\ UNCHANGED <<files, taken, images, lines>>
  <2>1. /\ pc' \in [Processes -> Labels] /\ pc'[p] = "original"
        /\ \A q \in Processes \ {p} : pc'[q] = pc[q]
    BY <1>1, <1>3, GoesTo DEF Labels
  <2>2. PICK s \in Sortings(Present(dir)) :
               todo' = [todo EXCEPT ![p] =
                          <<orig>> \o [k \in DOMAIN s |-> <<dir, Names[s[k]]>>]]
    BY <1>3
  <2> DEFINE v == [k \in DOMAIN s |-> <<dir, Names[s[k]]>>]
  <2>4. todo' = [todo EXCEPT ![p] = <<orig>> \o v]
    BY <2>2
  <2>3. v \in Seq(Paths) /\ \A i, j \in 1..Len(v) : v[i] = v[j] => i = j
    BY <1>1, VariantsListed, Zenon
  <2> HIDE DEF v
  <2>5. /\ <<orig>> \in Seq(Paths) /\ Len(<<orig>>) = 1 /\ Len(v) \in Nat
        /\ <<orig>> \o v \in Seq(Paths) /\ Len(<<orig>> \o v) = 1 + Len(v)
        /\ \A i \in 2..1 + Len(v) : (<<orig>> \o v)[i] = v[i - 1]
    BY <1>1, <2>3, ConcatProperties, LenProperties
  <2>6. /\ todo' \in [Processes -> Seq(Paths)] /\ todo'[p] = <<orig>> \o v
        /\ \A q \in Processes \ {p} : todo'[q] = todo[q]
    BY <1>1, <2>4, <2>5 DEF CommandTypeOK
  <2>7. CommandTypeOK' /\ \A q \in Processes \ {p} : SameFor(q)
    BY <1>1, <1>3, <2>1, <2>6 DEF CommandTypeOK, SameFor
  <2>8. /\ taken'[p] = <<>> /\ images'[p] = <<>> /\ lines'[p] = <<>>
        /\ Len(taken'[p]) = 0 /\ Len(images'[p]) = 0 /\ Len(lines'[p]) = 0
    BY <1>1, <1>3, EmptySeq DEF Nothing
  <2>9. Queue(p)' = <<orig>> \o v
    BY <2>5, <2>6, <2>8, ConcatEmptySeq DEF Queue
  <2>10. VariantsOnce(p)'
    <3> SUFFICES ASSUME NEW i \in 2..1 + Len(v), NEW j \in 2..1 + Len(v),
                        (<<orig>> \o v)[i] = (<<orig>> \o v)[j]
                 PROVE  i = j
      BY <2>5, <2>9 DEF VariantsOnce
    <3>1. v[i - 1] = v[j - 1] /\ i - 1 \in 1..Len(v) /\ j - 1 \in 1..Len(v)
      BY <2>5
    <3>2. i - 1 = j - 1
      BY <2>3, <3>1
    <3> QED BY <2>5, <3>2
  <2>11. todo'[p] # <<>>
    BY <2>5, <2>6, LongIsNotEmpty
  <2>12. InHand(p)' /\ Accepted(p)' /\ ManyLines(p)'
    BY <2>8 DEF InHand, Accepted, ManyLines
  <2>13. ManyInv(p)'
    BY <2>1, <2>8, <2>10, <2>11, <2>12 DEF ManyInv, Ended
  <2>14. ProcessInv(p)'
    BY <1>1, <2>13 DEF ProcessInv, Command
  <2> QED BY <2>7, <2>14, OneMoves
<1> QED BY <1>2, <1>3 DEF ManyStart

\* The original and every variant are taken alike.
LEMMA ManyTakes ==
  ASSUME CommandInv, NEW p \in Processes, UNCHANGED <<scenario, files, lines>>,
         Command(p).mode = "score-many", ManyInv(p), todo[p] # <<>>,
         NEW c, c = Next1(p), Decodes(c), c.alpha = "none",
         IF taken[p] = <<>> THEN ~Below8x8(c) ELSE SameSize(images[p][1], c),
         Take(p), Hold(p, c),
         pc' \in [Processes -> Labels], pc'[p] = "variants",
         \A q \in Processes \ {p} : pc'[q] = pc[q]
  PROVE  CommandInv'
<1>1. CommandTypeOK
  BY DEF CommandInv
<1>2. /\ todo' \in [Processes -> Seq(Paths)] /\ taken' \in [Processes -> Seq(Paths)]
      /\ Head(todo[p]) \in Paths
      /\ Len(taken[p]) \in Nat /\ Len(taken'[p]) = Len(taken[p]) + 1 /\ taken'[p] # <<>>
      /\ taken'[p] \o todo'[p] = taken[p] \o todo[p]
      /\ \A q \in Processes \ {p} : todo'[q] = todo[q] /\ taken'[q] = taken[q]
  BY <1>1, TakeMoves
<1>3. c \in Pictures
  BY <1>1, <1>2, WholeIsPicture DEF Next1, Decodes, DecodesForIngest, CommandTypeOK
<1>4. /\ images' \in [Processes -> Seq(Pictures)]
      /\ Len(images[p]) \in Nat /\ Len(images'[p]) = Len(images[p]) + 1
      /\ \A k \in 1..Len(images[p]) : images'[p][k] = images[p][k]
      /\ images'[p][Len(images[p]) + 1] = c
      /\ \A q \in Processes \ {p} : images'[q] = images[q]
  BY <1>1, <1>3, HoldAdds
<1>5. CommandTypeOK' /\ \A q \in Processes \ {p} : SameFor(q)
  BY <1>1, <1>2, <1>4 DEF CommandTypeOK, SameFor
<1>6. /\ lines'[p] = <<>> /\ lines[p] \in Seq(ScoreLines \cup OutputLines)
      /\ Len(lines'[p]) = 0
  BY <1>1, EmptySeq DEF ManyInv, CommandTypeOK
<1>7. InHand(p)' /\ Len(images[p]) = Len(taken[p])
  BY <1>2, <1>4 DEF ManyInv, InHand
<1>8. Accepted(p)' /\ \A k \in 1..Len(images'[p]) : images'[p][k].alpha = "none"
  <2>1. CASE taken[p] = <<>>
    <3>1. Len(images[p]) = 0 /\ Len(images'[p]) = 1 /\ images'[p][1] = c
      BY <1>4, <1>7, <2>1, EmptySeq
    <3> QED BY <2>1, <3>1 DEF Accepted, SameSize
  <2>2. CASE taken[p] # <<>>
    <3>0. Len(taken[p]) # 0
      BY <1>1, <2>2, LongIsNotEmpty DEF CommandTypeOK
    <3>1. /\ Len(images[p]) \in Nat \ {0} /\ 1 \in 1..Len(images[p])
          /\ images'[p][1] = images[p][1]
      BY <1>4, <1>7, <3>0
    <3>2. ~Below8x8(images'[p][1])
      BY <3>1 DEF ManyInv, Accepted
    <3>3. ASSUME NEW k \in 1..Len(images'[p])
          PROVE  /\ Decodes(images'[p][k]) /\ SameSize(images'[p][1], images'[p][k])
                 /\ images'[p][k].alpha = "none"
      <4>1. CASE k = Len(images[p]) + 1
        BY <1>4, <2>2, <3>1, <4>1
      <4>2. CASE k \in 1..Len(images[p])
        BY <1>4, <3>1, <4>2 DEF ManyInv, Accepted
      <4> QED BY <1>4, <4>1, <4>2
    <3> QED BY <3>2, <3>3 DEF Accepted
  <2> QED BY <2>1, <2>2
<1>9. VariantsOnce(p)'
  <2>1. Queue(p)' = Queue(p)
    BY <1>2 DEF Queue
  <2> QED BY <2>1 DEF ManyInv, VariantsOnce
<1>10. ManyLines(p)'
  BY <1>6 DEF ManyLines
<1>11. ManyInv(p)'
  BY <1>2, <1>6, <1>7, <1>8, <1>9, <1>10 DEF ManyInv
<1>12. ProcessInv(p)'
  BY <1>11 DEF ProcessInv, Command
<1> QED BY <1>5, <1>12, OneMoves

LEMMA ManyOriginalKeeps ==
  ASSUME CommandInv, NEW p \in Processes, UNCHANGED scenario, ManyOriginal(p)
  PROVE  CommandInv'
<1> DEFINE c == Next1(p)
<1>1. /\ CommandTypeOK /\ pc[p] = "original" /\ Command(p).mode = "score-many"
      /\ ManyInv(p) /\ taken[p] = <<>> /\ todo[p] # <<>>
  BY DEF CommandInv, ProcessInv, ManyInv, ManyOriginal
<1>2. CASE Fail(p)
  <2>1. lines[p] = <<>>
    BY <1>1 DEF ManyInv
  <2> QED BY <1>1, <1>2, <2>1, Stops DEF Running, Fail
<1>3. CASE /\ Decodes(c) /\ ~Below8x8(c) /\ c.alpha = "none"
           /\ Take(p) /\ Hold(p, c) /\ GoTo(p, "variants") /\ UNCHANGED <<files, lines>>
  <2>1. /\ pc' \in [Processes -> Labels] /\ pc'[p] = "variants"
        /\ \A q \in Processes \ {p} : pc'[q] = pc[q]
    BY <1>1, <1>3, GoesTo DEF Labels
  <2> HIDE DEF c
  <2> QED BY <1>1, <1>3, <2>1, ManyTakes DEF c
<1> QED BY <1>2, <1>3 DEF ManyOriginal

LEMMA ManyVariantKeeps ==
  ASSUME CommandInv, NEW p \in Processes, UNCHANGED scenario, ManyVariant(p)
  PROVE  CommandInv'
<1> DEFINE c == Next1(p)
<1>1. CommandTypeOK /\ pc[p] = "variants" /\ todo[p] # <<>> /\ ProcessInv(p)
  BY DEF CommandInv, ManyVariant
<1>2. /\ Command(p).mode = "score-many" /\ ManyInv(p) /\ taken[p] # <<>>
      /\ lines[p] = <<>>
  BY <1>1, CommandsOf DEF ProcessInv, ManyInv, PairInv, NormalizeInv, Ended
<1>3. CASE Fail(p)
  BY <1>1, <1>2, <1>3, Stops DEF Running, Fail
<1>4. CASE /\ Decodes(c) /\ SameSize(images[p][1], c) /\ c.alpha = "none"
           /\ Take(p) /\ Hold(p, c) /\ UNCHANGED <<files, pc, lines>>
  <2>1. /\ pc' \in [Processes -> Labels] /\ pc'[p] = "variants"
        /\ \A q \in Processes \ {p} : pc'[q] = pc[q]
    BY <1>1, <1>4 DEF CommandTypeOK
  <2> HIDE DEF c
  <2> QED BY <1>1, <1>2, <1>4, <2>1, ManyTakes DEF c
<1> QED BY <1>3, <1>4 DEF ManyVariant

LEMMA ManyReportKeeps ==
  ASSUME CommandInv, NEW p \in Processes, UNCHANGED scenario, ManyReport(p)
  PROVE  CommandInv'
<1> DEFINE i == Len(lines[p]) + 1
           line == [name |-> taken[p][i + 1],
                    score |-> Score(images[p][1], images[p][i + 1], {5})]
<1>1. /\ CommandTypeOK /\ pc[p] = "variants" /\ todo[p] = <<>> /\ ProcessInv(p)
      /\ UNCHANGED <<files, todo, taken, images>>
  BY DEF CommandInv, ManyReport, AllAreScored
<1>2. Command(p).mode = "score-many" /\ ManyInv(p) /\ taken[p] # <<>>
  BY <1>1, CommandsOf DEF ProcessInv, ManyInv, PairInv, NormalizeInv, Ended
<1>3. /\ Len(lines[p]) \in Nat /\ Len(taken[p]) \in Nat
      /\ Len(taken[p]) # 0 /\ Len(lines[p]) < Len(taken[p])
  <2>1. /\ lines[p] \in Seq(ScoreLines \cup OutputLines) /\ taken[p] \in Seq(Paths)
    BY <1>1 DEF CommandTypeOK
  <2>2. Len(lines[p]) \in Nat /\ Len(taken[p]) \in Nat /\ Len(taken[p]) # 0
    BY <1>2, <2>1, LongIsNotEmpty
  <2>3. lines[p] = <<>> => Len(lines[p]) = 0
    BY EmptySeq
  <2> QED BY <1>2, <2>2, <2>3 DEF ManyInv
<1>4. Len(images[p]) = Len(taken[p])
  BY <1>2 DEF ManyInv, InHand
<1>5. Accepted(p)' /\ InHand(p)' /\ VariantsOnce(p)' /\ Nothing(p)' = (Nothing(p) /\ lines'[p] = <<>>)
      /\ \A k \in 1..Len(images'[p]) : images'[p][k].alpha = "none"
  BY <1>1, <1>2 DEF ManyInv, Accepted, InHand, VariantsOnce, Queue, Nothing
<1>6. CASE i = Len(taken[p]) /\ GoTo(p, "done") /\ UNCHANGED lines
  <2>1. /\ pc' \in [Processes -> Labels] /\ pc'[p] = "done"
        /\ \A q \in Processes \ {p} : pc'[q] = pc[q]
    BY <1>1, <1>6, GoesTo DEF Labels
  <2>2. CommandTypeOK' /\ \A q \in Processes \ {p} : SameFor(q)
    BY <1>1, <1>6, <2>1 DEF CommandTypeOK, SameFor
  <2>3. ManyLines(p)'
    BY <1>1, <1>2, <1>6 DEF ManyInv, ManyLines
  <2>4. ManyInv(p)'
    BY <1>1, <1>2, <1>3, <1>5, <1>6, <2>1, <2>3 DEF ManyInv, Ended
  <2>5. ProcessInv(p)'
    BY <1>2, <2>4 DEF ProcessInv, Command
  <2> QED BY <2>2, <2>5, OneMoves
<1>7. CASE i # Len(taken[p]) /\ Prints(p, line) /\ UNCHANGED pc
  <2>1. /\ i \in 1..Len(taken[p]) /\ i + 1 \in 1..Len(taken[p]) /\ 1 \in 1..Len(taken[p])
    BY <1>3, <1>7
  <2>2. /\ taken[p][i + 1] \in Paths /\ images[p][1] \in Pictures /\ images[p][i + 1] \in Pictures
    <3>1. taken[p] \in Seq(Paths) /\ images[p] \in Seq(Pictures)
      BY <1>1 DEF CommandTypeOK
    <3> HIDE DEF i
    <3> QED BY <1>4, <2>1, <3>1, ElementOfSeq
  <2>3. line \in ScoreLines \cup OutputLines
    <3>1. Score(images[p][1], images[p][i + 1], {5}) \in SUBSET (Sides \X Sides)
      BY <2>2, ScoreIsScore
    <3> HIDE DEF i
    <3> QED BY <2>2, <3>1 DEF ScoreLines
  <2>4. /\ lines' \in [Processes -> Seq(ScoreLines \cup OutputLines)]
        /\ Len(lines'[p]) = Len(lines[p]) + 1
        /\ \A k \in 1..Len(lines[p]) : lines'[p][k] = lines[p][k]
        /\ lines'[p][Len(lines[p]) + 1] = line
        /\ \A q \in Processes \ {p} : lines'[q] = lines[q]
    <3> HIDE DEF line
    <3> QED BY <1>1, <1>7, <2>3, PrintsAdds
  <2>5. CommandTypeOK' /\ \A q \in Processes \ {p} : SameFor(q)
    BY <1>1, <1>7, <2>4 DEF CommandTypeOK, SameFor
  <2>6. ManyLines(p)'
    <3> SUFFICES ASSUME NEW k \in 1..Len(lines'[p])
                 PROVE  lines'[p][k] = [name |-> taken[p][k + 1],
                                        score |-> Score(images[p][1], images[p][k + 1], {5})]
      BY <1>1 DEF ManyLines
    <3>1. CASE k = i
      BY <2>4, <3>1
    <3>2. CASE k \in 1..Len(lines[p])
      BY <1>2, <2>4, <3>2 DEF ManyInv, ManyLines
    <3> QED BY <1>3, <2>4, <3>1, <3>2
  <2>7. Len(lines'[p]) < Len(taken'[p]) /\ pc'[p] = "variants" /\ todo'[p] = <<>>
        /\ taken'[p] # <<>>
    BY <1>1, <1>2, <1>3, <1>7, <2>4
  <2>8. ManyInv(p)'
    BY <1>5, <2>6, <2>7 DEF ManyInv
  <2>9. ProcessInv(p)'
    BY <1>2, <2>8 DEF ProcessInv, Command
  <2> QED BY <2>5, <2>9, OneMoves
<1> QED BY <1>6, <1>7 DEF ManyReport

-----------------------------------------------------------------------------
(* normalize.                                                              *)

LEMMA Normalizer ==
  ASSUME CommandInv, NEW p \in Processes,
         \/ Command(p).mode = "normalize"
         \/ pc[p] \in {"ingest", "create", "encode", "report"}
  PROVE  /\ Command(p).mode = "normalize" /\ NormalizeInv(p) /\ Command(p).out \in Directories
         /\ Command(p).inputs \in Seq(Paths)
         /\ Len(lines[p]) \in Nat /\ Len(taken[p]) \in Nat /\ Len(images[p]) = Len(taken[p])
         /\ taken[p] \in Seq(Paths) /\ images[p] \in Seq(Pictures)
         /\ \A k \in 1..Len(taken[p]) :
              /\ taken[p][k] \in Paths /\ images[p][k] \in Pictures
              /\ Destination(p, taken[p][k]) \in Paths
<1>1. CommandTypeOK /\ ProcessInv(p)
  BY DEF CommandInv
<1>2. /\ Command(p).mode = "normalize" /\ NormalizeInv(p) /\ Command(p).out \in Directories
      /\ Command(p).inputs \in Seq(Paths)
  BY <1>1, CommandsOf DEF ProcessInv, ManyInv, PairInv, Ended
<1>3. /\ taken[p] \in Seq(Paths) /\ images[p] \in Seq(Pictures)
      /\ lines[p] \in Seq(ScoreLines \cup OutputLines)
  BY <1>1 DEF CommandTypeOK
<1>4. /\ Len(lines[p]) \in Nat /\ Len(taken[p]) \in Nat /\ Len(images[p]) = Len(taken[p])
  BY <1>2, <1>3, LenProperties DEF NormalizeInv, InHand
<1>5. ASSUME NEW k \in 1..Len(taken[p])
      PROVE  /\ taken[p][k] \in Paths /\ images[p][k] \in Pictures
             /\ Destination(p, taken[p][k]) \in Paths
  <2>1. taken[p][k] \in Paths /\ images[p][k] \in Pictures
    BY <1>3, <1>4, ElementOfSeq
  <2> QED BY <1>2, <2>1, PathParts DEF Destination
<1> QED BY <1>2, <1>3, <1>4, <1>5

\* A path that was taken and is being written or reported.
LEMMA LastTaken ==
  ASSUME CommandInv, NEW p \in Processes, pc[p] \in {"create", "encode", "report"}
  PROVE  /\ Len(lines[p]) + 1 = Len(taken[p]) /\ Len(taken[p]) \in 1..Len(taken[p])
         /\ Last(taken[p]) = taken[p][Len(taken[p])]
         /\ Last(images[p]) = images[p][Len(taken[p])]
         /\ Last(taken[p]) \in Paths /\ Last(images[p]) \in Pictures
         /\ Destination(p, Last(taken[p])) \in Paths
<1>1. /\ Len(lines[p]) \in Nat /\ Len(taken[p]) \in Nat /\ Len(images[p]) = Len(taken[p])
      /\ NormalizeInv(p)
      /\ \A k \in 1..Len(taken[p]) :
           /\ taken[p][k] \in Paths /\ images[p][k] \in Pictures
           /\ Destination(p, taken[p][k]) \in Paths
  BY Normalizer
<1>2. Len(lines[p]) + 1 = Len(taken[p])
  BY <1>1 DEF NormalizeInv
<1>3. Len(taken[p]) \in 1..Len(taken[p])
  BY <1>1, <1>2
<1>4. /\ Last(taken[p]) = taken[p][Len(taken[p])]
      /\ Last(images[p]) = images[p][Len(taken[p])]
  BY <1>1 DEF Last
<1> QED BY <1>1, <1>2, <1>3, <1>4

LEMMA NormalizeStartKeeps ==
  ASSUME CommandInv, NEW p \in Processes, UNCHANGED scenario, NormalizeStart(p)
  PROVE  CommandInv'
<1>1. /\ CommandTypeOK /\ pc[p] = "start" /\ Command(p).mode = "normalize"
      /\ NormalizeInv(p) /\ Nothing(p) /\ Command(p).inputs \in Seq(Paths)
  BY CommandsOf DEF CommandInv, ProcessInv, NormalizeInv, NormalizeStart
<1>2. CASE Fail(p)
  BY <1>1, <1>2, Stops DEF Running, Fail
<1>3. CASE /\ todo' = [todo EXCEPT ![p] = Command(p).inputs]
           /\ GoTo(p, "ingest") /\ UNCHANGED <<files, taken, images, lines>>
  <2>1. /\ pc' \in [Processes -> Labels] /\ pc'[p] = "ingest"
        /\ \A q \in Processes \ {p} : pc'[q] = pc[q]
    BY <1>1, <1>3, GoesTo DEF Labels
  <2>2. /\ todo' \in [Processes -> Seq(Paths)] /\ todo'[p] = Command(p).inputs
        /\ \A q \in Processes \ {p} : todo'[q] = todo[q]
    BY <1>1, <1>3 DEF CommandTypeOK
  <2>3. CommandTypeOK' /\ \A q \in Processes \ {p} : SameFor(q)
    BY <1>1, <1>3, <2>1, <2>2 DEF CommandTypeOK, SameFor
  <2>4. /\ taken'[p] = <<>> /\ images'[p] = <<>> /\ lines'[p] = <<>>
        /\ Len(taken'[p]) = 0 /\ Len(images'[p]) = 0 /\ Len(lines'[p]) = 0
    BY <1>1, <1>3, EmptySeq DEF Nothing
  <2>5. Command(p)' = Command(p)
    BY DEF Command
  <2>6. Queue(p)' = Command(p)'.inputs
    BY <1>1, <2>2, <2>4, <2>5, ConcatEmptySeq DEF Queue
  <2>7. NormalizeInv(p)'
    BY <2>1, <2>4, <2>6 DEF NormalizeInv, InHand, Ended
  <2>8. ProcessInv(p)'
    BY <1>1, <2>5, <2>7 DEF ProcessInv
  <2> QED BY <2>3, <2>8, OneMoves
<1> QED BY <1>2, <1>3 DEF NormalizeStart

LEMMA IngestKeeps ==
  ASSUME CommandInv, NEW p \in Processes, UNCHANGED scenario, Ingest(p)
  PROVE  CommandInv'
<1> DEFINE c == Next1(p)
           n == Len(taken[p])
<1>1. CommandTypeOK /\ pc[p] = "ingest" /\ todo[p] # <<>>
  BY DEF CommandInv, Ingest
<1>2. /\ Command(p).mode = "normalize" /\ NormalizeInv(p)
      /\ Len(lines[p]) = n /\ n \in Nat /\ Len(images[p]) = n
      /\ taken[p] \in Seq(Paths)
  BY <1>1, Normalizer DEF NormalizeInv
<1>3. CASE Fail(p)
  BY <1>1, <1>2, <1>3, Stops DEF Running, Fail
<1>4. CASE /\ DecodesForIngest(c) /\ c.alpha # "real" /\ ~Collides(p, Head(todo[p]))
           /\ Take(p) /\ Hold(p, c) /\ GoTo(p, "create") /\ UNCHANGED <<files, lines>>
  <2>1. /\ pc' \in [Processes -> Labels] /\ pc'[p] = "create"
        /\ \A q \in Processes \ {p} : pc'[q] = pc[q]
    BY <1>1, <1>4, GoesTo DEF Labels
  <2>2. /\ todo' \in [Processes -> Seq(Paths)] /\ taken' \in [Processes -> Seq(Paths)]
        /\ Head(todo[p]) \in Paths /\ Len(taken'[p]) = n + 1
        /\ \A k \in 1..n : taken'[p][k] = taken[p][k]
        /\ taken'[p][n + 1] = Head(todo[p])
        /\ taken'[p] \o todo'[p] = taken[p] \o todo[p]
        /\ \A q \in Processes \ {p} : todo'[q] = todo[q] /\ taken'[q] = taken[q]
    BY <1>1, <1>4, TakeMoves
  <2>3. c \in Pictures
    BY <1>1, <1>4, <2>2, WholeIsPicture DEF Next1, DecodesForIngest, CommandTypeOK
  <2>4. /\ images' \in [Processes -> Seq(Pictures)]
        /\ Len(images'[p]) = n + 1
        /\ \A k \in 1..n : images'[p][k] = images[p][k]
        /\ images'[p][n + 1] = c
        /\ \A q \in Processes \ {p} : images'[q] = images[q]
    <3> HIDE DEF c, n
    <3> QED BY <1>1, <1>2, <1>4, <2>3, HoldAdds
  <2>5. CommandTypeOK' /\ \A q \in Processes \ {p} : SameFor(q)
    BY <1>1, <1>4, <2>1, <2>2, <2>4 DEF CommandTypeOK, SameFor
  <2>6. Command(p)' = Command(p) /\ \A path : Destination(p, path)' = Destination(p, path)
    BY DEF Command, Destination
  <2>7. Queue(p)' = Command(p)'.inputs
    <3>1. ~Nothing(p)
      BY <1>1 DEF Nothing
    <3> QED BY <1>2, <2>2, <2>6, <3>1 DEF NormalizeInv, Queue
  <2>8. \A i, j \in 1..n + 1 : taken'[p][i][2] = taken'[p][j][2] => i = j
    <3>1. ASSUME NEW i \in 1..n PROVE taken'[p][i][2] # taken'[p][n + 1][2]
      <4>1. i \in DOMAIN taken[p]
        BY <1>2, LenProperties
      <4>2. taken[p][i][2] # Head(todo[p])[2]
        BY <1>4, <4>1, Zenon DEF Collides
      <4> QED BY <2>2, <4>2
    <3>2. \A i, j \in 1..n : taken'[p][i][2] = taken'[p][j][2] => i = j
      BY <1>2, <2>2 DEF NormalizeInv
    <3>3. \A i \in 1..n + 1 : i \in 1..n \/ i = n + 1
      BY <1>2
    <3> HIDE DEF n
    <3> QED BY <3>1, <3>2, <3>3
  <2>9. \A k \in 1..n + 1 : images'[p][k].alpha # "real"
    <3>1. \A k \in 1..n + 1 : k \in 1..n \/ k = n + 1
      BY <1>2
    <3> HIDE DEF c, n
    <3> QED BY <1>2, <1>4, <2>4, <3>1 DEF NormalizeInv
  <2>10. /\ lines'[p] = lines[p]
         /\ \A i \in 1..n :
              lines'[p][i] = [name |-> taken'[p][i], destination |-> Destination(p, taken'[p][i])]
    BY <1>2, <1>4, <2>2 DEF NormalizeInv
  <2>11. NormalizeInv(p)'
    <3>1. InHand(p)' /\ Len(lines'[p]) = n
      BY <1>2, <2>2, <2>4, <2>10 DEF InHand
    <3> HIDE DEF n
    <3> QED BY <1>2, <2>1, <2>2, <2>4, <2>6, <2>7, <2>8, <2>9, <2>10, <3>1 DEF NormalizeInv
  <2>12. ProcessInv(p)'
    BY <1>2, <2>6, <2>11 DEF ProcessInv
  <2> QED BY <2>5, <2>12, OneMoves
<1> QED BY <1>3, <1>4 DEF Ingest

\* What an output is overwritten with.
LEMMA WriteKeeps ==
  ASSUME CommandInv, NEW p \in Processes, UNCHANGED <<scenario, todo, taken, images, lines>>,
         NEW c \in Contents, files' = [files EXCEPT ![Destination(p, Last(taken[p]))] = c],
         pc[p] \in {"create", "encode"}, NEW label \in {"encode", "report"}, GoTo(p, label)
  PROVE  CommandInv'
<1>1. CommandTypeOK
  BY DEF CommandInv
<1>2. /\ Command(p).mode = "normalize" /\ NormalizeInv(p)
      /\ Len(lines[p]) + 1 = Len(taken[p]) /\ Len(taken[p]) \in 1..Len(taken[p])
  BY Normalizer, LastTaken
<1>3. /\ pc' \in [Processes -> Labels] /\ pc'[p] = label
      /\ \A q \in Processes \ {p} : pc'[q] = pc[q]
  <2>1. label \in Labels
    BY DEF Labels
  <2> QED BY <1>1, <2>1, GoesTo
<1>4. files' \in [Paths -> Contents]
  BY <1>1 DEF CommandTypeOK
<1>5. CommandTypeOK' /\ \A q \in Processes \ {p} : SameFor(q)
  BY <1>1, <1>3, <1>4 DEF CommandTypeOK, SameFor
<1>6. /\ Command(p)' = Command(p) /\ Nothing(p)' = Nothing(p) /\ Queue(p)' = Queue(p)
      /\ InHand(p)' = InHand(p)
  BY DEF Command, Nothing, Queue, InHand
<1>7. NormalizeInv(p)'
  BY <1>2, <1>3, <1>6 DEF NormalizeInv, Destination
<1>8. ProcessInv(p)'
  BY <1>2, <1>6, <1>7 DEF ProcessInv
<1> QED BY <1>5, <1>8, OneMoves

LEMMA CreateKeeps ==
  ASSUME CommandInv, NEW p \in Processes, UNCHANGED scenario, Create(p)
  PROVE  CommandInv'
<1>1. pc[p] = "create" /\ Command(p).mode = "normalize"
  BY Normalizer DEF Create
<1>2. CASE Fail(p)
  BY <1>1, <1>2, Stops DEF Running, Fail
<1>3. CASE ~Fail(p)
  <2>1. Torn \in Contents
    BY DEF Contents
  <2> QED BY <1>1, <1>3, <2>1, WriteKeeps DEF Create
<1> QED BY <1>2, <1>3

LEMMA EncodeKeeps ==
  ASSUME CommandInv, NEW p \in Processes, UNCHANGED scenario, Encode(p)
  PROVE  CommandInv'
<1>1. pc[p] = "encode" /\ Command(p).mode = "normalize"
  BY Normalizer DEF Encode
<1>2. CASE Fail(p)
  BY <1>1, <1>2, Stops DEF Running, Fail
<1>3. CASE ~Fail(p)
  <2>1. Normalized(Last(images[p])) \in Contents
    BY <1>1, LastTaken, NormalizedIsPicture DEF Contents
  <2> QED BY <1>1, <1>3, <2>1, WriteKeeps DEF Encode
<1> QED BY <1>2, <1>3

LEMMA ReportKeeps ==
  ASSUME CommandInv, NEW p \in Processes, UNCHANGED scenario, Report(p)
  PROVE  CommandInv'
<1> DEFINE line == [name |-> Last(taken[p]), destination |-> Destination(p, Last(taken[p]))]
           label == IF todo[p] = <<>> THEN "done" ELSE "ingest"
           n == Len(lines[p])
<1>1. /\ CommandTypeOK /\ pc[p] = "report" /\ Prints(p, line) /\ GoTo(p, label)
      /\ UNCHANGED <<files, todo, taken, images>>
  BY DEF CommandInv, Report
<1>2. /\ Command(p).mode = "normalize" /\ NormalizeInv(p) /\ n \in Nat
      /\ n + 1 = Len(taken[p]) /\ Last(taken[p]) = taken[p][n + 1]
      /\ line \in OutputLines
  BY <1>1, Normalizer, LastTaken DEF OutputLines
<1>3. /\ lines' \in [Processes -> Seq(ScoreLines \cup OutputLines)]
      /\ Len(lines'[p]) = n + 1
      /\ \A k \in 1..n : lines'[p][k] = lines[p][k]
      /\ lines'[p][n + 1] = line
      /\ \A q \in Processes \ {p} : lines'[q] = lines[q]
  <2> HIDE DEF line
  <2> QED BY <1>1, <1>2, PrintsAdds
<1>4. /\ pc' \in [Processes -> Labels] /\ pc'[p] = label
      /\ \A q \in Processes \ {p} : pc'[q] = pc[q]
  <2>1. label \in Labels
    BY DEF Labels
  <2> HIDE DEF label
  <2> QED BY <1>1, <2>1, GoesTo
<1>5. CommandTypeOK' /\ \A q \in Processes \ {p} : SameFor(q)
  BY <1>1, <1>3, <1>4 DEF CommandTypeOK, SameFor
<1>6. /\ Command(p)' = Command(p) /\ Queue(p)' = Queue(p) /\ InHand(p)' = InHand(p)
  BY <1>1 DEF Command, Queue, InHand
<1>7. ~Nothing(p)
  <2>1. taken[p] # <<>>
    BY <1>2, EmptySeq
  <2> QED BY <2>1 DEF Nothing
<1>8. \A k \in 1..n + 1 :
        lines'[p][k] = [name |-> taken[p][k], destination |-> Destination(p, taken[p][k])]
  <2>1. \A k \in 1..n + 1 : k \in 1..n \/ k = n + 1
    BY <1>2
  <2>2. \A k \in 1..n :
          lines'[p][k] = [name |-> taken[p][k], destination |-> Destination(p, taken[p][k])]
    BY <1>2, <1>3 DEF NormalizeInv
  <2>3. lines'[p][n + 1] = [name |-> taken[p][n + 1],
                            destination |-> Destination(p, taken[p][n + 1])]
    BY <1>2, <1>3
  <2> HIDE DEF n
  <2> QED BY <2>1, <2>2, <2>3
<1>9. NormalizeInv(p)'
  <2>2. pc'[p] \in {"done", "ingest"} /\ Len(lines'[p]) = Len(taken[p])
    BY <1>2, <1>3, <1>4
  <2>3. \A k \in 1..Len(lines'[p]) :
          lines'[p][k] = [name |-> taken[p][k], destination |-> <<Command(p).out, taken[p][k][2]>>]
    BY <1>3, <1>8 DEF Destination
  <2>4. pc'[p] \notin {"create", "encode", "report"}
    BY <2>2
  <2> HIDE DEF n, line, label
  <2> QED BY <1>1, <1>2, <1>6, <1>7, <2>2, <2>3, <2>4 DEF NormalizeInv, Ended, Destination
<1>10. ProcessInv(p)'
  BY <1>2, <1>6, <1>9 DEF ProcessInv
<1> QED BY <1>5, <1>10, OneMoves

-----------------------------------------------------------------------------
(* The invariant of all steps.                                             *)

LEMMA InitCommandInv == Init => CommandInv
<1> SUFFICES ASSUME Init PROVE CommandInv
  OBVIOUS
<1>1. files \in [Paths -> Contents]
  BY ScenariosAssumption DEF Init
<1>2. CommandTypeOK
  BY <1>1, EmptySeq DEF Init, CommandTypeOK, Labels
<1>3. ASSUME NEW p \in Processes PROVE ProcessInv(p)
  <2>1. /\ pc[p] = "start" /\ Nothing(p)
        /\ Len(taken[p]) = 0 /\ Len(images[p]) = 0 /\ Len(lines[p]) = 0
    BY EmptySeq DEF Init, Nothing
  <2>2. Queue(p) = <<>> /\ Len(Queue(p)) = 0
    BY <2>1, EmptySeq, ConcatEmptySeq DEF Queue, Nothing
  <2>3. VariantsOnce(p)
    BY <2>2 DEF VariantsOnce
  <2>4. InHand(p) /\ Accepted(p) /\ ManyLines(p)
    BY <2>1 DEF InHand, Accepted, ManyLines
  <2>5. PairInv(p)
    BY <2>1, <2>4 DEF PairInv, Nothing
  <2>6. ManyInv(p)
    BY <2>1, <2>3, <2>4 DEF ManyInv, Nothing
  <2>7. NormalizeInv(p)
    BY <2>1, <2>4 DEF NormalizeInv
  <2> QED BY <2>5, <2>6, <2>7 DEF ProcessInv
<1> QED BY <1>2, <1>3 DEF CommandInv

LEMMA KillKeeps ==
  ASSUME CommandInv, NEW p \in Processes, UNCHANGED scenario, Kill(p)
  PROVE  CommandInv'
BY Stops DEF Kill

LEMMA UnchangedCommandInv == CommandInv /\ UNCHANGED vars => CommandInv'
<1> SUFFICES ASSUME CommandInv, UNCHANGED vars PROVE CommandInv'
  OBVIOUS
<1>1. UNCHANGED scenario /\ \A q \in Processes : SameFor(q)
  BY DEF vars, SameFor
<1>2. CommandTypeOK'
  BY DEF CommandInv, CommandTypeOK, vars
<1> QED BY <1>1, <1>2, OthersKept DEF CommandInv

LEMMA NextCommandInv == CommandInv /\ [Next]_vars => CommandInv'
<1> SUFFICES ASSUME CommandInv, [Next]_vars PROVE CommandInv'
  OBVIOUS
<1>1. CASE UNCHANGED vars
  BY <1>1, UnchangedCommandInv
<1>2. ASSUME NEW p \in Processes, Step(p), UNCHANGED scenario PROVE CommandInv'
  <2>1. CASE PairStart(p)
    BY <1>2, <2>1, PairStartKeeps
  <2>2. CASE PairOriginal(p)
    BY <1>2, <2>2, PairOriginalKeeps
  <2>3. CASE PairDistorted(p)
    BY <1>2, <2>3, PairDistortedKeeps
  <2>4. CASE ManyStart(p)
    BY <1>2, <2>4, ManyStartKeeps
  <2>5. CASE ManyOriginal(p)
    BY <1>2, <2>5, ManyOriginalKeeps
  <2>6. CASE ManyVariant(p)
    BY <1>2, <2>6, ManyVariantKeeps
  <2>7. CASE ManyReport(p)
    BY <1>2, <2>7, ManyReportKeeps
  <2>8. CASE NormalizeStart(p)
    BY <1>2, <2>8, NormalizeStartKeeps
  <2>9. CASE Ingest(p)
    BY <1>2, <2>9, IngestKeeps
  <2>10. CASE Create(p)
    BY <1>2, <2>10, CreateKeeps
  <2>11. CASE Encode(p)
    BY <1>2, <2>11, EncodeKeeps
  <2>12. CASE Report(p)
    BY <1>2, <2>12, ReportKeeps
  <2>13. CASE Kill(p)
    BY <1>2, <2>13, KillKeeps
  <2> QED BY <1>2, <2>1, <2>2, <2>3, <2>4, <2>5, <2>6, <2>7, <2>8, <2>9, <2>10, <2>11, <2>12,
             <2>13 DEF Step
<1> QED BY <1>1, <1>2 DEF Next

LEMMA CommandInvariant == Spec => []CommandInv
BY InitCommandInv, NextCommandInv, PTL DEF Spec

-----------------------------------------------------------------------------
(* What is printed is what the reference says.                             *)

\* The reference gives two pictures in sRGB and of one size the same score.
LEMMA ReferenceAgrees ==
  ASSUME NEW a \in Pictures, NEW b \in Pictures,
         Decodes(a), Decodes(b), ~Below8x8(a), SameSize(a, b)
  PROVE  /\ ~ReferenceRejects(a, b)
         /\ Score(a, b, Backgrounds(a, b)) = ReferenceScore(a, b)
         /\ a.alpha = "none" => Score(a, b, {5}) = ReferenceScore(a, b)
<1>1. ~ReferenceRejects(a, b)
  BY DEF ReferenceRejects, ReferenceLoads, Decodes, DecodesForIngest
<1>2. a.colour = "sRGB" /\ b.colour = "sRGB"
  BY DEF Decodes, DecodesForIngest, Pictures
<1>3. /\ \A bg : Linear(a, bg) = ReferenceLinear(a, bg)
      /\ \A bg : Linear(b, bg) = ReferenceLinear(b, bg)
  BY <1>2 DEF Linear, ReferenceLinear
<1> DEFINE pass(bg) == <<ReferenceLinear(a, bg), ReferenceLinear(b, bg)>>
<1>4. \A S : Score(a, b, S) = {pass(bg) : bg \in S}
  BY <1>3 DEF Score
<1> HIDE DEF pass
<1>5. {pass(bg) : bg \in {5}} = {pass(5)} /\ {pass(bg) : bg \in {1, 9}} = {pass(1), pass(9)}
  OBVIOUS
<1>6. ReferenceScore(a, b) = IF a.alpha = "none" THEN {pass(5)} ELSE {pass(1), pass(9)}
  BY DEF ReferenceScore, pass
<1> QED BY <1>1, <1>4, <1>5, <1>6 DEF Backgrounds

LEMMA PairScored ==
  ASSUME CommandTypeOK, NEW p \in Processes, PairInv(p), NEW i \in DOMAIN lines[p]
  PROVE  /\ ~ReferenceRejects(Original(p), Compared(p, i))
         /\ lines[p][i].score = ReferenceScore(Original(p), Compared(p, i))
<1> DEFINE a == images[p][1]
           b == images[p][2]
<1>1. /\ taken[p] \in Seq(Paths) /\ images[p] \in Seq(Pictures)
      /\ lines[p] \in Seq(ScoreLines \cup OutputLines)
  BY DEF CommandTypeOK
<1>2. lines[p] # <<>>
  BY EmptySeq
<1>3. /\ Len(taken[p]) = 2 /\ Len(lines[p]) = 1 /\ Len(images[p]) = 2
      /\ lines[p][1] = [name |-> taken[p][2], score |-> Score(a, b, Backgrounds(a, b))]
  BY <1>2 DEF PairInv, InHand
<1>4. i = 1 /\ DOMAIN taken[p] = 1..2
  BY <1>1, <1>3
<1>5. a \in Pictures /\ b \in Pictures
  BY <1>1, <1>3
<1>6. Decodes(a) /\ Decodes(b) /\ ~Below8x8(a) /\ SameSize(a, b)
  BY <1>3 DEF PairInv, Accepted
<1>7. (CHOOSE k \in DOMAIN taken[p] : k > 1 /\ taken[p][k] = lines[p][i].name) = 2
  <2>1. \A k \in DOMAIN taken[p] : k > 1 /\ taken[p][k] = lines[p][i].name <=> k = 2
    BY <1>3, <1>4
  <2>2. 2 \in DOMAIN taken[p]
    BY <1>4
  <2> QED BY <2>1, <2>2
<1>8. Original(p) = a /\ Compared(p, i) = b
  BY <1>7 DEF Original, Compared
<1>9. lines[p][i].score = Score(a, b, Backgrounds(a, b))
  BY <1>3, <1>4
<1> HIDE DEF a, b
<1> QED BY <1>5, <1>6, <1>8, <1>9, ReferenceAgrees

LEMMA ManyScored ==
  ASSUME CommandTypeOK, NEW p \in Processes, ManyInv(p), NEW i \in DOMAIN lines[p]
  PROVE  /\ ~ReferenceRejects(Original(p), Compared(p, i))
         /\ lines[p][i].score = ReferenceScore(Original(p), Compared(p, i))
<1> DEFINE a == images[p][1]
           b == images[p][i + 1]
<1>1. /\ taken[p] \in Seq(Paths) /\ images[p] \in Seq(Pictures)
      /\ lines[p] \in Seq(ScoreLines \cup OutputLines)
  BY DEF CommandTypeOK
<1>2. /\ lines[p] # <<>> /\ Len(lines[p]) \in Nat /\ i \in 1..Len(lines[p])
      /\ DOMAIN taken[p] = 1..Len(taken[p]) /\ Len(taken[p]) \in Nat
  BY <1>1, EmptySeq, LenProperties
<1>3. /\ todo[p] = <<>> /\ Len(lines[p]) < Len(taken[p]) /\ Len(images[p]) = Len(taken[p])
      /\ lines[p][i] = [name |-> taken[p][i + 1], score |-> Score(a, b, {5})]
  BY <1>2 DEF ManyInv, InHand, ManyLines
<1>4. i + 1 \in 2..Len(taken[p]) /\ i + 1 \in 1..Len(images[p]) /\ 1 \in 1..Len(images[p])
  BY <1>2, <1>3
<1>5. a \in Pictures /\ b \in Pictures
  BY <1>1, <1>4, ElementOfSeq
<1>6. Decodes(a) /\ Decodes(b) /\ ~Below8x8(a) /\ SameSize(a, b) /\ a.alpha = "none"
  BY <1>4 DEF ManyInv, Accepted
<1>7. (CHOOSE k \in DOMAIN taken[p] : k > 1 /\ taken[p][k] = lines[p][i].name) = i + 1
  <2>1. Queue(p) = taken[p]
    BY <1>1, <1>3, ConcatEmptySeq DEF Queue
  <2>2. \A k, l \in 2..Len(taken[p]) : taken[p][k] = taken[p][l] => k = l
    BY <2>1 DEF ManyInv, VariantsOnce
  <2>3. lines[p][i].name = taken[p][i + 1]
    BY <1>3
  <2>4. \A k \in DOMAIN taken[p] : k > 1 /\ taken[p][k] = lines[p][i].name <=> k = i + 1
    <3>1. \A k \in DOMAIN taken[p] : k > 1 => k \in 2..Len(taken[p])
      BY <1>2
    <3>2. i + 1 \in DOMAIN taken[p] /\ i + 1 > 1
      BY <1>2, <1>4
    <3> QED BY <1>4, <2>2, <2>3, <3>1, <3>2
  <2>5. i + 1 \in DOMAIN taken[p]
    BY <1>2, <1>4
  <2> QED BY <2>4, <2>5
<1>8. Original(p) = a /\ Compared(p, i) = b
  BY <1>7 DEF Original, Compared
<1>9. lines[p][i].score = Score(a, b, {5})
  BY <1>3
<1> HIDE DEF a, b
<1> QED BY <1>5, <1>6, <1>8, <1>9, ReferenceAgrees

(* main.rs: whatever is rewritten or killed meanwhile, each score that is  *)
(* printed is the reference's (ssimulacra2_main.cc) of two whole pictures. *)
THEOREM PrintedLikeReference == Spec => []ScoredLikeReference
<1>1. CommandInv => ScoredLikeReference
  <2> SUFFICES ASSUME CommandInv, NEW p \in Processes, Scores(p), NEW i \in DOMAIN lines[p]
               PROVE  /\ ~ReferenceRejects(Original(p), Compared(p, i))
                      /\ lines[p][i].score = ReferenceScore(Original(p), Compared(p, i))
    BY DEF ScoredLikeReference
  <2>1. CommandTypeOK /\ ProcessInv(p)
    BY DEF CommandInv
  <2>2. PairInv(p) \/ ManyInv(p)
    BY <2>1, CommandsOf DEF ProcessInv, Scores
  <2> QED BY <2>1, <2>2, PairScored, ManyScored
<1> QED BY <1>1, CommandInvariant, PTL

(* main.rs: run_score_many prints nothing until every variant is scored,   *)
(* nothing when one fails, and a line for each in order when it succeeds.  *)
THEOREM BatchIsAllOrNothing == Spec => []AllOrNothing
<1>1. CommandInv => AllOrNothing
  <2> SUFFICES ASSUME CommandInv, NEW p \in Processes, Command(p).mode = "score-many"
               PROVE  /\ lines[p] # <<>> => todo[p] = <<>>
                      /\ pc[p] = "failed" => lines[p] = <<>>
                      /\ pc[p] = "done" =>
                           [i \in DOMAIN lines[p] |-> lines[p][i].name] = Tail(taken[p])
    BY DEF AllOrNothing
  <2>1. CommandTypeOK /\ ManyInv(p)
    BY DEF CommandInv, ProcessInv
  <2>2. ASSUME pc[p] = "done"
        PROVE  [i \in DOMAIN lines[p] |-> lines[p][i].name] = Tail(taken[p])
    <3>1. /\ taken[p] \in Seq(Paths) /\ lines[p] \in Seq(ScoreLines \cup OutputLines)
          /\ Len(lines[p]) + 1 = Len(taken[p])
      BY <2>1, <2>2 DEF ManyInv, CommandTypeOK
    <3>2. /\ Len(lines[p]) \in Nat /\ Len(taken[p]) \in Nat /\ taken[p] # <<>>
          /\ DOMAIN lines[p] = 1..Len(lines[p])
      BY <3>1, LenProperties, LongIsNotEmpty
    <3>3. /\ Tail(taken[p]) \in Seq(Paths) /\ Len(Tail(taken[p])) = Len(taken[p]) - 1
          /\ \A i \in 1..Len(Tail(taken[p])) : Tail(taken[p])[i] = taken[p][i + 1]
      BY <3>1, <3>2, HeadTailProperties
    <3>4. Tail(taken[p]) = [i \in 1..Len(lines[p]) |-> taken[p][i + 1]]
      <4>1. Len(Tail(taken[p])) = Len(lines[p])
        BY <3>1, <3>2, <3>3
      <4>2. DOMAIN Tail(taken[p]) = 1..Len(lines[p])
        BY <3>3, <4>1, LenProperties
      <4>3. Tail(taken[p]) = [i \in DOMAIN Tail(taken[p]) |-> Tail(taken[p])[i]]
        BY <3>3, LenProperties
      <4> QED BY <3>3, <4>1, <4>2, <4>3
    <3>5. \A i \in 1..Len(lines[p]) : lines[p][i].name = taken[p][i + 1]
      <4> SUFFICES ASSUME NEW i \in 1..Len(lines[p]) PROVE lines[p][i].name = taken[p][i + 1]
        OBVIOUS
      <4>1. lines[p][i] = [name |-> taken[p][i + 1],
                           score |-> Score(images[p][1], images[p][i + 1], {5})]
        BY <2>1 DEF ManyInv, ManyLines
      <4> QED BY <4>1
    <3> QED BY <3>2, <3>4, <3>5
  <2> QED BY <2>1, <2>2 DEF ManyInv
<1> QED BY <1>1, CommandInvariant, PTL

-----------------------------------------------------------------------------
(* The files of a normalizer that nobody else writes to.                   *)

\* The directories it reads from and writes to.
LEMMA OwnPaths ==
  ASSUME CommandInv, NEW p \in Processes, Command(p).mode = "normalize"
  PROVE  /\ Written(p) \in Nat /\ Written(p) <= Len(taken[p])
         /\ \A k \in 1..Len(taken[p]) :
              /\ Destination(p, taken[p][k]) \in Paths
              /\ Destination(p, taken[p][k])[1] \in InputsAndOutputs(Command(p))
              /\ Destination(p, taken[p][k])[2] = taken[p][k][2]
         /\ \A k, l \in 1..Len(taken[p]) :
              Destination(p, taken[p][k]) = Destination(p, taken[p][l]) => k = l
<1>1. /\ NormalizeInv(p) /\ Len(lines[p]) \in Nat /\ Len(taken[p]) \in Nat
      /\ \A k \in 1..Len(taken[p]) : Destination(p, taken[p][k]) \in Paths
  BY Normalizer
<1>2. Written(p) \in Nat /\ Written(p) <= Len(taken[p])
  BY <1>1 DEF NormalizeInv, Written
<1>3. ASSUME NEW k \in 1..Len(taken[p])
      PROVE  /\ Destination(p, taken[p][k])[1] \in InputsAndOutputs(Command(p))
             /\ Destination(p, taken[p][k])[2] = taken[p][k][2]
  BY DEF Destination, InputsAndOutputs
<1>4. \A k, l \in 1..Len(taken[p]) :
        Destination(p, taken[p][k]) = Destination(p, taken[p][l]) => k = l
  BY <1>1, <1>3 DEF NormalizeInv
<1> QED BY <1>1, <1>2, <1>3, <1>4

\* Nothing is lost by what leaves them alone.
LEMMA FilesKept ==
  ASSUME CommandInv, NEW p \in Processes, Command(p).mode = "normalize", FilesInv(p),
         UNCHANGED scenario, taken'[p] = taken[p], images'[p] = images[p],
         Written(p)' \in Nat, Written(p)' <= Written(p),
         \A path \in Paths : path[1] \in InputsAndOutputs(Command(p)) => files'[path] = files[path]
  PROVE  FilesInv(p)'
<1>1. Command(p)' = Command(p)
  BY DEF Command
<1>2. \A k \in 1..Len(taken[p]) : images[p][k] = scenario.files[taken[p][k]]
  BY DEF FilesInv
<1>3. ASSUME NEW k \in 1..Written(p)'
      PROVE  files'[Destination(p, taken[p][k])] = Normalized(images[p][k])
  <2>1. k \in 1..Written(p) /\ k \in 1..Len(taken[p])
    BY OwnPaths
  <2>2. files[Destination(p, taken[p][k])] = Normalized(images[p][k])
    BY <2>1 DEF FilesInv
  <2> QED BY <2>1, <2>2, OwnPaths
<1>4. ASSUME NEW path \in Paths, path[1] \in InputsAndOutputs(Command(p))
      PROVE  \/ \E k \in 1..Len(taken[p]) : path = Destination(p, taken[p][k])
             \/ files'[path] = scenario.files[path]
  BY <1>4 DEF FilesInv
<1>5. /\ \A k \in 1..Written(p)' :
           files'[<<Command(p).out, taken[p][k][2]>>] = Normalized(images[p][k])
      /\ \A path \in Paths :
           path[1] \in InputsAndOutputs(Command(p)) =>
             \/ \E k \in 1..Len(taken[p]) : path = <<Command(p).out, taken[p][k][2]>>
             \/ files'[path] = scenario.files[path]
  BY <1>3, <1>4 DEF Destination
<1> QED BY <1>1, <1>2, <1>5 DEF FilesInv, Destination

\* What a step of p does to the files.
LEMMA StepWrites ==
  ASSUME CommandInv, NEW p \in Processes, Step(p)
  PROVE  /\ \A q \in Processes \ {p} : SameFor(q)
         /\ \/ UNCHANGED files
            \/ /\ pc[p] \in {"create", "encode"}
               /\ \E c : files' = [files EXCEPT ![Destination(p, Last(taken[p]))] = c]
<1>1. CommandTypeOK
  BY DEF CommandInv
<1>2. /\ \A label : GoTo(p, label) => \A q \in Processes \ {p} : pc'[q] = pc[q]
      /\ Take(p) => \A q \in Processes \ {p} : todo'[q] = todo[q] /\ taken'[q] = taken[q]
      /\ \A c : Hold(p, c) => \A q \in Processes \ {p} : images'[q] = images[q]
      /\ \A line : Prints(p, line) => \A q \in Processes \ {p} : lines'[q] = lines[q]
      /\ \A t : todo' = [todo EXCEPT ![p] = t] => \A q \in Processes \ {p} : todo'[q] = todo[q]
  BY <1>1 DEF CommandTypeOK, GoTo, Take, Hold, Prints
<1>3. UNCHANGED pc => \A q \in Processes \ {p} : pc'[q] = pc[q]
  OBVIOUS
<1>4. UNCHANGED todo => \A q \in Processes \ {p} : todo'[q] = todo[q]
  OBVIOUS
<1>5. UNCHANGED taken => \A q \in Processes \ {p} : taken'[q] = taken[q]
  OBVIOUS
<1>6. UNCHANGED images => \A q \in Processes \ {p} : images'[q] = images[q]
  OBVIOUS
<1>7. UNCHANGED lines => \A q \in Processes \ {p} : lines'[q] = lines[q]
  OBVIOUS
<1>8. CASE Fail(p) \/ Kill(p)
  BY <1>2, <1>4, <1>5, <1>6, <1>7, <1>8 DEF Fail, Kill, SameFor
<1>9. CASE PairStart(p)
  BY <1>2, <1>4, <1>5, <1>6, <1>7, <1>8, <1>9 DEF PairStart, SameFor
<1>10. CASE PairOriginal(p)
  BY <1>2, <1>7, <1>8, <1>10 DEF PairOriginal, SameFor
<1>11. CASE PairDistorted(p)
  BY <1>2, <1>8, <1>11 DEF PairDistorted, SameFor
<1>12. CASE ManyStart(p)
  BY <1>2, <1>5, <1>6, <1>7, <1>8, <1>12 DEF ManyStart, SameFor
<1>13. CASE ManyOriginal(p)
  BY <1>2, <1>7, <1>8, <1>13 DEF ManyOriginal, SameFor
<1>14. CASE ManyVariant(p)
  BY <1>2, <1>3, <1>7, <1>8, <1>14 DEF ManyVariant, SameFor
<1>15. CASE ManyReport(p)
  BY <1>2, <1>3, <1>4, <1>5, <1>6, <1>7, <1>15 DEF ManyReport, SameFor
<1>16. CASE NormalizeStart(p)
  BY <1>2, <1>5, <1>6, <1>7, <1>8, <1>16 DEF NormalizeStart, SameFor
<1>17. CASE Ingest(p)
  BY <1>2, <1>7, <1>8, <1>17 DEF Ingest, SameFor
<1>18. CASE Create(p)
  BY <1>2, <1>4, <1>5, <1>6, <1>7, <1>8, <1>18 DEF Create, SameFor
<1>19. CASE Encode(p)
  BY <1>2, <1>4, <1>5, <1>6, <1>7, <1>8, <1>19 DEF Encode, SameFor
<1>20. CASE Report(p)
  BY <1>2, <1>4, <1>5, <1>6, <1>20 DEF Report, SameFor
<1> QED BY <1>8, <1>9, <1>10, <1>11, <1>12, <1>13, <1>14, <1>15, <1>16, <1>17, <1>18, <1>19, <1>20
        DEF Step

\* The directories of another normalizer.
LEMMA ApartCommands ==
  ASSUME Apart, CommandTypeOK, NEW p \in Processes, NEW q \in Processes, p # q,
         Command(p).mode = "normalize", Command(q).mode = "normalize"
  PROVE  Command(p).out \notin InputsAndOutputs(Command(q))
BY DEF Apart, CommandTypeOK, Command

LEMMA IngestsTheOriginal ==
  ASSUME CommandInv, NEW p \in Processes, Ingest(p), ~Fail(p), UNCHANGED scenario, FilesInv(p)
  PROVE  FilesInv(p)'
<1> DEFINE h == Head(todo[p])
           n == Len(taken[p])
<1>1. /\ CommandTypeOK /\ pc[p] = "ingest" /\ todo[p] # <<>> /\ ~Collides(p, h)
      /\ Take(p) /\ Hold(p, files[h]) /\ DecodesForIngest(files[h])
      /\ GoTo(p, "create") /\ UNCHANGED <<files, lines>>
  BY DEF CommandInv, Ingest, Next1
<1>2. /\ Command(p).mode = "normalize" /\ NormalizeInv(p) /\ Command(p).inputs \in Seq(Paths)
      /\ n \in Nat /\ Len(images[p]) = n /\ taken[p] \in Seq(Paths) /\ todo[p] \in Seq(Paths)
      /\ Len(lines[p]) = n
  BY <1>1, Normalizer DEF NormalizeInv, CommandTypeOK
<1>3. /\ h \in Paths /\ h = todo[p][1] /\ Len(todo[p]) \in Nat \ {0} /\ Len(taken'[p]) = n + 1
      /\ \A k \in 1..n : taken'[p][k] = taken[p][k]
      /\ taken'[p][n + 1] = h
  BY <1>1, TakeMoves
<1>4. files[h] \in Pictures
  BY <1>1, <1>3, WholeIsPicture DEF DecodesForIngest, CommandTypeOK
<1>5. /\ \A k \in 1..n : images'[p][k] = images[p][k]
      /\ images'[p][n + 1] = files[h]
  <2> HIDE DEF h, n
  <2> QED BY <1>1, <1>2, <1>4, HoldAdds
<1>6. h[1] \in InputsAndOutputs(Command(p))
  <2>1. taken[p] \o todo[p] = Command(p).inputs
    BY <1>1, <1>2 DEF NormalizeInv, Nothing, Queue
  <2>5. n \in Nat /\ Len(todo[p]) \in Nat /\ Len(todo[p]) >= 1
    <3>1. \A m \in Nat \ {0} : m \in Nat /\ m >= 1
      OBVIOUS
    <3> QED BY <1>2, <1>3, <3>1
  <2>6. n + 1 \in 1..n + Len(todo[p]) /\ ~(n + 1 <= n) /\ (n + 1) - n = 1
    <3>1. \A a, b \in Nat : b >= 1 => a + 1 \in 1..a + b /\ ~(a + 1 <= a) /\ (a + 1) - a = 1
      OBVIOUS
    <3> HIDE DEF n, h
    <3> QED BY <2>5, <3>1, Zenon
  <2>2. /\ Len(taken[p] \o todo[p]) = n + Len(todo[p])
        /\ (taken[p] \o todo[p])[n + 1] = todo[p][1]
    <3> HIDE DEF n, h
    <3>1. /\ Len(taken[p] \o todo[p]) = Len(taken[p]) + Len(todo[p])
          /\ \A i \in 1..Len(taken[p]) + Len(todo[p]) : (taken[p] \o todo[p])[i] =
               IF i <= Len(taken[p]) THEN taken[p][i] ELSE todo[p][i - Len(taken[p])]
      BY <1>2, ConcatProperties, Zenon
    <3> QED BY <2>6, <3>1 DEF n
  <2>3. n + 1 \in 1..Len(Command(p).inputs) /\ Command(p).inputs[n + 1] = h
    <3> QED BY <1>3, <2>1, <2>2, <2>6
  <2>4. n + 1 \in DOMAIN Command(p).inputs
    BY <1>2, <2>3, LenProperties
  <2> QED BY <2>3, <2>4 DEF InputsAndOutputs
<1>7. \A k \in 1..n : h # Destination(p, taken[p][k])
  <2> SUFFICES ASSUME NEW k \in 1..n PROVE h # Destination(p, taken[p][k])
    OBVIOUS
  <2>1. k \in DOMAIN taken[p]
    BY <1>2, LenProperties
  <2>2. taken[p][k][2] # h[2]
    BY <1>1, <2>1, Zenon DEF Collides
  <2> QED BY <2>2 DEF Destination
<1>8. files[h] = scenario.files[h]
  BY <1>3, <1>6, <1>7 DEF FilesInv
<1>9. Command(p)' = Command(p) /\ Written(p)' = n /\ Written(p) = n
  BY <1>1, <1>2 DEF Command, Written, GoTo, CommandTypeOK
<1>10. \A k \in 1..n + 1 : k \in 1..n \/ k = n + 1
  BY <1>2
<1>11. \A k \in 1..n + 1 : images'[p][k] = scenario.files[taken'[p][k]]
  <2>1. \A k \in 1..n : images[p][k] = scenario.files[taken[p][k]]
    BY DEF FilesInv
  <2> HIDE DEF n, h
  <2> QED BY <1>3, <1>5, <1>8, <1>10, <2>1
<1>12. \A k \in 1..n : files[<<Command(p).out, taken'[p][k][2]>>] = Normalized(images'[p][k])
  <2>1. \A k \in 1..n : files[<<Command(p).out, taken[p][k][2]>>] = Normalized(images[p][k])
    BY <1>9 DEF FilesInv, Destination
  <2> HIDE DEF n, h
  <2> QED BY <1>3, <1>5, <2>1
<1>13. ASSUME NEW path \in Paths, path[1] \in InputsAndOutputs(Command(p))
       PROVE  \/ \E k \in 1..n + 1 : path = <<Command(p).out, taken'[p][k][2]>>
              \/ files[path] = scenario.files[path]
  <2>1. CASE \E k \in 1..n : path = Destination(p, taken[p][k])
    <3>1. PICK k \in 1..n : path = Destination(p, taken[p][k])
      BY <2>1
    <3>2. k \in 1..n + 1 /\ path = <<Command(p).out, taken'[p][k][2]>>
      BY <1>2, <1>3, <3>1 DEF Destination
    <3> QED BY <3>2
  <2>2. CASE files[path] = scenario.files[path]
    BY <2>2
  <2> QED BY <1>13, <2>1, <2>2 DEF FilesInv
<1> HIDE DEF n, h
<1> QED BY <1>1, <1>3, <1>9, <1>11, <1>12, <1>13 DEF FilesInv, Destination

\* Create and encode write to a path that no line is about.
LEMMA WritesTheNext ==
  ASSUME CommandInv, NEW p \in Processes, UNCHANGED <<scenario, taken, images, lines>>, FilesInv(p),
         \/ /\ pc[p] = "create" /\ pc'[p] = "encode"
            /\ files' = [files EXCEPT ![Destination(p, Last(taken[p]))] = Torn]
         \/ /\ pc[p] = "encode" /\ pc'[p] = "report"
            /\ files' = [files EXCEPT ![Destination(p, Last(taken[p]))] =
                                         Normalized(Last(images[p]))]
  PROVE  FilesInv(p)'
<1> DEFINE n == Len(taken[p])
           dst == Destination(p, Last(taken[p]))
<1>1. /\ CommandTypeOK /\ Command(p).mode = "normalize"
      /\ Len(lines[p]) \in Nat /\ n \in Nat
  BY Normalizer DEF CommandInv
<1>2. /\ Len(lines[p]) + 1 = n /\ n \in 1..n
      /\ Last(taken[p]) = taken[p][n] /\ Last(images[p]) = images[p][n]
      /\ dst \in Paths
  BY LastTaken
<1>3. /\ \A k \in 1..n :
           /\ Destination(p, taken[p][k]) \in Paths
           /\ k # n => Destination(p, taken[p][k]) # dst
  BY <1>1, <1>2, OwnPaths
<1>4. \A path \in Paths : path # dst => files'[path] = files[path]
  BY DEF CommandInv, CommandTypeOK
<1>5. \A k \in 1..Len(lines[p]) : files'[Destination(p, taken[p][k])] = Normalized(images[p][k])
  <2> SUFFICES ASSUME NEW k \in 1..Len(lines[p])
               PROVE  files'[Destination(p, taken[p][k])] = Normalized(images[p][k])
    OBVIOUS
  <2>1. k \in 1..n /\ k # n /\ k \in 1..Written(p)
    BY <1>1, <1>2 DEF Written
  <2>2. files[Destination(p, taken[p][k])] = Normalized(images[p][k])
    BY <2>1 DEF FilesInv
  <2> QED BY <1>3, <1>4, <2>1, <2>2
<1>6. pc'[p] = "report" => files'[Destination(p, taken[p][n])] = Normalized(images[p][n])
  BY <1>1, <1>2 DEF CommandTypeOK
<1>7. \A k \in 1..Written(p)' : files'[Destination(p, taken[p][k])] = Normalized(images[p][k])
  <2>1. CASE pc'[p] = "report"
    <3>1. Written(p)' = n
      BY <2>1 DEF Written
    <3>2. \A k \in 1..n : k \in 1..Len(lines[p]) \/ k = n
      BY <1>1, <1>2
    <3> HIDE DEF n
    <3> QED BY <1>5, <1>6, <2>1, <3>1, <3>2
  <2>2. CASE pc'[p] # "report"
    BY <1>5, <2>2 DEF Written
  <2> QED BY <2>1, <2>2
<1>8. ASSUME NEW path \in Paths, path[1] \in InputsAndOutputs(Command(p))
      PROVE  \/ \E k \in 1..n : path = Destination(p, taken[p][k])
             \/ files'[path] = scenario.files[path]
  <2>1. CASE path = dst
    BY <1>2, <2>1
  <2>2. CASE path # dst
    BY <1>4, <1>8, <2>2 DEF FilesInv
  <2> QED BY <2>1, <2>2
<1>9. Command(p)' = Command(p)
  BY DEF Command
<1>10. \A k \in 1..n : images[p][k] = scenario.files[taken[p][k]]
  BY DEF FilesInv
<1>11. \A k \in 1..Written(p)' :
         files'[<<Command(p).out, taken[p][k][2]>>] = Normalized(images[p][k])
  BY <1>7 DEF Destination
<1>12. \A path \in Paths :
         path[1] \in InputsAndOutputs(Command(p)) =>
           \/ \E k \in 1..n : path = <<Command(p).out, taken[p][k][2]>>
           \/ files'[path] = scenario.files[path]
  BY <1>8 DEF Destination
<1> QED BY <1>9, <1>10, <1>11, <1>12 DEF FilesInv, Destination

LEMMA InitOutputs == Init => OutputsInv
<1> SUFFICES ASSUME Init, NEW p \in Processes PROVE FilesInv(p)
  BY DEF OutputsInv
<1>1. /\ Len(taken[p]) = 0 /\ Len(lines[p]) = 0 /\ pc[p] = "start"
      /\ files = scenario.files
  BY EmptySeq DEF Init
<1>2. Written(p) = 0
  BY <1>1 DEF Written
<1> QED BY <1>1, <1>2 DEF FilesInv

LEMMA StepOfNormalizer ==
  ASSUME CommandInv, NEW p \in Processes, Step(p), Command(p).mode = "normalize"
  PROVE  \/ NormalizeStart(p) \/ Ingest(p) \/ Create(p) \/ Encode(p) \/ Report(p) \/ Kill(p)
<1>1. pc[p] \notin {"original", "distorted", "variants"}
  BY Normalizer DEF NormalizeInv, Ended
<1> QED BY <1>1 DEF Step, PairStart, PairOriginal, PairDistorted, ManyStart, ManyOriginal,
                    ManyVariant, ManyReport

\* A step of the normalizer itself.
LEMMA OwnStep ==
  ASSUME CommandInv, NEW p \in Processes, Command(p).mode = "normalize", FilesInv(p), Step(p),
         UNCHANGED scenario
  PROVE  FilesInv(p)'
<1>1. /\ CommandTypeOK /\ NormalizeInv(p) /\ Len(lines[p]) \in Nat /\ Len(taken[p]) \in Nat
      /\ Written(p) \in Nat
  BY Normalizer, OwnPaths DEF CommandInv
<1>2. CASE Fail(p) \/ Kill(p)
  <2>1. pc'[p] \in {"failed", "killed"} /\ UNCHANGED <<files, taken, images, lines>>
    BY <1>1, <1>2 DEF Fail, Kill, GoTo, CommandTypeOK
  <2>2. Written(p)' = Len(lines[p]) /\ Len(lines[p]) <= Written(p)
    BY <1>1, <2>1 DEF Written, NormalizeInv
  <2> QED BY <1>1, <2>1, <2>2, FilesKept
<1>3. CASE NormalizeStart(p) /\ ~Fail(p)
  <2>1. pc[p] = "start" /\ pc'[p] = "ingest" /\ UNCHANGED <<files, taken, images, lines>>
    BY <1>1, <1>3 DEF NormalizeStart, GoTo, CommandTypeOK
  <2>2. Written(p)' = Written(p)
    BY <2>1 DEF Written
  <2> QED BY <1>1, <2>1, <2>2, FilesKept
<1>4. CASE Ingest(p) /\ ~Fail(p)
  BY <1>4, IngestsTheOriginal
<1>5. CASE Create(p) /\ ~Fail(p)
  <2>1. /\ pc[p] = "create" /\ pc'[p] = "encode" /\ UNCHANGED <<taken, images, lines>>
        /\ files' = [files EXCEPT ![Destination(p, Last(taken[p]))] = Torn]
    BY <1>1, <1>5 DEF Create, GoTo, CommandTypeOK
  <2> QED BY <2>1, WritesTheNext
<1>6. CASE Encode(p) /\ ~Fail(p)
  <2>1. /\ pc[p] = "encode" /\ pc'[p] = "report" /\ UNCHANGED <<taken, images, lines>>
        /\ files' = [files EXCEPT ![Destination(p, Last(taken[p]))] = Normalized(Last(images[p]))]
    BY <1>1, <1>6 DEF Encode, GoTo, CommandTypeOK
  <2> QED BY <2>1, WritesTheNext
<1>7. CASE Report(p)
  <2>1. /\ pc[p] = "report" /\ pc'[p] # "report" /\ UNCHANGED <<files, taken, images>>
    BY <1>1, <1>7 DEF Report, GoTo, CommandTypeOK
  <2>2. lines' = [lines EXCEPT ![p] =
                    Append(@, [name |-> Last(taken[p]), destination |-> Destination(p, Last(taken[p]))])]
    BY <1>7 DEF Report, Prints
  <2>3. Len(lines'[p]) = Len(lines[p]) + 1
    <3> DEFINE line == [name |-> Last(taken[p]), destination |-> Destination(p, Last(taken[p]))]
    <3>1. line \in OutputLines
      BY <2>1, LastTaken DEF OutputLines
    <3>2. Prints(p, line)
      BY <1>7 DEF Report
    <3> HIDE DEF line
    <3> QED BY <1>1, <3>1, <3>2, PrintsAdds
  <2>4. Len(lines[p]) + 1 = Len(taken[p])
    BY <2>1, LastTaken
  <2>5. Written(p)' = Written(p)
    BY <2>1, <2>3, <2>4 DEF Written
  <2> QED BY <1>1, <2>1, <2>5, FilesKept
<1> QED BY <1>2, <1>3, <1>4, <1>5, <1>6, <1>7, StepOfNormalizer

\* A step of another process.
LEMMA StepOfAnother ==
  ASSUME Apart, CommandInv, NEW p \in Processes, NEW q \in Processes, q # p, Step(p),
         Command(q).mode = "normalize", FilesInv(q), UNCHANGED scenario
  PROVE  FilesInv(q)'
<1>1. /\ SameFor(q)
      /\ \/ UNCHANGED files
         \/ /\ pc[p] \in {"create", "encode"}
            /\ \E c : files' = [files EXCEPT ![Destination(p, Last(taken[p]))] = c]
  BY StepWrites
<1>2. Written(q)' = Written(q) /\ Written(q) \in Nat
  BY <1>1, OwnPaths DEF Written, SameFor
<1>3. ASSUME NEW path \in Paths, path[1] \in InputsAndOutputs(Command(q))
      PROVE  files'[path] = files[path]
  <2>1. CASE UNCHANGED files
    BY <2>1
  <2>2. CASE /\ pc[p] \in {"create", "encode"}
             /\ \E c : files' = [files EXCEPT ![Destination(p, Last(taken[p]))] = c]
    <3>1. Command(p).mode = "normalize"
      BY <2>2, Normalizer
    <3>2. Command(p).out \notin InputsAndOutputs(Command(q))
      BY <3>1, ApartCommands DEF CommandInv
    <3>3. path # Destination(p, Last(taken[p]))
      BY <1>3, <3>2 DEF Destination
    <3> QED BY <2>2, <3>3 DEF CommandInv, CommandTypeOK
  <2> QED BY <1>1, <2>1, <2>2
<1> QED BY <1>1, <1>2, <1>3, FilesKept DEF SameFor

LEMMA NextOutputs ==
  ASSUME Apart, CommandInv, OutputsInv, [Next]_vars
  PROVE  OutputsInv'
<1> SUFFICES ASSUME NEW q \in Processes, ~Scores(q)' PROVE FilesInv(q)'
  BY DEF OutputsInv
<1>1. UNCHANGED scenario
  BY DEF Next, vars
<1>2. ~Scores(q) /\ Command(q).mode = "normalize" /\ FilesInv(q)
  BY <1>1 DEF Scores, Command, OutputsInv
<1>3. CASE UNCHANGED vars
  <2>1. /\ taken'[q] = taken[q] /\ images'[q] = images[q] /\ files' = files
        /\ Written(q)' = Written(q) /\ Written(q) \in Nat
    BY <1>2, <1>3, OwnPaths DEF vars, Written
  <2> QED BY <1>1, <1>2, <2>1, FilesKept
<1>4. ASSUME NEW p \in Processes, Step(p) PROVE FilesInv(q)'
  <2>1. CASE q = p
    BY <1>1, <1>2, <1>4, <2>1, OwnStep
  <2>2. CASE q # p
    BY <1>1, <1>2, <1>4, <2>2, StepOfAnother
  <2> QED BY <2>1, <2>2
<1> QED BY <1>3, <1>4 DEF Next

\* The output a line is about.
LEMMA LineIsTrue ==
  ASSUME CommandInv, NEW p \in Processes, Command(p).mode = "normalize", FilesInv(p),
         NEW i \in DOMAIN lines[p]
  PROVE  LET before == scenario.files[lines[p][i].name]
             after == files[lines[p][i].destination]
         IN /\ after.state = "whole" /\ after.pixels = before.pixels
            /\ \A bg \in {1, 5, 9} : AlphaBlend(after, bg) = AlphaBlend(before, bg)
<1> DEFINE before == images[p][i]
<1>1. /\ NormalizeInv(p) /\ Len(lines[p]) \in Nat /\ Len(taken[p]) \in Nat
      /\ Len(images[p]) = Len(taken[p])
      /\ \A k \in 1..Len(taken[p]) : images[p][k] \in Pictures
  BY Normalizer
<1>2. i \in 1..Len(lines[p])
  BY LenProperties DEF CommandInv, CommandTypeOK
<1>3. /\ i \in 1..Len(taken[p]) /\ i \in 1..Written(p)
      /\ lines[p][i] = [name |-> taken[p][i], destination |-> Destination(p, taken[p][i])]
  BY <1>1, <1>2 DEF NormalizeInv, Written
<1>4. /\ before = scenario.files[taken[p][i]] /\ before \in Pictures /\ before.alpha # "real"
      /\ files[Destination(p, taken[p][i])] = Normalized(before)
  BY <1>1, <1>3 DEF FilesInv, NormalizeInv
<1>5. /\ scenario.files[lines[p][i].name] = before
      /\ files[lines[p][i].destination] = Normalized(before)
  BY <1>3, <1>4
<1> HIDE DEF before
<1>6. /\ Normalized(before).pixels = before.pixels /\ Normalized(before).alpha = "none"
      /\ Normalized(before).state = "whole"
  BY <1>4, NormalizedIsPicture
<1> QED BY <1>4, <1>5, <1>6 DEF AlphaBlend

(* main.rs: whatever normalize has reported keeps the pixels of its input, *)
(* even where its output directory is one of its input directories, as     *)
(* long as no other normalize writes to the directories it uses.           *)
THEOREM OutputsAsReported == ASSUME Apart PROVE Spec => []OutputsKeepPixels
<1>1. CommandInv /\ OutputsInv => OutputsKeepPixels
  <2> SUFFICES ASSUME CommandInv, OutputsInv, NEW p \in Processes, ~Scores(p),
                      NEW i \in DOMAIN lines[p]
               PROVE  LET before == scenario.files[lines[p][i].name]
                          after == files[lines[p][i].destination]
                      IN /\ after.state = "whole" /\ after.pixels = before.pixels
                         /\ \A bg \in {1, 5, 9} : AlphaBlend(after, bg) = AlphaBlend(before, bg)
    BY DEF OutputsKeepPixels
  <2>1. FilesInv(p) /\ Command(p).mode = "normalize"
    BY CommandsOf DEF OutputsInv, Scores, CommandInv
  <2> QED BY <2>1, LineIsTrue
<1>2. CommandInv /\ OutputsInv /\ [Next]_vars => OutputsInv'
  BY NextOutputs
<1> QED BY <1>1, <1>2, InitOutputs, CommandInvariant, PTL DEF Spec
=============================================================================
