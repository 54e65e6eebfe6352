---------------------------- MODULE WorkflowProofs ----------------------------
(*****************************************************************************)
(* Proofs about Workflow, for every number of attempts and of deaths of      *)
(* the worker.                                                               *)
(*                                                                           *)
(* The journal is read by a loop over pieces of lines (Events), of any       *)
(* length. Induct proves what such a loop yields: induction as a fact        *)
(* about sets of numbers, from the well-foundedness of their order. What     *)
(* the proofs need of it is EventsConcat: a journal that ends with its       *)
(* line is read up to there, then after it.                                  *)
(*                                                                           *)
(* IInv: All are the events the file holds once what is being written is     *)
(* there. They are numbered from 1 (LinesInv); the last one is the end of    *)
(* the run when the run has a summary (EndInv); each one that completes a    *)
(* stage is of a step that was passed, whose checkpoint is on disk           *)
(* (CheckpointInv); one writes at a time (OneWriter); and the window has     *)
(* shown the lines before Cut and keeps the rest (WindowInv).                *)
(*****************************************************************************)
EXTENDS Workflow, FiniteSetTheorems, SequenceTheorems, WellFoundedInduction, TLAPS

States == {"started", "completed", "failed", "cancelled", "deferred", "interrupted"}
Stages ==
  {"RUN_FINALIZED"} \cup {Program[i].opens : i \in DOMAIN Program}
    \cup {Program[i].closes : i \in DOMAIN Program}
Entry == [seq : Nat, stage : Stages, state : States, attempt : Nat]
Piece == [part : {"head", "rest"}, event : Entry] \cup {Newline}

\* Concatenation and Append are named: the provers do not instantiate what is said
\* of the operators themselves.
Joined(s, t) == s \o t
Longer(s, e) == Append(s, e)

\* What the file holds once what is being written has reached it, and its events.
Full == Joined(journal, writing)
All == Events(Full)

Outcomes == {"failed", "deferred", "cancelled", "completed"}
Solving == {"step", "work", "save", "close"}

TypeOK ==
  /\ journal \in Seq(Piece) /\ writing \in Seq(Piece)
  /\ run \in [interruption : BOOLEAN, summary : Outcomes \cup {"none", "interrupted"},
              last : Stages \cup {"none"}, manifest : BOOLEAN]
  /\ pc \in [at : Solving \cup {"finish", "summarise", "seal", "done", "dead"},
             i : DOMAIN Program, attempt : Nat \ {0}, sequence : Nat,
             outcome : Outcomes \cup {"none"}, last : Stages \cup {"none"}]
  /\ rec \in [at : {"idle", "event", "summary", "seal"}, sequence : Nat,
              last : Stages \cup {"none"}]
  /\ window \in [offset : Nat, tail : Seq(Piece), timeline : Seq(Entry)]

\* A head is at the start of a line, and a rest after its head.
Grammar(ps) ==
  \A i \in DOMAIN ps :
    /\ ps[i].part = "head" => i = 1 \/ ps[i - 1] = Newline
    /\ ps[i].part = "rest" => i > 1 /\ ps[i - 1] = Half("head", ps[i].event)

AtLineStart(ps) == ps = <<>> \/ ps[Len(ps)] = Newline

\* One writes at a time, and nobody once the run has its summary.
OneWriter ==
  /\ rec.at # "idle" => pc.at = "dead"
  /\ pc.at \in {"seal", "done"} => writing = <<>>
  /\ pc.at = "dead" /\ rec.at # "summary" => writing = <<>>
  /\ run.summary # "none" => writing = <<>>

Numbered(es) == \A k \in DOMAIN es : es[k].seq = k

LinesInv ==
  /\ Grammar(Full)
  /\ pc.at # "dead" => AtLineStart(Full)
  /\ Numbered(All)
  /\ pc.at # "dead" => pc.sequence = Len(All)
  /\ rec.at = "event" => rec.sequence = Len(All)

\* How the journal ends
IsFinal(e, state) == e.stage = "RUN_FINALIZED" /\ e.state = state
EndsWith(es, state) == es # <<>> /\ IsFinal(es[Len(es)], state)
NotFinal(es) == \A k \in DOMAIN es : es[k].stage # "RUN_FINALIZED"
InterruptedIsLast(es) == \A k \in DOMAIN es : IsFinal(es[k], "interrupted") => k = Len(es)
NotInterrupted(es) == \A k \in DOMAIN es : ~IsFinal(es[k], "interrupted")

EndInv ==
  /\ pc.at \in {"finish", "summarise", "seal", "done"} => pc.outcome # "none"
  /\ pc.at \in Solving \cup {"finish"} => NotFinal(All)
  /\ pc.at \in Solving \cup {"finish", "summarise"} => run.summary = "none"
  /\ pc.at = "summarise" => EndsWith(All, pc.outcome) /\ pc.last = LastCompleted(All)
  /\ pc.at # "dead" => NotInterrupted(All)
  /\ InterruptedIsLast(All)
  /\ rec.at # "idle" =>
       run.summary \in {"none", "interrupted"} /\ rec.last = LastCompleted(All)
  /\ rec.at \in {"summary", "seal"} => EndsWith(All, "interrupted")
  /\ run.summary # "none" =>
       EndsWith(All, run.summary) /\ run.last = LastCompleted(All)

\* The steps of the solve up to where it is, and their names
Reached(j, a) == a \in Nat \ {0} /\ (j < Loop => a = 1)
Before(j, a, i, attempt) == Reached(j, a) /\ (a < attempt \/ (a = attempt /\ j < i))
Saved(j, a) ==
  Before(j, a, pc.i, pc.attempt) \/ (pc.at = "close" /\ j = pc.i /\ a = pc.attempt)

OnceEach(es) ==
  \A k, m \in Completed(es) :
    k # m => es[m].stage # es[k].stage \/ es[m].attempt # es[k].attempt
HasCheckpoints(es) ==
  \A k \in Completed(es), i \in DOMAIN Program :
    Program[i].closes = es[k].stage /\ Program[i].saves # "none" =>
      NameOf(Program[i], i, es[k].attempt) \in saved

\* A name on disk, and an event that says a stage is complete, are of a step that
\* was passed.
NamesPassed ==
  \A name \in saved :
    \E j \in DOMAIN Program, a \in Nat :
      Saved(j, a) /\ Program[j].saves # "none" /\ name = NameOf(Program[j], j, a)
EventsPassed(es) ==
  \A k \in Completed(es) :
    \E j \in DOMAIN Program :
      /\ Program[j].closes = es[k].stage /\ Program[j].closes # "none"
      /\ Before(j, es[k].attempt, pc.i, pc.attempt)

CheckpointInv ==
  /\ Reached(pc.i, pc.attempt)
  /\ pc.at \in Solving => NamesPassed /\ EventsPassed(All)
  /\ pc.at = "close" /\ Now.saves # "none" => NameOf(Now, pc.i, pc.attempt) \in saved
  /\ OnceEach(All)
  /\ HasCheckpoints(All)

\* The window has shown the lines before Cut, and keeps what follows it.
Cut == window.offset - Len(window.tail)
WindowInv ==
  /\ window.offset <= Len(journal)
  /\ Cut \in 0..window.offset
  /\ window.tail = SubSeq(journal, Cut + 1, window.offset)
  /\ Cut # 0 => journal[Cut] = Newline
  /\ window.timeline = Events(SubSeq(journal, 1, Cut))

IInv == TypeOK /\ OneWriter /\ LinesInv /\ EndInv /\ CheckpointInv /\ WindowInv

-----------------------------------------------------------------------------
Below == {p \in Nat \X Nat : p[1] < p[2]}

\* The order of the numbers is well founded.
LEMMA LessThan == IsWellFoundedOn(Below, Nat)
BY NatLessThanWellFounded DEF OpToRel, Below

\* Induction on the numbers, as a fact about sets of them.
LEMMA Induct ==
  ASSUME NEW S \in SUBSET Nat, 0 \in S, \A n \in S : n + 1 \in S
  PROVE  S = Nat
<1> SUFFICES ASSUME S # Nat PROVE FALSE
  OBVIOUS
<1> DEFINE T == Nat \ S
<1>1. T \subseteq Nat /\ T # {}
  OBVIOUS
<1>2. PICK x \in T : \A y \in T : ~(<<y, x>> \in Below)
  BY <1>1, LessThan, WFMin
<1>3. x \in Nat /\ x # 0 /\ x - 1 \in Nat /\ x - 1 < x
  BY <1>2
<1>4. x - 1 \notin T
  BY <1>2, <1>3 DEF Below
<1>5. x \in S
  BY <1>3, <1>4
<1> QED
  BY <1>2, <1>5

IsReading(ps, n, read) ==
  read = [i \in 0..n |->
            IF i = 0 THEN <<>>
            ELSE IF IsEvent(ps, i) THEN Append(read[i - 1], ps[i].event)
            ELSE read[i - 1]]

\* The pieces can be read one after the other, however many they are.
LEMMA ReadingExists ==
  ASSUME NEW ps, NEW n \in Nat
  PROVE  \E read : IsReading(ps, n, read)
<1> DEFINE S == {m \in Nat : \E read : IsReading(ps, m, read)}
<1>1. 0 \in S
  <2> DEFINE g == [i \in 0..0 |-> <<>>]
  <2>1. IsReading(ps, 0, g)
    BY DEF IsReading
  <2> QED
    BY <2>1
<1>2. ASSUME NEW m \in S PROVE m + 1 \in S
  <2>1. PICK g : IsReading(ps, m, g)
    OBVIOUS
  <2> DEFINE h == [i \in 0..m + 1 |->
                     IF i <= m THEN g[i]
                     ELSE IF IsEvent(ps, i) THEN Append(g[i - 1], ps[i].event)
                     ELSE g[i - 1]]
  <2>2. h = [i \in 0..m + 1 |->
            IF i = 0 THEN <<>>
            ELSE IF IsEvent(ps, i) THEN Append(h[i - 1], ps[i].event)
            ELSE h[i - 1]]
    <3>1. ASSUME NEW i \in 0..m + 1
          PROVE  h[i] = IF i = 0 THEN <<>>
                        ELSE IF IsEvent(ps, i) THEN Append(h[i - 1], ps[i].event)
                        ELSE h[i - 1]
      <4>1. i = 0 \/ (i # 0 /\ i <= m) \/ i = m + 1
        OBVIOUS
      <4>2. CASE i = 0
        BY <4>2, <2>1 DEF IsReading
      <4>3. CASE i # 0 /\ i <= m
        <5>1. i \in 0..m /\ i - 1 \in 0..m /\ i - 1 <= m /\ i - 1 \in 0..m + 1
          BY <4>3
        <5>2. h[i] = g[i] /\ h[i - 1] = g[i - 1]
          BY <5>1, <4>3
        <5>3. g[i] = IF i = 0 THEN <<>>
                     ELSE IF IsEvent(ps, i) THEN Append(g[i - 1], ps[i].event)
                     ELSE g[i - 1]
          BY <5>1, <2>1, Zenon DEF IsReading
        <5> QED
          BY <5>2, <5>3
      <4>4. CASE i = m + 1
        BY <4>4
      <4> QED
        BY <4>1, <4>2, <4>3, <4>4
    <3> QED
      BY <3>1
  <2>3. IsReading(ps, m + 1, h)
    BY <2>2 DEF IsReading
  <2> QED
    BY <2>3
<1>3. S \subseteq Nat
  OBVIOUS
<1> HIDE DEF S
<1>4. S = Nat
  BY <1>1, <1>2, <1>3, Induct
<1> QED
  BY <1>4 DEF S

\* Events is what the reading of the last piece leaves.
LEMMA EventsRead ==
  ASSUME NEW ps, Len(ps) \in Nat
  PROVE  \E read : IsReading(ps, Len(ps), read) /\ Events(ps) = read[Len(ps)]
<1> DEFINE read == CHOOSE f : IsReading(ps, Len(ps), f)
<1>1. IsReading(ps, Len(ps), read)
  BY ReadingExists
<1>2. Events(ps) = read[Len(ps)]
  BY DEF Events, IsReading
<1> QED
  BY <1>1, <1>2

\* One step of a reading.
StepsFrom(ps, n, read) ==
  /\ read[0] = <<>>
  /\ \A i \in 1..n :
       read[i] = IF IsEvent(ps, i) THEN Append(read[i - 1], ps[i].event)
                 ELSE read[i - 1]

\* What one piece adds to what was read.
LEMMA ReadingStep ==
  ASSUME NEW ps, NEW n \in Nat, NEW read, IsReading(ps, n, read)
  PROVE  StepsFrom(ps, n, read)
<1>1. 0 \in 0..n
  OBVIOUS
<1>2. read[0] = <<>>
  BY <1>1, Zenon DEF IsReading
<1>3. ASSUME NEW i \in 1..n
      PROVE  read[i] = IF IsEvent(ps, i) THEN Append(read[i - 1], ps[i].event)
                       ELSE read[i - 1]
  <2>1. i \in 0..n /\ i # 0
    OBVIOUS
  <2>2. read[i] = IF i = 0 THEN <<>>
                  ELSE IF IsEvent(ps, i) THEN Append(read[i - 1], ps[i].event)
                  ELSE read[i - 1]
    BY <2>1, Zenon DEF IsReading
  <2> QED
    BY <2>1, <2>2
<1> QED
  BY <1>2, <1>3 DEF StepsFrom

\* A head carries an event.
LEMMA EventOfHead ==
  ASSUME NEW ps \in Seq(Piece), NEW i \in 1..Len(ps), ps[i].part = "head"
  PROVE  ps[i].event \in Entry /\ ps[i] = Half("head", ps[i].event)
BY DEF Piece, Newline, Half

\* What is read is a sequence of events.
LEMMA ReadingType ==
  ASSUME NEW ps \in Seq(Piece), NEW read, IsReading(ps, Len(ps), read)
  PROVE  \A i \in 0..Len(ps) : read[i] \in Seq(Entry)
<1> DEFINE n == Len(ps)
           S == {i \in Nat : i <= n => read[i] \in Seq(Entry)}
<1>1. n \in Nat
  OBVIOUS
<1>0. StepsFrom(ps, Len(ps), read)
  BY <1>1, ReadingStep
<1>2. 0 \in S
  <2>1. read[0] = <<>>
    BY <1>0 DEF StepsFrom
  <2> QED
    BY <2>1, EmptySeq
<1>3. ASSUME NEW i \in S PROVE i + 1 \in S
  <2> SUFFICES ASSUME i + 1 <= n PROVE read[i + 1] \in Seq(Entry)
    OBVIOUS
  <2>1. i + 1 \in 1..n /\ i + 1 - 1 = i /\ read[i] \in Seq(Entry)
    BY <1>1
  <2>2. read[i + 1] = IF IsEvent(ps, i + 1) THEN Append(read[i], ps[i + 1].event)
                      ELSE read[i]
    BY <1>0, <2>1 DEF StepsFrom
  <2>3. IsEvent(ps, i + 1) => ps[i + 1].event \in Entry
    BY <2>1, EventOfHead DEF IsEvent
  <2> QED
    BY <2>1, <2>2, <2>3
<1>4. S \subseteq Nat
  OBVIOUS
<1> HIDE DEF S
<1>5. S = Nat
  BY <1>2, <1>3, <1>4, Induct
<1>6. ASSUME NEW i \in 0..Len(ps) PROVE read[i] \in Seq(Entry)
  <2>1. i \in Nat /\ i <= Len(ps)
    BY <1>1
  <2> QED
    BY <2>1, <1>5 DEF S
<1> QED
  BY <1>6

\* The events of a journal are a sequence of events.
LEMMA EventsType ==
  ASSUME NEW ps \in Seq(Piece)
  PROVE  Events(ps) \in Seq(Entry)
<1>1. Len(ps) \in Nat
  OBVIOUS
<1>2. PICK read : IsReading(ps, Len(ps), read) /\ Events(ps) = read[Len(ps)]
  BY <1>1, EventsRead
<1> QED
  BY <1>1, <1>2, ReadingType

\* Append and concatenation commute.

\* Appending to a concatenation appends to its second part.
LEMMA LongerJoined ==
  ASSUME NEW S, NEW s \in Seq(S), NEW t \in Seq(S), NEW e \in S
  PROVE  Longer(Joined(s, t), e) = Joined(s, Longer(t, e))
BY DEF Joined, Longer

\* Two readings that agree on what the events are, from a common start.
SameAt(ps, qs, from, m) ==
  /\ m <= Len(ps) /\ from + m <= Len(qs)
  /\ \A i \in 1..m : /\ IsEvent(ps, i) <=> IsEvent(qs, from + i)
                     /\ ps[i] = qs[from + i]

\* Two journals that hold the same pieces from some line on yield the same
\* events there.
LEMMA ReadingsAgree ==
  ASSUME NEW ps \in Seq(Piece), NEW qs \in Seq(Piece), NEW r, NEW s,
         IsReading(ps, Len(ps), r), IsReading(qs, Len(qs), s),
         NEW from \in Nat, NEW m \in Nat, SameAt(ps, qs, from, m),
         NEW start \in Seq(Entry), s[from] = start
  PROVE  \A i \in 0..m : s[from + i] = Joined(start, r[i])
<1> USE DEF Joined, SameAt
<1> DEFINE S == {i \in Nat : i <= m => s[from + i] = start \o r[i]}
<1>0. Len(ps) \in Nat /\ Len(qs) \in Nat
  OBVIOUS
<1>00. StepsFrom(ps, Len(ps), r) /\ StepsFrom(qs, Len(qs), s)
  BY <1>0, ReadingStep
<1>01. \A i \in 0..Len(ps) : r[i] \in Seq(Entry)
  BY ReadingType
<1>1. 0 \in S
  BY <1>00 DEF StepsFrom
<1>2. ASSUME NEW i \in S PROVE i + 1 \in S
  <2> SUFFICES ASSUME i + 1 <= m PROVE s[from + i + 1] = start \o r[i + 1]
    OBVIOUS
  <2>1. /\ i + 1 \in 1..Len(ps) /\ i + 1 - 1 = i /\ i + 1 \in 1..m
        /\ from + i + 1 \in 1..Len(qs) /\ from + i + 1 - 1 = from + i
        /\ from + (i + 1) = from + i + 1
        /\ s[from + i] = start \o r[i]
        /\ Len(ps) \in Nat /\ Len(qs) \in Nat
    OBVIOUS
  <2>2. r[i + 1] = IF IsEvent(ps, i + 1) THEN Append(r[i], ps[i + 1].event)
                   ELSE r[i]
    BY <1>00, <2>1 DEF StepsFrom
  <2>3. s[from + i + 1] = IF IsEvent(qs, from + i + 1)
                          THEN Append(s[from + i], qs[from + i + 1].event)
                          ELSE s[from + i]
    <3>1. PICK j \in 1..Len(qs) : j = from + i + 1 /\ j - 1 = from + i
      BY <2>1
    <3>2. s[j] = IF IsEvent(qs, j) THEN Append(s[j - 1], qs[j].event) ELSE s[j - 1]
      BY <1>00, <3>1 DEF StepsFrom
    <3> QED
      BY <3>1, <3>2
  <2>4. (IsEvent(ps, i + 1) <=> IsEvent(qs, from + i + 1)) /\ ps[i + 1] = qs[from + i + 1]
    BY <2>1
  <2>5. CASE ~IsEvent(ps, i + 1)
    BY <2>1, <2>2, <2>3, <2>4, <2>5
  <2>6. CASE IsEvent(ps, i + 1)
    <3>1. ps[i + 1].event \in Entry
      BY <2>1, <2>6, EventOfHead DEF IsEvent
    <3>2. r[i] \in Seq(Entry)
      <4>1. i \in 0..Len(ps)
        BY <2>1
      <4> QED
        BY <1>01, <4>1
    <3>3. Append(start \o r[i], ps[i + 1].event) = start \o Append(r[i], ps[i + 1].event)
      <4>1. Longer(Joined(start, r[i]), ps[i + 1].event)
              = Joined(start, Longer(r[i], ps[i + 1].event))
        <5> HIDE DEF Joined
        <5> QED
          BY <3>1, <3>2, LongerJoined
      <4> QED
        BY <4>1, Zenon DEF Longer
    <3> QED
      BY <2>1, <2>2, <2>3, <2>4, <2>6, <3>3
  <2> QED
    BY <2>5, <2>6
<1>3. S \subseteq Nat
  OBVIOUS
<1> HIDE DEF S
<1>4. S = Nat
  BY <1>1, <1>2, <1>3, Induct
<1>5. ASSUME NEW i \in 0..m PROVE s[from + i] = start \o r[i]
  <2>1. i \in Nat /\ i <= m
    OBVIOUS
  <2> QED
    BY <2>1, <1>4 DEF S
<1> QED
  BY <1>5

\* An empty journal holds no event.
LEMMA EventsEmpty == Events(<<>>) = <<>>
<1>1. <<>> \in Seq(Piece) /\ Len(<<>>) = 0 /\ Len(<<>>) \in Nat
  BY EmptySeq
<1>2. PICK r : IsReading(<<>>, 0, r) /\ Events(<<>>) = r[0]
  BY <1>1, EventsRead
<1>3. StepsFrom(<<>>, 0, r)
  BY <1>2, ReadingStep
<1> QED
  BY <1>2, <1>3 DEF StepsFrom

\* What is an event is decided by the pieces around it.
LEMMA EventIsLocal ==
  ASSUME NEW ps \in Seq(Piece), NEW qs \in Seq(Piece)
  PROVE  /\ AtLineStart(ps) =>
              /\ \A i \in 1..Len(ps) : IsEvent(ps \o qs, i) <=> IsEvent(ps, i)
              /\ \A i \in 1..Len(qs) : IsEvent(ps \o qs, Len(ps) + i) <=> IsEvent(qs, i)
         /\ Grammar(ps \o qs) =>
              \A i \in 1..Len(ps) - 1 : IsEvent(ps \o qs, i) <=> IsEvent(ps, i)
<1> DEFINE n == Len(ps)
           all == ps \o qs
<1>1. n \in Nat /\ Len(qs) \in Nat /\ Len(all) = n + Len(qs)
  BY LenProperties, ConcatProperties
<1>2. ASSUME NEW i \in 1..n PROVE all[i] = ps[i] /\ ps[i] \in Piece
  BY <1>1, ConcatProperties
<1>3. ASSUME NEW i \in 1..Len(qs) PROVE all[n + i] = qs[i] /\ qs[i] \in Piece
  BY <1>1, ConcatProperties
<1>4. Newline.part # "head" /\ \A e : Newline # Half("rest", e)
  BY DEF Newline, Half
<1> HIDE DEF all, n
<1>5. ASSUME AtLineStart(ps), NEW i \in 1..n PROVE IsEvent(all, i) <=> IsEvent(ps, i)
  <2>1. ps[n] = Newline
    BY <1>1, <1>5 DEF AtLineStart, n
  <2>2. CASE i = n
    BY <2>1, <2>2, <1>1, <1>2, <1>4 DEF IsEvent
  <2>3. CASE i = n - 1
    <3>1. n \in 1..n /\ i + 1 = n
      BY <2>3, <1>1
    <3> QED
      BY <2>1, <3>1, <1>2, <1>4, Zenon DEF IsEvent
  <2>4. CASE i < n - 1
    <3>1. /\ i + 1 \in 1..n /\ i + 2 \in 1..n /\ (i # 1 => i - 1 \in 1..n)
          /\ i + 1 # n /\ i + 1 # Len(all) /\ i < n /\ i < Len(all)
      BY <2>4, <1>1
    <3> QED
      BY <3>1, <1>2, <1>1 DEF IsEvent, n
  <2> QED
    BY <2>2, <2>3, <2>4, <1>1
<1>6. ASSUME AtLineStart(ps), NEW i \in 1..Len(qs)
      PROVE  IsEvent(all, n + i) <=> IsEvent(qs, i)
  <2>1. n = 0 \/ (n \in 1..n /\ ps[n] = Newline)
    BY <1>1, <1>6 DEF AtLineStart, n
  <2>2. n + i = 1 \/ all[(n + i) - 1] = Newline <=> i = 1 \/ qs[i - 1] = Newline
    <3>1. CASE i = 1
      BY <3>1, <2>1, <1>1, <1>2
    <3>2. CASE i # 1
      <4>1. i - 1 \in 1..Len(qs) /\ n + i # 1 /\ n + (i - 1) = (n + i) - 1
        BY <3>2, <1>1
      <4> QED
        BY <3>2, <4>1, <1>3
    <3> QED
      BY <3>1, <3>2
  <2>3. n + i < Len(all) <=> i < Len(qs)
    BY <1>1
  <2>4. i < Len(qs) => all[n + i + 1] = qs[i + 1]
    <3> SUFFICES ASSUME i < Len(qs) PROVE all[n + i + 1] = qs[i + 1]
      OBVIOUS
    <3>1. i + 1 \in 1..Len(qs) /\ n + (i + 1) = n + i + 1
      BY <1>1
    <3> QED
      BY <3>1, <1>3
  <2>5. i < Len(qs) /\ i + 1 # Len(qs) => all[n + i + 2] = qs[i + 2]
    <3> SUFFICES ASSUME i < Len(qs), i + 1 # Len(qs) PROVE all[n + i + 2] = qs[i + 2]
      OBVIOUS
    <3>1. i + 2 \in 1..Len(qs) /\ n + (i + 2) = n + i + 2
      BY <1>1
    <3> QED
      BY <3>1, <1>3
  <2>6. n + i + 1 = Len(all) <=> i + 1 = Len(qs)
    BY <1>1
  <2>7. all[n + i] = qs[i]
    BY <1>3
  <2>8. IsEvent(all, n + i) => IsEvent(qs, i)
    <3> SUFFICES ASSUME IsEvent(all, n + i) PROVE IsEvent(qs, i)
      OBVIOUS
    <3>1. qs[i].part = "head"
      BY <2>7, Zenon DEF IsEvent
    <3>2. i < Len(qs) /\ qs[i + 1] = Half("rest", qs[i].event)
      BY <2>3, <2>4, <2>7, Zenon DEF IsEvent
    <3>3. i = 1 \/ qs[i - 1] = Newline
      BY <2>2, Zenon DEF IsEvent
    <3>4. i + 1 = Len(qs) \/ qs[i + 2] = Newline
      BY <2>3, <2>5, <2>6, Zenon DEF IsEvent
    <3> QED
      BY <3>1, <3>2, <3>3, <3>4, Zenon DEF IsEvent
  <2>9. IsEvent(qs, i) => IsEvent(all, n + i)
    BY <2>2, <2>3, <2>4, <2>5, <2>6, <2>7, Zenon DEF IsEvent
  <2> QED
    BY <2>8, <2>9
<1>7. ASSUME Grammar(all), NEW i \in 1..n - 1 PROVE IsEvent(all, i) <=> IsEvent(ps, i)
  <2>1. /\ i \in 1..n /\ i + 1 \in 1..n /\ (i # 1 => i - 1 \in 1..n)
        /\ i < n /\ i < Len(all)
    BY <1>1
  <2>2. CASE i + 1 < n
    <3>1. i + 2 \in 1..n /\ i + 1 # n /\ i + 1 # Len(all)
      BY <2>2, <1>1
    <3> QED
      BY <2>1, <3>1, <1>2, <1>1 DEF IsEvent, n
  <2>3. CASE i + 1 = n
    <3>1. IsEvent(all, i) => IsEvent(ps, i)
      BY <2>1, <2>3, <1>2 DEF IsEvent, n
    <3>2. ASSUME IsEvent(ps, i) PROVE i + 1 = Len(all) \/ all[i + 2] = Newline
      <4> SUFFICES ASSUME i + 1 # Len(all) PROVE all[i + 2] = Newline
        OBVIOUS
      <4>1. /\ i + 2 \in 1..Len(all) /\ i + 2 = n + 1 /\ 1 \in 1..Len(qs) /\ i + 2 # 1
            /\ i + 2 - 1 = i + 1
        BY <2>1, <2>3, <1>1
      <4>2. all[i + 1].part = "rest"
        <5>1. all[i + 1] = ps[i + 1]
          BY <2>1, <1>2
        <5>2. ps[i + 1] = Half("rest", ps[i].event)
          BY <3>2, Zenon DEF IsEvent
        <5> QED
          BY <5>1, <5>2 DEF Half
      <4>3. all[i + 1] # Newline /\ \A e : all[i + 1] # Half("head", e)
        BY <4>2 DEF Newline, Half
      <4>4. all[i + 2] \in Piece
        BY <4>1, <1>3
      <4>5. i + 2 \in DOMAIN all
        BY <4>1, ConcatProperties DEF all
      <4>6. all[i + 2].part # "head" /\ all[i + 2].part # "rest"
        BY <4>5, <4>1, <4>3, <1>7 DEF Grammar
      <4> QED
        BY <4>4, <4>6 DEF Piece
    <3>3. IsEvent(ps, i) => IsEvent(all, i)
      BY <2>1, <2>3, <3>2, <1>2 DEF IsEvent, n
    <3> QED
      BY <3>1, <3>3
  <2> QED
    BY <2>2, <2>3, <1>1
<1> QED
  BY <1>5, <1>6, <1>7 DEF all, n

\* A journal that ends with its line is read up to there, then after it.
LEMMA EventsConcat ==
  ASSUME NEW ps \in Seq(Piece), NEW qs \in Seq(Piece), AtLineStart(ps)
  PROVE  Events(ps \o qs) = Events(ps) \o Events(qs)
<1> DEFINE n == Len(ps)
           m == Len(qs)
           all == ps \o qs
<1>1. /\ n \in Nat /\ m \in Nat /\ all \in Seq(Piece) /\ Len(all) = n + m
      /\ Len(all) \in Nat /\ n \in 0..n /\ m \in 0..m
      /\ \A i \in 1..n : ps[i] = all[0 + i]
      /\ \A i \in 1..m : qs[i] = all[n + i]
  <2>1. n \in Nat /\ m \in Nat /\ all \in Seq(Piece) /\ Len(all) = n + m
    BY LenProperties, ConcatProperties
  <2>2. n \in 0..n /\ m \in 0..m
    BY <2>1
  <2>3. ASSUME NEW i \in 1..n PROVE ps[i] = all[0 + i]
    BY <2>1, ConcatProperties
  <2>4. ASSUME NEW i \in 1..m PROVE qs[i] = all[n + i]
    BY <2>1, ConcatProperties
  <2> QED
    BY <2>1, <2>2, <2>3, <2>4
<1> HIDE DEF all
<1>2. PICK r : IsReading(ps, Len(ps), r) /\ Events(ps) = r[Len(ps)]
  BY <1>1, EventsRead
<1>3. PICK s : IsReading(qs, Len(qs), s) /\ Events(qs) = s[Len(qs)]
  BY <1>1, EventsRead
<1>4. PICK t : IsReading(all, Len(all), t) /\ Events(all) = t[Len(all)]
  BY <1>1, EventsRead
<1>5. /\ \A i \in 1..n : IsEvent(ps, i) <=> IsEvent(all, 0 + i)
      /\ \A i \in 1..m : IsEvent(qs, i) <=> IsEvent(all, n + i)
  <2>1. \A i \in 1..n : IsEvent(all, i) <=> IsEvent(ps, i)
    BY EventIsLocal, Zenon DEF all
  <2>2. \A i \in 1..m : IsEvent(all, n + i) <=> IsEvent(qs, i)
    BY EventIsLocal, Zenon DEF all
  <2>3. \A i \in 1..n : 0 + i = i
    BY <1>1
  <2> QED
    BY <2>1, <2>2, <2>3, Zenon
<1>6. r[n] \in Seq(Entry) /\ s[m] \in Seq(Entry) /\ <<>> \in Seq(Entry)
  BY <1>2, <1>3, EventsType, EmptySeq
<1>7. t[0] = <<>>
  <2>1. StepsFrom(all, Len(all), t)
    BY <1>1, <1>4, ReadingStep
  <2> QED
    BY <2>1 DEF StepsFrom
<1> HIDE DEF n, m
<1>8. t[n] = r[n]
  <2>1. 0 + n <= Len(all) /\ n <= Len(ps) /\ 0 \in Nat
    BY <1>1 DEF n
  <2>2. SameAt(ps, all, 0, n)
    BY <2>1, <1>1, <1>5, Zenon DEF SameAt
  <2>6. /\ IsReading(ps, Len(ps), r) /\ IsReading(all, Len(all), t)
        /\ all \in Seq(Piece) /\ 0 \in Nat /\ n \in Nat
        /\ <<>> \in Seq(Entry) /\ t[0] = <<>>
    BY <2>1, <1>1, <1>2, <1>4, <1>6, <1>7, Zenon
  <2>5. \A i \in 0..n : t[0 + i] = Joined(<<>>, r[i])
    <3>1. PICK start \in Seq(Entry) : start = <<>>
      BY <2>6
    <3>2. t[0] = start
      BY <2>6, <3>1
    <3>3. \A i \in 0..n : t[0 + i] = Joined(start, r[i])
      BY <2>2, <2>6, <3>2, ReadingsAgree
    <3> QED
      BY <3>1, <3>3
  <2>3. t[0 + n] = Joined(<<>>, r[n]) /\ 0 + n = n
    BY <2>5, <1>1, <1>7
  <2>4. Joined(<<>>, r[n]) = r[n]
    BY <1>6, ConcatEmptySeq DEF Joined
  <2> QED
    BY <2>3, <2>4
<1>9. t[n + m] = r[n] \o s[m]
  <2>1. n + m <= Len(all) /\ m <= Len(qs)
    BY <1>1 DEF m
  <2>2. SameAt(qs, all, n, m)
    BY <2>1, <1>1, <1>5, Zenon DEF SameAt
  <2>4. /\ IsReading(qs, Len(qs), s) /\ IsReading(all, Len(all), t)
        /\ all \in Seq(Piece) /\ m \in Nat /\ n \in Nat
        /\ r[n] \in Seq(Entry) /\ t[n] = r[n]
    BY <1>1, <1>3, <1>4, <1>6, <1>8, Zenon
  <2>3. \A i \in 0..m : t[n + i] = Joined(r[n], s[i])
    BY <2>2, <2>4, ReadingsAgree
  <2> QED
    BY <2>3, <1>1, <1>8 DEF Joined
<1> QED
  BY <1>1, <1>2, <1>3, <1>4, <1>9 DEF n, m, all

\* A line holds its event and ends where a line starts.
LEMMA EventsLine ==
  ASSUME NEW e \in Entry
  PROVE  Events(Line(e)) = <<e>> /\ Line(e) \in Seq(Piece) /\ AtLineStart(Line(e))
<1>1. Half("head", e) \in Piece /\ Half("rest", e) \in Piece /\ Newline \in Piece
  BY DEF Piece, Half
<1>2. /\ Line(e) \in Seq(Piece) /\ Len(Line(e)) = 3
      /\ Line(e)[1] = Half("head", e) /\ Line(e)[2] = Half("rest", e)
      /\ Line(e)[3] = Newline
  BY <1>1 DEF Line
<1>3. PICK r : IsReading(Line(e), 3, r) /\ Events(Line(e)) = r[3]
  <2>1. PICK l : l = Line(e) /\ Len(l) = 3 /\ Len(l) \in Nat
    BY <1>2
  <2>2. \E r : IsReading(l, Len(l), r) /\ Events(l) = r[Len(l)]
    BY <2>1, EventsRead
  <2> QED
    BY <2>1, <2>2
<1>4. StepsFrom(Line(e), 3, r)
  BY <1>3, ReadingStep
<1>5. IsEvent(Line(e), 1)
  BY <1>2 DEF IsEvent, Half
<1>6. ~IsEvent(Line(e), 2) /\ ~IsEvent(Line(e), 3)
  BY <1>2 DEF IsEvent, Half, Newline
<1>7. r[1] = Append(<<>>, Line(e)[1].event)
  BY <1>4, <1>5 DEF StepsFrom
<1>8. r[2] = r[1]
  BY <1>4, <1>6 DEF StepsFrom
<1>9. r[3] = r[2]
  BY <1>4, <1>6 DEF StepsFrom
<1>10. Append(<<>>, Line(e)[1].event) = <<e>>
  BY <1>2 DEF Half
<1> QED
  BY <1>2, <1>3, <1>7, <1>8, <1>9, <1>10 DEF AtLineStart

\* A newline ends what was torn and is no event.
LEMMA EventsNewline ==
  ASSUME NEW ps \in Seq(Piece)
  PROVE  Events(ps \o <<Newline>>) = Events(ps)
<1> DEFINE n == Len(ps)
           all == ps \o <<Newline>>
<1>1. /\ n \in Nat /\ all \in Seq(Piece) /\ Len(all) = n + 1 /\ all[n + 1] = Newline
      /\ \A i \in 1..n : all[i] = ps[i]
  BY DEF Piece
<1> HIDE DEF all
<1>2. PICK r : IsReading(ps, Len(ps), r) /\ Events(ps) = r[Len(ps)]
  BY <1>1, EventsRead
<1>3. PICK t : IsReading(all, Len(all), t) /\ Events(all) = t[Len(all)]
  BY <1>1, EventsRead
<1>4. StepsFrom(ps, n, r) /\ StepsFrom(all, n + 1, t)
  BY <1>1, <1>2, <1>3, ReadingStep
<1>5. Newline.part # "head" /\ \A e : Newline # Half("rest", e)
  BY DEF Newline, Half
<1>6. ASSUME NEW i \in 1..n PROVE IsEvent(all, i) <=> IsEvent(ps, i)
  <2>1. CASE i = n
    <3>1. all[i + 1] = Newline
      BY <2>1, <1>1
    <3>2. ~IsEvent(all, i)
      BY <3>1, <1>5, Zenon DEF IsEvent
    <3>3. ~IsEvent(ps, i)
      BY <2>1, <1>1 DEF IsEvent
    <3> QED
      BY <3>2, <3>3
  <2>2. CASE i = n - 1
    <3>1. /\ i + 1 = n /\ i + 1 \in 1..n /\ (i # 1 => i - 1 \in 1..n) /\ i + 2 = n + 1
          /\ i < Len(ps) /\ i < Len(all)
      BY <2>2, <1>1
    <3> QED
      BY <3>1, <1>1 DEF IsEvent
  <2>3. CASE i < n - 1
    <3>1. /\ i + 1 # n /\ i + 1 \in 1..n /\ (i # 1 => i - 1 \in 1..n)
          /\ i + 2 \in 1..n /\ i + 1 # Len(all) /\ i < Len(ps) /\ i < Len(all)
      BY <2>3, <1>1
    <3> QED
      BY <3>1, <1>1 DEF IsEvent
  <2> QED
    BY <2>1, <2>2, <2>3, <1>1
<1>7. ~IsEvent(all, n + 1)
  BY <1>1, <1>5 DEF IsEvent
<1> DEFINE S == {i \in Nat : i <= n => t[i] = r[i]}
<1>8. 0 \in S
  BY <1>4 DEF StepsFrom
<1>9. ASSUME NEW i \in S PROVE i + 1 \in S
  <2> SUFFICES ASSUME i + 1 <= n PROVE t[i + 1] = r[i + 1]
    OBVIOUS
  <2>1. PICK j \in 1..n : j = i + 1 /\ j - 1 = i /\ j \in 1..n + 1
    BY <1>1
  <2>2. t[j - 1] = r[j - 1]
    BY <2>1
  <2>3. t[j] = IF IsEvent(all, j) THEN Append(t[j - 1], all[j].event) ELSE t[j - 1]
    BY <2>1, <1>4, Zenon DEF StepsFrom
  <2>4. r[j] = IF IsEvent(ps, j) THEN Append(r[j - 1], ps[j].event) ELSE r[j - 1]
    BY <2>1, <1>4, Zenon DEF StepsFrom
  <2>5. t[j] = r[j]
    BY <2>1, <2>2, <2>3, <2>4, <1>1, <1>6, Zenon
  <2> QED
    BY <2>1, <2>5
<1>10. S \subseteq Nat
  OBVIOUS
<1> HIDE DEF S
<1>11. S = Nat
  BY <1>8, <1>9, <1>10, Induct
<1>12. t[n] = r[n]
  <2>1. n \in S /\ n <= n
    BY <1>11, <1>1
  <2> QED
    BY <2>1 DEF S
<1>13. t[n + 1] = t[n]
  <2>1. PICK j \in 1..n + 1 : j = n + 1 /\ j - 1 = n
    BY <1>1
  <2>2. t[j] = IF IsEvent(all, j) THEN Append(t[j - 1], all[j].event) ELSE t[j - 1]
    BY <1>4, Zenon DEF StepsFrom
  <2> QED
    BY <2>1, <2>2, <1>7
<1> QED
  BY <1>1, <1>2, <1>3, <1>12, <1>13 DEF all

\* A sequence that begins with another one
Begins(s, t) ==
  /\ Len(s) <= Len(t)
  /\ \A k \in 1..Len(s) : s[k] = t[k]

\* What was read remains when more is.
LEMMA ReadingGrows ==
  ASSUME NEW ps \in Seq(Piece), NEW r, IsReading(ps, Len(ps), r),
         NEW from \in 0..Len(ps)
  PROVE  \A i \in from..Len(ps) : Begins(r[from], r[i])
<1> DEFINE n == Len(ps)
           S == {i \in Nat : from + i <= n => Begins(r[from], r[from + i])}
<1>1. n \in Nat /\ from \in Nat
  OBVIOUS
<1>2. StepsFrom(ps, Len(ps), r)
  BY <1>1, ReadingStep
<1>3. \A i \in 0..Len(ps) : r[i] \in Seq(Entry)
  BY ReadingType
<1>4. 0 \in S
  BY <1>1, <1>3 DEF Begins
<1>5. ASSUME NEW i \in S PROVE i + 1 \in S
  <2> SUFFICES ASSUME from + (i + 1) <= n PROVE Begins(r[from], r[from + (i + 1)])
    OBVIOUS
  <2>1. PICK j \in 1..n : j = from + (i + 1) /\ j - 1 = from + i /\ j - 1 \in 0..n /\ j \in 0..n
    BY <1>1
  <2>2. Begins(r[from], r[j - 1])
    BY <2>1, <1>1
  <2>3. r[j] = IF IsEvent(ps, j) THEN Append(r[j - 1], ps[j].event) ELSE r[j - 1]
    BY <2>1, <1>2, Zenon DEF StepsFrom
  <2>4. r[j - 1] \in Seq(Entry) /\ r[from] \in Seq(Entry)
    BY <2>1, <1>3
  <2>5. Begins(r[from], Append(r[j - 1], ps[j].event))
    <3>1. /\ Len(Append(r[j - 1], ps[j].event)) = Len(r[j - 1]) + 1
          /\ \A k \in 1..Len(r[j - 1]) : Append(r[j - 1], ps[j].event)[k] = r[j - 1][k]
      BY <2>4
    <3> QED
      BY <2>2, <2>4, <3>1 DEF Begins
  <2>6. Begins(r[from], r[j])
    BY <2>2, <2>3, <2>5
  <2> QED
    BY <2>1, <2>6
<1>6. S \subseteq Nat
  OBVIOUS
<1> HIDE DEF S
<1>7. S = Nat
  BY <1>4, <1>5, <1>6, Induct
<1>8. ASSUME NEW i \in from..Len(ps) PROVE Begins(r[from], r[i])
  <2>1. PICK j \in Nat : from + j = i /\ from + j <= n
    BY <1>1
  <2>2. j \in S
    BY <1>7
  <2> QED
    BY <2>1, <2>2 DEF S
<1> QED
  BY <1>8

\* What is readable stays so, and stays in its place.
LEMMA EventsGrow ==
  ASSUME NEW ps \in Seq(Piece), NEW qs \in Seq(Piece), Grammar(ps \o qs)
  PROVE  Begins(Events(ps), Events(ps \o qs))
<1> DEFINE n == Len(ps)
           all == ps \o qs
<1>1. /\ n \in Nat /\ all \in Seq(Piece) /\ Len(all) = n + Len(qs) /\ Len(qs) \in Nat
      /\ Len(all) \in Nat /\ \A i \in 1..n : all[i] = ps[i]
  BY LenProperties, ConcatProperties
<1>2. \A i \in 1..n - 1 : IsEvent(all, i) <=> IsEvent(ps, i)
  BY EventIsLocal, Zenon
<1> HIDE DEF all
<1>3. PICK r : IsReading(ps, Len(ps), r) /\ Events(ps) = r[Len(ps)]
  BY <1>1, EventsRead
<1>4. PICK t : IsReading(all, Len(all), t) /\ Events(all) = t[Len(all)]
  BY <1>1, EventsRead
<1>5. /\ \A i \in 0..Len(ps) : r[i] \in Seq(Entry)
      /\ \A i \in 0..Len(all) : t[i] \in Seq(Entry)
  BY <1>1, <1>3, <1>4, ReadingType
<1>6. StepsFrom(ps, Len(ps), r) /\ StepsFrom(all, Len(all), t)
  BY <1>1, <1>3, <1>4, ReadingStep
<1>7. CASE n = 0
  <2>1. r[n] = <<>>
    BY <1>7, <1>6 DEF StepsFrom
  <2>2. Events(all) \in Seq(Entry)
    BY <1>1, EventsType
  <2> QED
    BY <2>1, <2>2, <1>3 DEF Begins, all
<1>8. CASE n # 0
  <2>1. PICK m \in Nat : m = n - 1 /\ m + 1 = n /\ m \in 0..Len(all) /\ m \in 0..Len(ps)
    BY <1>8, <1>1
  <2>2. ~IsEvent(ps, n)
    BY <1>1 DEF IsEvent
  <2>3. r[n] = r[m]
    <3>1. PICK j \in 1..Len(ps) : j = n /\ j - 1 = m
      BY <2>1, <1>8, <1>1
    <3>2. r[j] = IF IsEvent(ps, j) THEN Append(r[j - 1], ps[j].event) ELSE r[j - 1]
      BY <1>6, Zenon DEF StepsFrom
    <3> QED
      BY <3>1, <3>2, <2>2
  <2>4. t[m] = r[m]
    <3>1. SameAt(ps, all, 0, m)
      <4>1. m <= Len(ps) /\ 0 + m <= Len(all)
        BY <2>1, <1>1
      <4>2. ASSUME NEW i \in 1..m PROVE (IsEvent(ps, i) <=> IsEvent(all, 0 + i)) /\ ps[i] = all[0 + i]
        <5>1. i \in 1..n - 1 /\ i \in 1..n /\ 0 + i = i
          BY <2>1, <1>1
        <5> QED
          BY <5>1, <1>1, <1>2
      <4> QED
        BY <4>1, <4>2 DEF SameAt
    <3>2. PICK start \in Seq(Entry) : start = <<>>
      BY EmptySeq
    <3>3. t[0] = start /\ 0 \in Nat
      BY <3>2, <1>6 DEF StepsFrom
    <3>4. \A i \in 0..m : t[0 + i] = Joined(start, r[i])
      <4>1. /\ IsReading(ps, Len(ps), r) /\ IsReading(all, Len(all), t)
            /\ all \in Seq(Piece)
        BY <1>1, <1>3, <1>4
      <4> QED
        BY <3>1, <3>3, <4>1, ReadingsAgree
    <3>5. t[0 + m] = Joined(<<>>, r[m]) /\ 0 + m = m
      BY <2>1, <3>2, <3>4
    <3>6. Joined(<<>>, r[m]) = r[m]
      BY <1>5, <2>1, ConcatEmptySeq DEF Joined
    <3> QED
      BY <3>5, <3>6
  <2>5. Begins(t[m], t[Len(all)])
    <3>1. Len(all) \in m..Len(all)
      BY <2>1, <1>1
    <3>2. \A i \in m..Len(all) : Begins(t[m], t[i])
      BY <2>1, <1>1, <1>4, ReadingGrows
    <3> QED
      BY <3>1, <3>2
  <2> QED
    BY <1>3, <1>4, <2>3, <2>4, <2>5 DEF all
<1> QED
  BY <1>7, <1>8

\* A part of a journal is a journal.
LEMMA GrammarPrefix ==
  ASSUME NEW ps \in Seq(Piece), NEW qs \in Seq(Piece), Grammar(ps \o qs)
  PROVE  Grammar(ps)
<1>1. /\ Len(ps) \in Nat /\ Len(qs) \in Nat /\ DOMAIN ps = 1..Len(ps)
      /\ DOMAIN (ps \o qs) = 1..(Len(ps) + Len(qs))
      /\ \A i \in 1..Len(ps) : (ps \o qs)[i] = ps[i]
  BY LenProperties, ConcatProperties
<1>2. ASSUME NEW i \in 1..Len(ps)
      PROVE  /\ ps[i].part = "head" => i = 1 \/ ps[i - 1] = Newline
             /\ ps[i].part = "rest" => i > 1 /\ ps[i - 1] = Half("head", ps[i].event)
  <2>1. i \in 1..(Len(ps) + Len(qs)) /\ (i # 1 => i - 1 \in 1..Len(ps)) /\ (i > 1 <=> i # 1)
    BY <1>1
  <2> QED
    BY <2>1, <1>1 DEF Grammar
<1> QED
  BY <1>1, <1>2 DEF Grammar

\* What a concatenation holds at each place.
LEMMA JoinedAt ==
  ASSUME NEW S, NEW s \in Seq(S), NEW t \in Seq(S)
  PROVE  /\ Len(s) \in Nat /\ Len(t) \in Nat
         /\ Joined(s, t) \in Seq(S)
         /\ Len(Joined(s, t)) = Len(s) + Len(t)
         /\ \A i \in 1..Len(s) + Len(t) :
              Joined(s, t)[i] = IF i <= Len(s) THEN s[i] ELSE t[i - Len(s)]
BY LenProperties, ConcatProperties DEF Joined

\* es is ds and one event more.
Adds(es, ds, e) ==
  /\ Len(es) = Len(ds) + 1
  /\ es[Len(es)] = e
  /\ \A k \in 1..Len(ds) : es[k] = ds[k]

\* A line that is added at the start of a line is one event more.
LEMMA LineAdds ==
  ASSUME NEW ps \in Seq(Piece), NEW e \in Entry, AtLineStart(ps)
  PROVE  /\ Joined(ps, Line(e)) \in Seq(Piece)
         /\ AtLineStart(Joined(ps, Line(e)))
         /\ Grammar(ps) => Grammar(Joined(ps, Line(e)))
         /\ Adds(Events(Joined(ps, Line(e))), Events(ps), e)
<1> DEFINE all == Joined(ps, Line(e))
           n == Len(ps)
<1>1. /\ Line(e) \in Seq(Piece) /\ Len(Line(e)) = 3 /\ Events(Line(e)) = <<e>>
      /\ Line(e)[1] = Half("head", e) /\ Line(e)[2] = Half("rest", e)
      /\ Line(e)[3] = Newline
  BY EventsLine DEF Line
<1>2. /\ n \in Nat /\ all \in Seq(Piece) /\ Len(all) = n + 3 /\ DOMAIN all = 1..n + 3
      /\ DOMAIN ps = 1..n
      /\ \A i \in 1..n : all[i] = ps[i]
      /\ all[n + 1] = Half("head", e) /\ all[n + 2] = Half("rest", e) /\ all[n + 3] = Newline
  <2>1. /\ n \in Nat /\ all \in Seq(Piece) /\ Len(all) = n + 3
        /\ \A i \in 1..n + 3 : all[i] = IF i <= n THEN ps[i] ELSE Line(e)[i - n]
    <3>1. PICK l \in Seq(Piece) : l = Line(e)
      BY <1>1
    <3>2. /\ Len(ps) \in Nat /\ Len(l) \in Nat
          /\ Joined(ps, l) \in Seq(Piece)
          /\ Len(Joined(ps, l)) = Len(ps) + Len(l)
          /\ \A i \in 1..Len(ps) + Len(l) :
               Joined(ps, l)[i] = IF i <= Len(ps) THEN ps[i] ELSE l[i - Len(ps)]
      BY JoinedAt
    <3>3. Len(l) = 3
      BY <3>1, <1>1
    <3> QED
      BY <3>1, <3>2, <3>3, Zenon
  <2>2. DOMAIN all = 1..n + 3 /\ DOMAIN ps = 1..n
    BY <2>1, LenProperties
  <2> HIDE DEF all
  <2>3. \A i \in 1..n : all[i] = ps[i]
    BY <2>1
  <2>4. all[n + 1] = Line(e)[1] /\ all[n + 2] = Line(e)[2] /\ all[n + 3] = Line(e)[3]
    BY <2>1
  <2> QED
    BY <2>1, <2>2, <2>3, <2>4, <1>1
<1>3. Events(all) = Events(ps) \o <<e>>
  BY <1>1, EventsConcat DEF Joined
<1>4. Events(ps) \in Seq(Entry)
  BY EventsType
<1>5. Adds(Events(all), Events(ps), e)
  BY <1>3, <1>4 DEF Adds
<1> HIDE DEF all
<1>6. AtLineStart(all)
  BY <1>2 DEF AtLineStart
<1>7. ASSUME Grammar(ps) PROVE Grammar(all)
  <2> SUFFICES ASSUME NEW i \in 1..n + 3
               PROVE  /\ all[i].part = "head" => i = 1 \/ all[i - 1] = Newline
                      /\ all[i].part = "rest" => i > 1 /\ all[i - 1] = Half("head", all[i].event)
    BY <1>2 DEF Grammar
  <2>1. CASE i \in 1..n
    <3>1. (i # 1 => i - 1 \in 1..n) /\ (i > 1 <=> i # 1)
      BY <2>1, <1>2
    <3> QED
      BY <2>1, <3>1, <1>2, <1>7 DEF Grammar
  <2>2. CASE i = n + 1
    <3>1. n = 0 \/ (n \in 1..n /\ ps[n] = Newline /\ i - 1 = n)
      BY <2>2, <1>2 DEF AtLineStart
    <3>2. all[i].part = "head"
      BY <2>2, <1>2 DEF Half
    <3> QED
      BY <2>2, <3>1, <3>2, <1>2
  <2>3. CASE i = n + 2
    <3>1. all[i].part = "rest" /\ all[i].event = e /\ i > 1 /\ i - 1 = n + 1
      BY <2>3, <1>2 DEF Half
    <3> QED
      BY <2>3, <3>1, <1>2
  <2>4. CASE i = n + 3
    BY <2>4, <1>2 DEF Newline
  <2> QED
    BY <2>1, <2>2, <2>3, <2>4, <1>2
<1> QED
  BY <1>2, <1>5, <1>6, <1>7 DEF all

\* So is a line after a newline that ends what was there.
LEMMA NewlineKeeps ==
  ASSUME NEW ps \in Seq(Piece)
  PROVE  /\ Joined(ps, <<Newline>>) \in Seq(Piece)
         /\ AtLineStart(Joined(ps, <<Newline>>))
         /\ Grammar(ps) => Grammar(Joined(ps, <<Newline>>))
         /\ Events(Joined(ps, <<Newline>>)) = Events(ps)
<1> DEFINE all == Joined(ps, <<Newline>>)
           n == Len(ps)
<1>1. Newline \in Piece /\ Newline.part # "head" /\ Newline.part # "rest"
  BY DEF Piece, Newline
<1>2. /\ n \in Nat /\ all \in Seq(Piece) /\ Len(all) = n + 1 /\ DOMAIN all = 1..n + 1
      /\ DOMAIN ps = 1..n
      /\ \A i \in 1..n : all[i] = ps[i]
      /\ all[n + 1] = Newline
  BY <1>1, LenProperties, ConcatProperties DEF Joined
<1>3. Events(all) = Events(ps)
  BY EventsNewline DEF Joined
<1> HIDE DEF all
<1>4. AtLineStart(all)
  BY <1>2 DEF AtLineStart
<1>5. ASSUME Grammar(ps) PROVE Grammar(all)
  <2> SUFFICES ASSUME NEW i \in 1..n + 1
               PROVE  /\ all[i].part = "head" => i = 1 \/ all[i - 1] = Newline
                      /\ all[i].part = "rest" => i > 1 /\ all[i - 1] = Half("head", all[i].event)
    BY <1>2 DEF Grammar
  <2>1. CASE i \in 1..n
    <3>1. (i # 1 => i - 1 \in 1..n) /\ (i > 1 <=> i # 1)
      BY <2>1, <1>2
    <3> QED
      BY <2>1, <3>1, <1>2, <1>5 DEF Grammar
  <2>2. CASE i = n + 1
    BY <2>2, <1>1, <1>2
  <2> QED
    BY <2>1, <2>2, <1>2
<1> QED
  BY <1>2, <1>3, <1>4, <1>5 DEF all

-----------------------------------------------------------------------------
\* The greatest of some numbers
LEMMA MaxIsGreatest ==
  ASSUME NEW n \in Nat, NEW S \in SUBSET (0..n), S # {}
  PROVE  Max(S) \in S /\ \A x \in S : x <= Max(S)
<1> DEFINE T == {n - x : x \in S}
<1>1. T \subseteq Nat /\ T # {}
  <2>1. PICK x \in S : TRUE
    OBVIOUS
  <2>2. ASSUME NEW x1 \in S PROVE n - x1 \in Nat
    OBVIOUS
  <2> QED
    BY <2>1, <2>2
<1> HIDE DEF T
<1>2. PICK y \in T : \A z \in T : ~(<<z, y>> \in Below)
  BY <1>1, LessThan, WFMin
<1>3. PICK x \in S : y = n - x
  BY <1>2 DEF T
<1>4. \A z \in S : z <= x
  <2> SUFFICES ASSUME NEW z \in S, z > x PROVE FALSE
    OBVIOUS
  <2>1. n - z \in T /\ n - z \in Nat /\ n - x \in Nat /\ n - z < n - x
    BY DEF T
  <2> QED
    BY <2>1, <1>2, <1>3 DEF Below
<1>5. \E m \in S : \A z \in S : m >= z
  BY <1>4
<1>6. Max(S) \in S /\ \A z \in S : Max(S) >= z
  BY <1>5 DEF Max
<1> QED
  BY <1>6

\* An event that completes nothing leaves the last stage as it was.
LEMMA LastCompletedKept ==
  ASSUME NEW es \in Seq(Entry), NEW ds \in Seq(Entry), NEW e,
         Adds(es, ds, e), e.state # "completed"
  PROVE  LastCompleted(es) = LastCompleted(ds)
<1>1. /\ Len(ds) \in Nat /\ Len(es) = Len(ds) + 1 /\ DOMAIN ds = 1..Len(ds)
      /\ DOMAIN es = 1..Len(ds) + 1 /\ es[Len(ds) + 1] = e
      /\ \A k \in 1..Len(ds) : es[k] = ds[k]
  BY DEF Adds
<1>2. Completed(es) = Completed(ds)
  BY <1>1 DEF Completed
<1>3. ASSUME Completed(ds) # {} PROVE Max(Completed(ds)) \in 1..Len(ds)
  <2>1. Completed(ds) \in SUBSET (0..Len(ds)) /\ Completed(ds) \subseteq 1..Len(ds)
    BY <1>1 DEF Completed
  <2> QED
    BY <2>1, <1>1, <1>3, MaxIsGreatest
<1> QED
  BY <1>1, <1>2, <1>3 DEF LastCompleted

\* An event that completes a stage names the last one.
LEMMA LastCompletedAdded ==
  ASSUME NEW es \in Seq(Entry), NEW ds \in Seq(Entry), NEW e,
         Adds(es, ds, e), e.state = "completed"
  PROVE  LastCompleted(es) = e.stage
<1>1. /\ Len(ds) \in Nat /\ Len(es) = Len(ds) + 1
      /\ DOMAIN es = 1..Len(ds) + 1 /\ es[Len(ds) + 1] = e
  BY DEF Adds
<1>2. Len(ds) + 1 \in Completed(es) /\ Completed(es) \in SUBSET (0..Len(ds) + 1)
  BY <1>1 DEF Completed
<1>3. Max(Completed(es)) \in Completed(es) /\ Len(ds) + 1 <= Max(Completed(es))
  <2>1. PICK n \in Nat : n = Len(ds) + 1
    BY <1>1
  <2>2. Completed(es) \in SUBSET (0..n) /\ Completed(es) # {}
    BY <1>2, <2>1
  <2> QED
    BY <1>2, <2>2, MaxIsGreatest
<1>4. Max(Completed(es)) = Len(ds) + 1
  BY <1>1, <1>2, <1>3
<1> QED
  BY <1>1, <1>2, <1>4 DEF LastCompleted

-----------------------------------------------------------------------------
StepSet ==
  {Design[1], Design[2], Design[3], Design[4]}
  \cup {Contracts[1], Contracts[2], Contracts[3], Contracts[4], Contracts[5]}
  \cup {Attempt[1], Attempt[2], Attempt[3], Attempt[4], Attempt[5], Attempt[6]}

\* A function on 1..n is a sequence of its values.
LEMMA IsSeq ==
  ASSUME NEW S, NEW s, NEW n \in Nat, s = [i \in 1..n |-> s[i]], \A i \in 1..n : s[i] \in S
  PROVE  s \in Seq(S)
OBVIOUS

\* The steps of a solve, in parts.
LEMMA ProgramIs ==
  /\ Program \in Seq(StepSet) /\ Len(Program) = 15 /\ DOMAIN Program = 1..15
  /\ Loop = 10 /\ Planned = 9 /\ Evaluated = 13
  /\ \A i \in 1..4 : Program[i] = Design[i]
  /\ \A i \in 1..5 : Program[4 + i] = Contracts[i]
  /\ \A i \in 1..6 : Program[9 + i] = Attempt[i]
<1>1. Design \in Seq(StepSet) /\ Len(Design) = 4
  <2>1. Len(Design) = 4 /\ DOMAIN Design = 1..4 /\ Design = [i \in 1..4 |-> Design[i]]
    BY DEF Design
  <2>2. \A i \in 1..4 : Design[i] \in StepSet
    BY DEF StepSet
  <2> QED
    BY <2>1, <2>2, IsSeq
<1>2. Contracts \in Seq(StepSet) /\ Len(Contracts) = 5
  <2>1. Len(Contracts) = 5 /\ DOMAIN Contracts = 1..5 /\ Contracts = [i \in 1..5 |-> Contracts[i]]
    BY DEF Contracts
  <2>2. \A i \in 1..5 : Contracts[i] \in StepSet
    BY DEF StepSet
  <2> QED
    BY <2>1, <2>2, IsSeq
<1>3. Attempt \in Seq(StepSet) /\ Len(Attempt) = 6
  <2>1. Len(Attempt) = 6 /\ DOMAIN Attempt = 1..6 /\ Attempt = [i \in 1..6 |-> Attempt[i]]
    BY DEF Attempt
  <2>2. \A i \in 1..6 : Attempt[i] \in StepSet
    BY DEF StepSet
  <2> QED
    BY <2>1, <2>2, IsSeq
<1>4. PICK a \in Seq(StepSet) : a = Joined(Design, Contracts) /\ Len(a) = 9
        /\ \A i \in 1..9 : a[i] = IF i <= 4 THEN Design[i] ELSE Contracts[i - 4]
  <2>1. /\ Joined(Design, Contracts) \in Seq(StepSet)
        /\ Len(Joined(Design, Contracts)) = Len(Design) + Len(Contracts)
        /\ \A i \in 1..Len(Design) + Len(Contracts) :
             Joined(Design, Contracts)[i] =
               IF i <= Len(Design) THEN Design[i] ELSE Contracts[i - Len(Design)]
    BY <1>1, <1>2, JoinedAt
  <2> QED
    BY <2>1, <1>1, <1>2
<1>5. /\ Joined(a, Attempt) \in Seq(StepSet) /\ Len(Joined(a, Attempt)) = 15
      /\ \A i \in 1..15 : Joined(a, Attempt)[i] = IF i <= 9 THEN a[i] ELSE Attempt[i - 9]
  <2>1. /\ Joined(a, Attempt) \in Seq(StepSet)
        /\ Len(Joined(a, Attempt)) = Len(a) + Len(Attempt)
        /\ \A i \in 1..Len(a) + Len(Attempt) :
             Joined(a, Attempt)[i] = IF i <= Len(a) THEN a[i] ELSE Attempt[i - Len(a)]
    <3>1. a \in Seq(StepSet) /\ Attempt \in Seq(StepSet)
      BY <1>3
    <3> QED
      BY <3>1, JoinedAt
  <2>2. Len(a) = 9 /\ Len(Attempt) = 6 /\ 9 + 6 = 15
    BY <1>3, <1>4
  <2> QED
    BY <2>1, <2>2
<1>6. Program = Joined(a, Attempt)
  BY <1>4 DEF Program, Joined
<1>7. Loop = 10 /\ Planned = 9 /\ Evaluated = 13
  BY <1>1, <1>2 DEF Loop, Planned, Evaluated
<1>8. Program \in Seq(StepSet) /\ Len(Program) = 15 /\ DOMAIN Program = 1..15
  BY <1>5, <1>6
<1>9. /\ \A i \in 1..4 : Program[i] = Design[i]
      /\ \A i \in 1..5 : Program[4 + i] = Contracts[i]
      /\ \A i \in 1..6 : Program[9 + i] = Attempt[i]
  <2>1. \A i \in 1..15 : Program[i] = IF i <= 9 THEN a[i] ELSE Attempt[i - 9]
    BY <1>5, <1>6
  <2>2. ASSUME NEW i \in 1..4 PROVE Program[i] = Design[i]
    BY <2>1, <1>4
  <2>3. ASSUME NEW i \in 1..5 PROVE Program[4 + i] = Contracts[i]
    BY <2>1, <1>4
  <2>4. ASSUME NEW i \in 1..6 PROVE Program[9 + i] = Attempt[i]
    BY <2>1
  <2> QED
    BY <2>2, <2>3, <2>4
<1> QED
  BY <1>7, <1>8, <1>9

\* The steps of a solve, one by one.
LEMMA ProgramSteps ==
  /\ Program[1] = Step("none", "none", "CONTEXT_READY")
  /\ Program[2] = Step("INTERPRETING_INTENT", "simulation-intent", "INTERPRETING_INTENT")
  /\ Program[3] = Step("DESIGNING_CASE", "case-design-proposal", "DESIGNING_CASE")
  /\ Program[4] = Step("none", "risk-decision", "none")
  /\ Program[5] = Advance("ACCEPTANCE_COMPILED", "acceptance-plan")
  /\ Program[6] = Advance("OBSERVATION_PLANNED", "observation-plan")
  /\ Program[7] = Step("MODEL_GENERATION_STARTED", "none", "none")
  /\ Program[8] = Advance("CASE_AUTHORED", "case-authored")
  /\ Program[9] = Step("none", "active-plan", "PLAN_READY")
  /\ Program[10] = Step("none", "none", "STATIC_INSPECTION_COMPLETE")
  /\ Program[11] = Step("none", "run-assessment", "RUN_ASSESSED")
  /\ Program[12] = Advance("POSTPROCESSED", "derived-metrics")
  /\ Program[13] = Advance("ACCEPTANCE_EVALUATED", "result-report")
  /\ Program[14] = Step("none", "repair-evidence", "none")
  /\ Program[15] = Step("MODEL_REPAIR_STARTED", "active-plan", "REPAIR_APPLIED")
<1>1. /\ Program[4 + 1] = Contracts[1] /\ Program[4 + 2] = Contracts[2]
      /\ Program[4 + 3] = Contracts[3] /\ Program[4 + 4] = Contracts[4]
      /\ Program[4 + 5] = Contracts[5]
  BY ProgramIs
<1>2. /\ Program[9 + 1] = Attempt[1] /\ Program[9 + 2] = Attempt[2]
      /\ Program[9 + 3] = Attempt[3] /\ Program[9 + 4] = Attempt[4]
      /\ Program[9 + 5] = Attempt[5] /\ Program[9 + 6] = Attempt[6]
  BY ProgramIs
<1>3. /\ Program[1] = Design[1] /\ Program[2] = Design[2]
      /\ Program[3] = Design[3] /\ Program[4] = Design[4]
  BY ProgramIs
<1>4. /\ Program[1] = Step("none", "none", "CONTEXT_READY")
  /\ Program[2] = Step("INTERPRETING_INTENT", "simulation-intent", "INTERPRETING_INTENT")
  /\ Program[3] = Step("DESIGNING_CASE", "case-design-proposal", "DESIGNING_CASE")
  /\ Program[4] = Step("none", "risk-decision", "none")
  BY <1>3 DEF Design
<1>5. /\ Program[5] = Advance("ACCEPTANCE_COMPILED", "acceptance-plan")
  /\ Program[6] = Advance("OBSERVATION_PLANNED", "observation-plan")
  /\ Program[7] = Step("MODEL_GENERATION_STARTED", "none", "none")
  /\ Program[8] = Advance("CASE_AUTHORED", "case-authored")
  /\ Program[9] = Step("none", "active-plan", "PLAN_READY")
  BY <1>1 DEF Contracts
<1>6. /\ Program[10] = Step("none", "none", "STATIC_INSPECTION_COMPLETE")
  /\ Program[11] = Step("none", "run-assessment", "RUN_ASSESSED")
  /\ Program[12] = Advance("POSTPROCESSED", "derived-metrics")
  /\ Program[13] = Advance("ACCEPTANCE_EVALUATED", "result-report")
  /\ Program[14] = Step("none", "repair-evidence", "none")
  /\ Program[15] = Step("MODEL_REPAIR_STARTED", "active-plan", "REPAIR_APPLIED")
  BY <1>2 DEF Attempt
<1> QED
  BY <1>4, <1>5, <1>6

\* No two steps close the same stage, or save the same checkpoint, but for the plan
\* and the plan of the repair; none is the final event.
LEMMA ProgramDistinct ==
  ASSUME NEW i \in 1..15, NEW j \in 1..15
  PROVE  /\ Program[i].closes = Program[j].closes /\ Program[i].closes # "none" => i = j
         /\ Program[i].saves = Program[j].saves /\ Program[i].saves # "none" =>
              i = j \/ (i = Planned /\ j = 15) \/ (i = 15 /\ j = Planned)
         /\ Program[i].closes # "RUN_FINALIZED" /\ Program[i].opens # "RUN_FINALIZED"
<1>1. \A k \in 1..15 : k \in {1,2,3,4,5,6,7,8,9,10,11,12,13,14,15}
  OBVIOUS
<1>2. Planned = 9
  BY ProgramIs
<1> QED
  BY <1>1, <1>2, ProgramSteps DEF Step, Advance

-----------------------------------------------------------------------------
(* What a step does to the lines.                                          *)

\* What the file will hold is a sequence of pieces, and its events are events.
LEMMA FullType == ASSUME TypeOK PROVE Full \in Seq(Piece) /\ All \in Seq(Entry)
<1>1. Full \in Seq(Piece)
  BY JoinedAt DEF TypeOK, Full
<1> QED
  BY <1>1, EventsType DEF All

\* What is not being written is on disk.
LEMMA FullIsJournal == ASSUME TypeOK, writing = <<>> PROVE Full = journal
BY ConcatEmptySeq DEF TypeOK, Full, Joined

\* An event of the process is added to the events there are.
LEMMA RecordAdds ==
  ASSUME TypeOK, Grammar(Full), AtLineStart(Full), writing = <<>>,
         NEW e \in Entry, journal' = journal, writing' = Line(e)
  PROVE  Grammar(Full)' /\ AtLineStart(Full)' /\ Adds(All', All, e)
<1>1. Full = journal /\ Full \in Seq(Piece)
  BY FullIsJournal, FullType
<1>2. Full' = Joined(Full, Line(e))
  BY <1>1 DEF Full
<1>3. /\ AtLineStart(Joined(Full, Line(e))) /\ Grammar(Joined(Full, Line(e)))
      /\ Adds(Events(Joined(Full, Line(e))), Events(Full), e)
  BY <1>1, LineAdds
<1> QED
  BY <1>2, <1>3 DEF All, Grammar, AtLineStart

\* So is the event of a recovery, which first ends the line.
LEMMA RecoveryAdds ==
  ASSUME TypeOK, Grammar(Full), writing = <<>>, NEW e \in Entry,
         journal' = journal, writing' = Separator \o Line(e)
  PROVE  Grammar(Full)' /\ Adds(All', All, e)
<1>1. Full = journal /\ Full \in Seq(Piece) /\ journal \in Seq(Piece)
  BY FullIsJournal, FullType DEF TypeOK
<1>2. Line(e) \in Seq(Piece)
  BY EventsLine
<1>3. CASE journal # <<>> /\ Last(journal) # Newline
  <2>1. Separator = <<Newline>>
    BY <1>3 DEF Separator
  <2>2. PICK ended \in Seq(Piece) :
          /\ ended = Joined(journal, <<Newline>>) /\ AtLineStart(ended) /\ Grammar(ended)
          /\ Events(ended) = Events(journal)
    BY <1>1, NewlineKeeps
  <2>3. Grammar(Joined(ended, Line(e))) /\ Adds(Events(Joined(ended, Line(e))), Events(ended), e)
    BY <2>2, LineAdds
  <2>4. <<Newline>> \in Seq(Piece)
    BY DEF Piece
  <2>5. Joined(journal, Joined(<<Newline>>, Line(e))) = Joined(Joined(journal, <<Newline>>), Line(e))
    BY <1>1, <1>2, <2>4, ConcatAssociative DEF Joined
  <2>6. Full' = Joined(ended, Line(e))
    BY <2>1, <2>2, <2>5 DEF Full, Joined
  <2> QED
    BY <1>1, <2>2, <2>3, <2>6 DEF All, Grammar
<1>4. CASE ~(journal # <<>> /\ Last(journal) # Newline)
  <2>1. Separator = <<>>
    BY <1>4 DEF Separator
  <2>2. AtLineStart(journal)
    BY <1>4 DEF AtLineStart, Last
  <2>3. Grammar(Joined(journal, Line(e))) /\ Adds(Events(Joined(journal, Line(e))), Events(journal), e)
    BY <1>1, <2>2, LineAdds
  <2>4. Joined(<<>>, Line(e)) = Line(e)
    BY <1>2, ConcatEmptySeq DEF Joined
  <2>5. Full' = Joined(journal, Line(e))
    BY <2>1, <2>4 DEF Full, Joined
  <2> QED
    BY <1>1, <2>3, <2>5 DEF All, Grammar
<1> QED
  BY <1>3, <1>4

\* What reaches the file was being written.
LEMMA WriteKeeps ==
  ASSUME TypeOK, Write
  PROVE  /\ Full' = Full
         /\ journal' \in Seq(Piece) /\ writing' \in Seq(Piece)
         /\ writing # <<>> /\ Begins(journal, journal')
<1>1. PICK k \in DOMAIN writing :
        /\ journal' = Joined(journal, SubSeq(writing, 1, k))
        /\ writing' = SubSeq(writing, k + 1, Len(writing))
  BY DEF Write, Joined
<1>2. journal \in Seq(Piece) /\ writing \in Seq(Piece) /\ writing # <<>>
  BY DEF TypeOK, Write
<1>3. k \in Nat /\ 1 <= k /\ k <= Len(writing) /\ Len(writing) \in Nat
  BY <1>2
<1>4. SubSeq(writing, 1, k) \in Seq(Piece) /\ writing' \in Seq(Piece)
  BY <1>1, <1>2, <1>3, SubSeqProperties
<1>5. SubSeq(writing, 1, k) \o SubSeq(writing, k + 1, Len(writing)) = writing
  <2>1. SubSeq(writing, 1, Len(writing)) = writing
    BY <1>2
  <2>2. /\ 1 \in 1..Len(writing) + 1 /\ k \in 1 - 1..Len(writing)
        /\ Len(writing) \in k..Len(writing)
    BY <1>3
  <2>3. SubSeq(writing, 1, k) \o SubSeq(writing, k + 1, Len(writing))
          = SubSeq(writing, 1, Len(writing))
    BY <1>2, <2>2, ConcatAdjacentSubSeq
  <2> QED
    BY <2>1, <2>3
<1>6. Full' = Full
  <2>1. PICK a \in Seq(Piece), b \in Seq(Piece) :
          a = SubSeq(writing, 1, k) /\ b = writing' /\ a \o b = writing
    BY <1>1, <1>4, <1>5
  <2>2. (journal \o a) \o b = journal \o (a \o b)
    BY <1>2, ConcatAssociative
  <2> QED
    BY <1>1, <2>1, <2>2 DEF Full, Joined
<1>7. PICK a \in Seq(Piece) : a = SubSeq(writing, 1, k)
  BY <1>4
<1>8. /\ journal' = Joined(journal, a) /\ Joined(journal, a) \in Seq(Piece)
      /\ Len(Joined(journal, a)) = Len(journal) + Len(a)
      /\ Len(journal) \in Nat /\ Len(a) \in Nat
      /\ \A i \in 1..Len(journal) + Len(a) :
           Joined(journal, a)[i] = IF i <= Len(journal) THEN journal[i] ELSE a[i - Len(journal)]
  BY <1>1, <1>2, <1>7, JoinedAt
<1>9. Begins(journal, Joined(journal, a))
  BY <1>8 DEF Begins
<1> QED
  BY <1>2, <1>4, <1>6, <1>8, <1>9

\* What a dead process had not written is lost.
LEMMA DeathCuts ==
  ASSUME TypeOK, Grammar(Full), journal' = journal, writing' = <<>>
  PROVE  Full' = journal /\ Grammar(Full)' /\ Begins(All', All)
<1>1. journal \in Seq(Piece) /\ writing \in Seq(Piece)
  BY DEF TypeOK
<1>2. Full' = journal
  BY <1>1, ConcatEmptySeq DEF Full, Joined
<1>3. Grammar(journal)
  BY <1>1, GrammarPrefix DEF Full, Joined
<1>4. Begins(Events(journal), Events(Full))
  BY <1>1, EventsGrow DEF Full, Joined
<1> QED
  BY <1>2, <1>3, <1>4 DEF All, Grammar

\* The events that can be read are a beginning of those that are written.
LEMMA JournalBegins ==
  ASSUME TypeOK, Grammar(Full)
  PROVE  Begins(Events(journal), All) /\ Events(journal) \in Seq(Entry)
<1>1. journal \in Seq(Piece) /\ writing \in Seq(Piece)
  BY DEF TypeOK
<1>2. Begins(Events(journal), Events(Full))
  BY <1>1, EventsGrow DEF Full, Joined
<1> QED
  BY <1>1, <1>2, EventsType DEF All

-----------------------------------------------------------------------------
(* Types.                                                                  *)

PcType == [at : Solving \cup {"finish", "summarise", "seal", "done", "dead"},
           i : DOMAIN Program, attempt : Nat \ {0}, sequence : Nat,
           outcome : Outcomes \cup {"none"}, last : Stages \cup {"none"}]

\* What is written is a sequence of pieces.
LEMMA PieceTypes ==
  ASSUME NEW e \in Entry
  PROVE  Line(e) \in Seq(Piece) /\ <<Newline>> \o Line(e) \in Seq(Piece)
                               /\ <<>> \o Line(e) \in Seq(Piece)
<1>1. Line(e) \in Seq(Piece) /\ <<Newline>> \in Seq(Piece) /\ <<>> \in Seq(Piece)
  BY EventsLine, EmptySeq DEF Piece
<1> QED
  BY <1>1, ConcatProperties

\* The last event of a run is an event.
LEMMA FinalType ==
  ASSUME NEW n \in Nat, NEW state \in States
  PROVE  Final(n + 1, state) \in Entry
BY DEF Final, Entry, Stages

\* The last stage that was completed is a stage, or none.
LEMMA LastTypes ==
  ASSUME NEW es \in Seq(Entry)
  PROVE  LastCompleted(es) \in Stages \cup {"none"}
<1>1. CASE Completed(es) = {}
  BY <1>1 DEF LastCompleted
<1>2. CASE Completed(es) # {}
  <2>1. Len(es) \in Nat /\ Completed(es) \in SUBSET (0..Len(es)) /\ Completed(es) \subseteq 1..Len(es)
    BY DEF Completed
  <2>2. Max(Completed(es)) \in 1..Len(es)
    BY <2>1, <1>2, MaxIsGreatest
  <2>3. es[Max(Completed(es))] \in Entry
    BY <2>2
  <2> QED
    BY <2>3, <1>2 DEF LastCompleted, Entry
<1> QED
  BY <1>1, <1>2

\* The next number is one more than the events that can be read.
LEMMA SequenceIs ==
  ASSUME TypeOK, NEW es \in Seq(Entry), es = Events(journal), Numbered(es)
  PROVE  LastSequence(journal) = Len(es) /\ LastSequence(journal) \in Nat
<1>1. Len(es) \in Nat /\ (es # <<>> => Len(es) \in DOMAIN es)
  OBVIOUS
<1> QED
  BY <1>1 DEF LastSequence, Numbered, Last

\* Recording an event starts to write its line.
LEMMA RecordType ==
  ASSUME TypeOK, NEW stage \in Stages, NEW state \in States, NEW next \in PcType,
         Record(stage, state, next)
  PROVE  /\ writing' \in Seq(Piece) /\ journal' = journal
         /\ pc' \in PcType
         /\ run' = run /\ rec' = rec /\ window' = window
         /\ \E e \in Entry :
              /\ e = [seq |-> pc.sequence + 1, stage |-> stage, state |-> state,
                      attempt |-> pc.attempt]
              /\ writing' = Line(e)
<1>1. [seq |-> pc.sequence + 1, stage |-> stage, state |-> state,
       attempt |-> pc.attempt] \in Entry
  BY DEF TypeOK, Entry
<1>2. pc.sequence + 1 \in Nat
  BY DEF TypeOK
<1>3. pc' \in PcType
  BY <1>2 DEF Record, PcType
<1> QED
  BY <1>1, <1>3, PieceTypes DEF Record, Rest

\* What a step may come to
Next1 == [pc EXCEPT !.at = "step", !.i = @ + 1]

\* Where a solve goes after a step is a place of a solve.
LEMMA AfterType ==
  ASSUME TypeOK
  PROVE  /\ After \subseteq PcType
         /\ \A outcome \in Outcomes : Finishing(outcome) \in PcType
         /\ \A at \in Solving : [pc EXCEPT !.at = at] \in PcType
         /\ \A next \in After :
              \/ pc.i # 15 /\ next = Next1
              \/ pc.i = 15 /\ next = [Next1 EXCEPT !.i = 10, !.attempt = @ + 1]
              \/ pc.i \in {9, 13} /\ \E outcome \in {"completed", "failed"} : next = Finishing(outcome)
<1>1. pc \in PcType /\ DOMAIN Program = 1..15 /\ Loop = 10 /\ Planned = 9 /\ Evaluated = 13
      /\ Len(Program) = 15
  BY ProgramIs DEF TypeOK, PcType
<1>2. \A outcome \in Outcomes : Finishing(outcome) \in PcType
  BY <1>1 DEF Finishing, PcType
<1>3. \A at \in Solving : [pc EXCEPT !.at = at] \in PcType
  BY <1>1 DEF PcType
<1>4. pc.i \in 1..15 /\ pc.attempt + 1 \in Nat \ {0} /\ "step" \in Solving /\ 10 \in 1..15
  BY <1>1 DEF PcType, Solving
<1>5. pc.i # 15 => Next1 \in PcType
  <2>1. pc.i # 15 => pc.i + 1 \in 1..15
    BY <1>4
  <2> QED
    BY <1>1, <1>4, <2>1 DEF PcType, Next1
<1>6. [Next1 EXCEPT !.i = 10, !.attempt = @ + 1] \in PcType
  BY <1>1, <1>4 DEF PcType, Next1
<1>7. Finishing("completed") \in PcType /\ Finishing("failed") \in PcType
  BY <1>2 DEF Outcomes
<1>8. ASSUME NEW next \in After
      PROVE  \/ pc.i # 15 /\ next = Next1
             \/ pc.i = 15 /\ next = [Next1 EXCEPT !.i = 10, !.attempt = @ + 1]
             \/ pc.i \in {9, 13} /\ \E outcome \in {"completed", "failed"} : next = Finishing(outcome)
  <2>1. CASE pc.i = 9
    <3>1. After = {Next1, Finishing("completed"), Finishing("failed")}
      BY <2>1, <1>1 DEF After, Next1
    <3> QED
      BY <3>1, <2>1
  <2>2. CASE pc.i = 13
    <3>1. After \subseteq {Next1, Finishing("completed"), Finishing("failed")}
      BY <2>2, <1>1 DEF After, Next1
    <3> QED
      BY <3>1, <2>2
  <2>3. CASE pc.i = 15
    <3>1. After = {[Next1 EXCEPT !.i = 10, !.attempt = @ + 1]}
      BY <2>3, <1>1 DEF After, Next1
    <3> QED
      BY <3>1, <2>3
  <2>4. CASE pc.i \notin {9, 13, 15}
    <3>1. After = {Next1}
      BY <2>4, <1>1 DEF After, Next1
    <3> QED
      BY <3>1, <2>4
  <2> QED
    BY <2>1, <2>2, <2>3, <2>4
<1>9. After \subseteq PcType
  BY <1>8, <1>5, <1>6, <1>7
<1> QED
  BY <1>2, <1>3, <1>8, <1>9

\* The step a solve is at opens and closes stages.
LEMMA NowType ==
  ASSUME TypeOK
  PROVE  Now.opens \in Stages /\ Now.closes \in Stages
BY DEF TypeOK, Now, Stages

-----------------------------------------------------------------------------
(* What is added to, or taken from, the end of the events.                 *)

\* What a journal of one more event holds.
LEMMA Added ==
  ASSUME NEW es \in Seq(Entry), NEW ds \in Seq(Entry), NEW e, Adds(es, ds, e)
  PROVE  /\ Len(ds) \in Nat /\ Len(es) = Len(ds) + 1
         /\ DOMAIN ds = 1..Len(ds) /\ DOMAIN es = 1..Len(ds) + 1
         /\ es[Len(ds) + 1] = e /\ \A k \in 1..Len(ds) : es[k] = ds[k]
         /\ \A k \in DOMAIN es : k = Len(ds) + 1 \/ k \in DOMAIN ds
BY DEF Adds

\* An event with the next number leaves the journal numbered.
LEMMA NumberedAdded ==
  ASSUME NEW es \in Seq(Entry), NEW ds \in Seq(Entry), NEW e, Adds(es, ds, e),
         Numbered(ds), e.seq = Len(ds) + 1
  PROVE  Numbered(es)
BY Added DEF Numbered

\* How a journal of one more event ends.
LEMMA EndAdded ==
  ASSUME NEW es \in Seq(Entry), NEW ds \in Seq(Entry), NEW e, Adds(es, ds, e)
  PROVE  /\ NotFinal(ds) /\ e.stage # "RUN_FINALIZED" => NotFinal(es)
         /\ \A state : IsFinal(e, state) => EndsWith(es, state)
         /\ NotInterrupted(ds) => InterruptedIsLast(es)
         /\ NotInterrupted(ds) /\ ~IsFinal(e, "interrupted") => NotInterrupted(es)
<1>1. /\ Len(ds) \in Nat /\ Len(es) = Len(ds) + 1
      /\ DOMAIN ds = 1..Len(ds) /\ DOMAIN es = 1..Len(ds) + 1
      /\ es[Len(ds) + 1] = e /\ \A k \in 1..Len(ds) : es[k] = ds[k]
      /\ \A k \in DOMAIN es : k = Len(ds) + 1 \/ k \in DOMAIN ds
  BY Added
<1>2. NotFinal(ds) /\ e.stage # "RUN_FINALIZED" => NotFinal(es)
  BY <1>1 DEF NotFinal
<1>3. \A state : IsFinal(e, state) => EndsWith(es, state)
  BY <1>1 DEF EndsWith
<1>4. NotInterrupted(ds) => InterruptedIsLast(es)
  BY <1>1 DEF NotInterrupted, InterruptedIsLast
<1>5. NotInterrupted(ds) /\ ~IsFinal(e, "interrupted") => NotInterrupted(es)
  BY <1>1 DEF NotInterrupted
<1> QED
  BY <1>2, <1>3, <1>4, <1>5

\* Which events of a journal of one more event complete a stage.
LEMMA CompletedAdded ==
  ASSUME NEW es \in Seq(Entry), NEW ds \in Seq(Entry), NEW e, Adds(es, ds, e)
  PROVE  /\ Completed(es) = IF e.state = "completed" THEN Completed(ds) \cup {Len(ds) + 1}
                            ELSE Completed(ds)
         /\ \A k \in Completed(ds) : es[k] = ds[k]
         /\ es[Len(ds) + 1] = e /\ Len(ds) + 1 \notin Completed(ds)
BY Added DEF Completed

\* A journal that has not ended was not interrupted.
LEMMA NotFinalIs ==
  ASSUME NEW es, NotFinal(es)
  PROVE  NotInterrupted(es) /\ InterruptedIsLast(es)
BY DEF NotFinal, NotInterrupted, InterruptedIsLast, IsFinal

\* A beginning keeps what holds of every event.
LEMMA Cutting ==
  ASSUME NEW es \in Seq(Entry), NEW ds \in Seq(Entry), Begins(ds, es)
  PROVE  /\ Numbered(es) => Numbered(ds)
         /\ InterruptedIsLast(es) => InterruptedIsLast(ds)
         /\ OnceEach(es) => OnceEach(ds)
         /\ HasCheckpoints(es) => HasCheckpoints(ds)
<1>1. /\ Len(ds) \in Nat /\ Len(es) \in Nat /\ DOMAIN ds = 1..Len(ds) /\ DOMAIN es = 1..Len(es)
      /\ Len(ds) <= Len(es) /\ \A k \in 1..Len(ds) : ds[k] = es[k]
  BY DEF Begins
<1>2. DOMAIN ds \subseteq DOMAIN es /\ \A k \in DOMAIN ds : ds[k] = es[k]
  BY <1>1
<1>3. Numbered(es) => Numbered(ds)
  BY <1>2 DEF Numbered
<1>4. InterruptedIsLast(es) => InterruptedIsLast(ds)
  BY <1>1, <1>2 DEF InterruptedIsLast
<1>5. Completed(ds) \subseteq Completed(es) /\ \A k \in Completed(ds) : ds[k] = es[k]
  BY <1>2 DEF Completed
<1>6. OnceEach(es) => OnceEach(ds)
  BY <1>5 DEF OnceEach
<1>7. HasCheckpoints(es) => HasCheckpoints(ds)
  BY <1>5 DEF HasCheckpoints
<1> QED
  BY <1>3, <1>4, <1>6, <1>7

-----------------------------------------------------------------------------
(* What holds when the lines, or the checkpoints, are left alone.          *)

\* What is neither written nor about to be leaves the events alone.
LEMMA LinesAlone ==
  ASSUME journal' = journal, writing' = writing
  PROVE  Full' = Full /\ All' = All
BY DEF Full, All

\* The window sees only the file.
LEMMA WindowAlone ==
  ASSUME WindowInv, journal' = journal, window' = window
  PROVE  WindowInv'
BY DEF WindowInv, Cut

\* A solve that stays at its step has passed the steps it had passed.
LEMMA PassedAlone ==
  ASSUME pc'.i = pc.i, pc'.attempt = pc.attempt, pc.at # "close",
         saved' = saved, NEW es, NEW ds, Completed(ds) = Completed(es),
         \A k \in Completed(es) : ds[k] = es[k]
  PROVE  /\ NamesPassed => NamesPassed'
         /\ EventsPassed(es) => (\A k \in Completed(ds) :
              \E j \in DOMAIN Program :
                /\ Program[j].closes = ds[k].stage /\ Program[j].closes # "none"
                /\ Before(j, ds[k].attempt, pc'.i, pc'.attempt))
         /\ OnceEach(es) => OnceEach(ds)
         /\ HasCheckpoints(es) => HasCheckpoints(ds)
<1>1. NamesPassed => NamesPassed'
  BY DEF NamesPassed, Saved
<1>2. EventsPassed(es) => (\A k \in Completed(ds) :
              \E j \in DOMAIN Program :
                /\ Program[j].closes = ds[k].stage /\ Program[j].closes # "none"
                /\ Before(j, ds[k].attempt, pc'.i, pc'.attempt))
  BY DEF EventsPassed
<1>3. OnceEach(es) => OnceEach(ds)
  BY DEF OnceEach
<1>4. HasCheckpoints(es) => HasCheckpoints(ds)
  BY DEF HasCheckpoints
<1> QED
  BY <1>1, <1>2, <1>3, <1>4

-----------------------------------------------------------------------------
(* The steps of the process.                                               *)

\* An event of a stage that is not complete: the stage is as far as it was.
LEMMA RecordStep ==
  ASSUME IInv, NEW at \in Solving \cup {"finish"}, pc.at \in Solving, writing = <<>>,
         NEW stage \in Stages, NEW state \in States, NEW next \in PcType,
         Record(stage, state, next), stage # "RUN_FINALIZED",
         next.at \in (Solving \cup {"finish"}) \ {"close"},
         next.at = "finish" => next.outcome # "none"
  PROVE  /\ TypeOK' /\ OneWriter' /\ LinesInv' /\ EndInv' /\ WindowInv'
         /\ All \in Seq(Entry) /\ All' \in Seq(Entry) /\ saved' = saved
         /\ \E e \in Entry :
              /\ e = [seq |-> pc.sequence + 1, stage |-> stage, state |-> state,
                      attempt |-> pc.attempt]
              /\ Adds(All', All, e)
<1>0. TypeOK /\ OneWriter /\ LinesInv /\ EndInv /\ WindowInv
  BY DEF IInv
<1>1. /\ writing' \in Seq(Piece) /\ journal' = journal
      /\ pc' \in PcType
      /\ run' = run /\ rec' = rec /\ window' = window
  BY <1>0, RecordType
<1>2. PICK e \in Entry :
              /\ e = [seq |-> pc.sequence + 1, stage |-> stage, state |-> state,
                      attempt |-> pc.attempt]
              /\ writing' = Line(e)
  BY <1>0, RecordType
<1>3. TypeOK'
  BY <1>0, <1>1 DEF TypeOK, PcType
<1>4. pc.at # "dead" /\ pc.at \in Solving \cup {"finish"} /\ rec.at = "idle" /\ run.summary = "none"
  BY <1>0 DEF Solving, TypeOK, OneWriter, EndInv
<1>5. Grammar(Full)' /\ AtLineStart(Full)' /\ Adds(All', All, e)
  BY <1>0, <1>1, <1>2, <1>4, RecordAdds DEF LinesInv
<1>6. All \in Seq(Entry) /\ All' \in Seq(Entry)
  <2>1. All \in Seq(Entry)
    BY <1>0, FullType
  <2>2. journal' \in Seq(Piece) /\ writing' \in Seq(Piece)
    BY <1>3 DEF TypeOK
  <2>3. Joined(journal', writing') \in Seq(Piece)
    BY <2>2, JoinedAt
  <2>4. Events(Joined(journal', writing')) \in Seq(Entry)
    BY <2>3, EventsType
  <2> QED
    BY <2>1, <2>4 DEF All, Full
<1>7. /\ pc'.at = next.at /\ pc'.sequence = pc.sequence + 1 /\ pc'.outcome = next.outcome
      /\ saved' = saved
  BY DEF Record, PcType
<1>8. pc'.at \notin {"seal", "done", "dead", "close", "summarise"} /\ pc'.at \in Solving \cup {"finish"}
  BY <1>7 DEF Solving
<1>9. OneWriter'
  BY <1>1, <1>4, <1>8 DEF OneWriter
<1>10. LinesInv'
  <2>1. pc.sequence = Len(All) /\ Numbered(All) /\ e.seq = Len(All) + 1
    BY <1>0, <1>2, <1>4 DEF LinesInv
  <2>2. Numbered(All')
    BY <2>1, <1>5, <1>6, NumberedAdded
  <2>3. Len(All') = Len(All) + 1
    BY <1>5 DEF Adds
  <2> QED
    BY <1>1, <1>4, <1>5, <1>7, <2>1, <2>2, <2>3 DEF LinesInv, Numbered
<1>11. EndInv'
  <2>1. NotFinal(All)
    BY <1>0, <1>4 DEF EndInv
  <2>2. NotFinal(All')
    BY <2>1, <1>2, <1>5, <1>6, EndAdded
  <2>3. NotInterrupted(All') /\ InterruptedIsLast(All')
    BY <2>2, NotFinalIs
  <2> QED
    BY <1>1, <1>4, <1>7, <1>8, <2>2, <2>3
    DEF EndInv, NotFinal, NotInterrupted, InterruptedIsLast
<1>12. WindowInv'
  BY <1>0, <1>1, WindowAlone
<1> QED
  BY <1>2, <1>3, <1>5, <1>6, <1>7, <1>9, <1>10, <1>11, <1>12

\* A step that writes nothing.
LEMMA QuietStep ==
  ASSUME IInv, pc.at \in Solving, writing = <<>>,
         pc' \in PcType, pc'.at \in Solving \cup {"finish"},
         pc'.at = "finish" => pc'.outcome # "none", pc'.sequence = pc.sequence,
         journal' = journal, writing' = writing, run' = run, rec' = rec, window' = window
  PROVE  /\ TypeOK' /\ OneWriter' /\ LinesInv' /\ EndInv' /\ WindowInv'
         /\ All \in Seq(Entry) /\ All' = All
<1>0. TypeOK /\ OneWriter /\ LinesInv /\ EndInv /\ WindowInv
  BY DEF IInv
<1>1. TypeOK'
  BY <1>0 DEF TypeOK, PcType
<1>2. Full' = Full /\ All' = All /\ WindowInv' /\ All \in Seq(Entry)
  BY <1>0, LinesAlone, WindowAlone, FullType
<1>3. /\ pc.at # "dead" /\ pc.at \in Solving \cup {"finish"} /\ rec.at = "idle" /\ run.summary = "none"
      /\ pc'.at \notin {"seal", "done", "dead", "summarise"}
  BY <1>0 DEF Solving, TypeOK, OneWriter, EndInv
<1>4. OneWriter'
  BY <1>0, <1>3 DEF OneWriter
<1>5. LinesInv'
  BY <1>0, <1>2, <1>3 DEF LinesInv, Grammar, AtLineStart, Numbered
<1>6. EndInv'
  BY <1>0, <1>2, <1>3 DEF EndInv, NotFinal, NotInterrupted, InterruptedIsLast
<1> QED
  BY <1>1, <1>2, <1>4, <1>5, <1>6

\* A solve that stays at its step has the checkpoints it had.
LEMMA StageStays ==
  ASSUME IInv, pc.at \in Solving \ {"close"}, pc'.at # "close",
         pc'.i = pc.i, pc'.attempt = pc.attempt, saved' = saved,
         Completed(All') = Completed(All), \A k \in Completed(All) : All'[k] = All[k]
  PROVE  CheckpointInv'
<1>1. /\ Reached(pc.i, pc.attempt) /\ NamesPassed /\ EventsPassed(All)
      /\ OnceEach(All) /\ HasCheckpoints(All)
  BY DEF IInv, CheckpointInv
<1>2. PICK ds : ds = All'
  OBVIOUS
<1>3. /\ NamesPassed'
      /\ \A k \in Completed(ds) :
              \E j \in DOMAIN Program :
                /\ Program[j].closes = ds[k].stage /\ Program[j].closes # "none"
                /\ Before(j, ds[k].attempt, pc'.i, pc'.attempt)
      /\ OnceEach(ds) /\ HasCheckpoints(ds)
  BY <1>1, <1>2, PassedAlone
<1>4. EventsPassed(All)'
  BY <1>2, <1>3 DEF EventsPassed, Before, Reached, Completed
<1>5. Reached(pc.i, pc.attempt)'
  BY <1>1 DEF Reached
<1>6. OnceEach(All)' /\ HasCheckpoints(All)'
  BY <1>2, <1>3 DEF OnceEach, HasCheckpoints, Completed
<1> QED
  BY <1>3, <1>4, <1>5, <1>6 DEF CheckpointInv

\* Recording an event that completes nothing keeps IInv.
LEMMA RecordStays ==
  ASSUME IInv, pc.at \in Solving \ {"close"}, writing = <<>>,
         NEW stage \in Stages, NEW state \in States, NEW next \in PcType,
         Record(stage, state, next), stage # "RUN_FINALIZED", state # "completed",
         next.at \in (Solving \cup {"finish"}) \ {"close"},
         next.at = "finish" => next.outcome # "none",
         next.i = pc.i, next.attempt = pc.attempt
  PROVE  IInv'
<1>1. /\ TypeOK' /\ OneWriter' /\ LinesInv' /\ EndInv' /\ WindowInv'
      /\ All \in Seq(Entry) /\ All' \in Seq(Entry) /\ saved' = saved
  BY RecordStep
<1>2. PICK e \in Entry :
              /\ e = [seq |-> pc.sequence + 1, stage |-> stage, state |-> state,
                      attempt |-> pc.attempt]
              /\ Adds(All', All, e)
  BY RecordStep
<1>3. pc'.at = next.at /\ pc'.i = pc.i /\ pc'.attempt = pc.attempt
  BY DEF Record, PcType
<1>4. Completed(All') = Completed(All) /\ \A k \in Completed(All) : All'[k] = All[k]
  BY <1>1, <1>2, CompletedAdded
<1>5. CheckpointInv'
  BY <1>1, <1>3, <1>4, StageStays
<1> QED
  BY <1>1, <1>5 DEF IInv

\* A step that records nothing keeps IInv.
LEMMA QuietStays ==
  ASSUME IInv, pc.at \in Solving \ {"close"}, writing = <<>>, NEW next \in PcType,
         Go(next), next.at \in (Solving \cup {"finish"}) \ {"close"},
         next.at = "finish" => next.outcome # "none",
         next.i = pc.i, next.attempt = pc.attempt, next.sequence = pc.sequence
  PROVE  IInv'
<1>1. /\ pc' \in PcType /\ pc'.at \in Solving \cup {"finish"}
      /\ pc'.at = "finish" => pc'.outcome # "none"
      /\ pc'.sequence = pc.sequence /\ pc'.at # "close"
      /\ pc'.i = pc.i /\ pc'.attempt = pc.attempt
      /\ journal' = journal /\ writing' = writing /\ run' = run /\ rec' = rec
      /\ window' = window /\ saved' = saved
  BY DEF Go, Rest, disk
<1>2. /\ TypeOK' /\ OneWriter' /\ LinesInv' /\ EndInv' /\ WindowInv' /\ All' = All
  BY <1>1, QuietStep
<1>3. CheckpointInv'
  BY <1>1, <1>2, StageStays
<1> QED
  BY <1>2, <1>3 DEF IInv

\* Where a solve goes when it ends.
LEMMA FinishingIs ==
  ASSUME TypeOK, NEW outcome \in Outcomes
  PROVE  /\ Finishing(outcome) \in PcType /\ Finishing(outcome).at = "finish"
         /\ Finishing(outcome).outcome # "none"
         /\ Finishing(outcome).i = pc.i /\ Finishing(outcome).attempt = pc.attempt
         /\ Finishing(outcome).sequence = pc.sequence
<1>1. Finishing(outcome) \in PcType
  BY AfterType
<1> QED
  BY <1>1 DEF Finishing, Outcomes, TypeOK, PcType

\* Where a solve goes inside its step.
LEMMA GoingIs ==
  ASSUME TypeOK, NEW at \in Solving
  PROVE  /\ [pc EXCEPT !.at = at] \in PcType /\ [pc EXCEPT !.at = at].at = at
         /\ [pc EXCEPT !.at = at].i = pc.i /\ [pc EXCEPT !.at = at].attempt = pc.attempt
         /\ [pc EXCEPT !.at = at].sequence = pc.sequence
<1>1. [pc EXCEPT !.at = at] \in PcType
  BY AfterType
<1> QED
  BY <1>1 DEF TypeOK

\* No step of a solve opens or closes the last stage.
LEMMA StageIs ==
  ASSUME TypeOK
  PROVE  /\ Now.opens \in Stages /\ Now.closes \in Stages
         /\ Now.opens # "RUN_FINALIZED" /\ Now.closes # "RUN_FINALIZED"
         /\ pc.i \in 1..15
<1>1. pc.i \in 1..15
  BY ProgramIs DEF TypeOK
<1> QED
  BY <1>1, NowType, ProgramDistinct DEF Now

\* The stage is opened.
LEMMA BeginStep == ASSUME IInv, Begin PROVE IInv'
<1>0. TypeOK /\ pc.at = "step" /\ writing = <<>>
  BY DEF IInv, Begin, Ready
<1>1. pc.at \in Solving \ {"close"} /\ "work" \in Solving /\ "work" \in (Solving \cup {"finish"}) \ {"close"}
      /\ "finish" \in (Solving \cup {"finish"}) \ {"close"} /\ "work" # "finish"
  BY <1>0 DEF Solving
<1>2. Now.opens \in Stages /\ Now.opens # "RUN_FINALIZED"
  BY <1>0, StageIs
<1>3. ASSUME NEW outcome \in {"failed", "cancelled"},
             Record(Now.opens, "cancelled", Finishing(outcome))
      PROVE  IInv'
  <2>1. "cancelled" \in States /\ outcome \in Outcomes
    BY DEF States, Outcomes
  <2>2. PICK next : next = Finishing(outcome)
    OBVIOUS
  <2>3. /\ next \in PcType /\ next.at = "finish" /\ next.outcome # "none"
        /\ next.i = pc.i /\ next.attempt = pc.attempt
    BY <1>0, <2>1, <2>2, FinishingIs
  <2>4. Record(Now.opens, "cancelled", next) /\ "cancelled" # "completed"
    BY <1>3, <2>2
  <2> QED
    BY <1>0, <1>1, <1>2, <2>1, <2>3, <2>4, RecordStays
<1>4. PICK next : next = [pc EXCEPT !.at = "work"]
  OBVIOUS
<1>5. /\ next \in PcType /\ next.at = "work" /\ next.i = pc.i /\ next.attempt = pc.attempt
      /\ next.sequence = pc.sequence
  BY <1>0, <1>1, <1>4, GoingIs
<1>6. ASSUME Record(Now.opens, "started", next) PROVE IInv'
  <2>1. "started" \in States /\ "started" # "completed"
    BY DEF States
  <2> QED
    BY <1>0, <1>1, <1>2, <1>5, <1>6, <2>1, RecordStays
<1>7. ASSUME Go(next) PROVE IInv'
  BY <1>0, <1>1, <1>5, <1>7, QuietStays
<1>8. \/ \E outcome \in {"failed", "cancelled"} : Record(Now.opens, "cancelled", Finishing(outcome))
      \/ Record(Now.opens, "started", next)
      \/ Go(next)
  <2>1. CASE Now.advanced /\ cancel /\ pc.i > Planned
    BY <2>1 DEF Begin
  <2>2. CASE Now.advanced /\ cancel /\ ~(pc.i > Planned)
    BY <2>2 DEF Begin
  <2>3. CASE ~(Now.advanced /\ cancel)
    BY <2>3, <1>4 DEF Begin
  <2> QED
    BY <2>1, <2>2, <2>3
<1> QED
  BY <1>3, <1>6, <1>7, <1>8

\* The work of the step is done, fails or is cancelled.
LEMMA WorkStep == ASSUME IInv, Work PROVE IInv'
<1>0. TypeOK /\ pc.at = "work" /\ writing = <<>>
  BY DEF IInv, Work, Ready
<1>1. pc.at \in Solving \ {"close"} /\ "save" \in Solving /\ "save" \in (Solving \cup {"finish"}) \ {"close"}
      /\ "finish" \in (Solving \cup {"finish"}) \ {"close"} /\ "save" # "finish"
  BY <1>0 DEF Solving
<1>2. Now.closes \in Stages /\ Now.closes # "RUN_FINALIZED"
  BY <1>0, StageIs
<1>3. CASE Go([pc EXCEPT !.at = "save"])
  <2>1. PICK next : next = [pc EXCEPT !.at = "save"]
    OBVIOUS
  <2>2. /\ next \in PcType /\ next.at = "save" /\ next.i = pc.i /\ next.attempt = pc.attempt
        /\ next.sequence = pc.sequence /\ Go(next)
    BY <1>0, <1>1, <1>3, <2>1, GoingIs
  <2> QED
    BY <1>0, <1>1, <2>2, QuietStays
<1>4. CASE Record(Now.closes, "failed", Finishing("failed"))
  <2>1. "failed" \in States /\ "failed" \in Outcomes /\ "failed" # "completed"
    BY DEF States, Outcomes
  <2>2. PICK next : next = Finishing("failed")
    OBVIOUS
  <2>3. /\ next \in PcType /\ next.at = "finish" /\ next.outcome # "none"
        /\ next.i = pc.i /\ next.attempt = pc.attempt
    BY <1>0, <2>1, <2>2, FinishingIs
  <2>4. Record(Now.closes, "failed", next)
    BY <1>4, <2>2
  <2> QED
    BY <1>0, <1>1, <1>2, <2>1, <2>3, <2>4, RecordStays
<1>5. ASSUME NEW outcome \in Outcomes, Go(Finishing(outcome)) PROVE IInv'
  <2>2. PICK next : next = Finishing(outcome)
    OBVIOUS
  <2>3. /\ next \in PcType /\ next.at = "finish" /\ next.outcome # "none"
        /\ next.i = pc.i /\ next.attempt = pc.attempt /\ next.sequence = pc.sequence
        /\ Go(next)
    BY <1>0, <1>5, <2>2, FinishingIs
  <2> QED
    BY <1>0, <1>1, <2>3, QuietStays
<1>6. \/ Go([pc EXCEPT !.at = "save"])
      \/ Record(Now.closes, "failed", Finishing("failed"))
      \/ \E outcome \in Outcomes : Go(Finishing(outcome))
  BY DEF Work, Outcomes
<1> QED
  BY <1>3, <1>4, <1>5, <1>6

\* The name of a step that was passed is not the name of this one.
LEMMA NamesDiffer ==
  ASSUME NEW i \in 1..15, NEW j \in 1..15, NEW a \in Nat, NEW attempt \in Nat \ {0},
         Reached(i, attempt), Before(j, a, i, attempt),
         Program[j].saves # "none", NameOf(Program[j], j, a) = NameOf(Program[i], i, attempt)
  PROVE  FALSE
<1>1. /\ a \in Nat \ {0} /\ (j < 10 => a = 1) /\ (i < 10 => attempt = 1)
      /\ (a < attempt \/ (a = attempt /\ j < i))
      /\ Planned = 9 /\ Len(Program) = 15
  BY ProgramIs DEF Before, Reached
<1>2. /\ Program[j].saves = Program[i].saves
      /\ (IF j < 9 THEN 0 ELSE IF j = 15 THEN a + 1 ELSE a)
           = (IF i < 9 THEN 0 ELSE IF i = 15 THEN attempt + 1 ELSE attempt)
  BY <1>1 DEF NameOf
<1>3. j = i \/ (j = 9 /\ i = 15) \/ (j = 15 /\ i = 9)
  BY <1>1, <1>2, ProgramDistinct
<1>4. CASE j = i
  BY <1>1, <1>2, <1>4
<1>5. CASE j = 9 /\ i = 15
  BY <1>1, <1>2, <1>5
<1>6. CASE j = 15 /\ i = 9
  BY <1>1, <1>2, <1>6
<1> QED
  BY <1>3, <1>4, <1>5, <1>6

\* The checkpoint is saved before the stage is closed.
LEMMA SaveStep == ASSUME IInv, Save PROVE IInv'
<1>0. /\ TypeOK /\ pc.at = "save" /\ writing = <<>> /\ pc.i \in 1..15
      /\ pc.attempt \in Nat \ {0} /\ DOMAIN Program = 1..15
  BY ProgramIs, StageIs DEF IInv, Save, Ready, TypeOK
<1>1. /\ Reached(pc.i, pc.attempt) /\ NamesPassed /\ EventsPassed(All)
      /\ OnceEach(All) /\ HasCheckpoints(All)
  BY <1>0 DEF IInv, CheckpointInv, Solving
<1>2. PICK name : name = NameOf(Now, pc.i, pc.attempt)
  OBVIOUS
<1>3. name \notin saved
  <2> SUFFICES ASSUME name \in saved PROVE FALSE
    OBVIOUS
  <2>1. PICK j \in 1..15, a \in Nat :
          Saved(j, a) /\ Program[j].saves # "none" /\ name = NameOf(Program[j], j, a)
    BY <1>0, <1>1 DEF NamesPassed
  <2>2. Before(j, a, pc.i, pc.attempt)
    BY <1>0, <2>1 DEF Saved
  <2>3. NameOf(Program[j], j, a) = NameOf(Program[pc.i], pc.i, pc.attempt)
    BY <1>2, <2>1 DEF Now
  <2> QED
    BY <1>0, <1>1, <2>1, <2>2, <2>3, NamesDiffer
<1>4. /\ pc' = [pc EXCEPT !.at = "close"]
      /\ saved' = IF Now.saves = "none" THEN saved ELSE saved \cup {name}
      /\ journal' = journal /\ writing' = writing /\ run' = run /\ rec' = rec
      /\ window' = window
  BY <1>2, <1>3 DEF Save, Rest
<1>5. "close" \in Solving /\ pc.at \in Solving
  BY <1>0 DEF Solving
<1>6. /\ pc' \in PcType /\ pc'.at = "close" /\ pc'.i = pc.i /\ pc'.attempt = pc.attempt
      /\ pc'.sequence = pc.sequence
  BY <1>0, <1>4, <1>5, GoingIs
<1>7. /\ TypeOK' /\ OneWriter' /\ LinesInv' /\ EndInv' /\ WindowInv' /\ All' = All
  BY <1>0, <1>4, <1>5, <1>6, QuietStep
<1>8. CheckpointInv'
  <2>1. Reached(pc.i, pc.attempt)' /\ saved \subseteq saved'
    BY <1>1, <1>4, <1>6 DEF Reached
  <2>2. NamesPassed'
    <3> SUFFICES ASSUME NEW n \in saved'
                 PROVE \E j \in DOMAIN Program, a \in Nat :
                         Saved(j, a)' /\ Program[j].saves # "none" /\ n = NameOf(Program[j], j, a)
      BY DEF NamesPassed, Saved, Before, Reached
    <3>1. CASE n \in saved
      <4>1. PICK j \in DOMAIN Program, a \in Nat :
              Saved(j, a) /\ Program[j].saves # "none" /\ n = NameOf(Program[j], j, a)
        BY <1>1, <3>1 DEF NamesPassed
      <4>2. Saved(j, a)'
        BY <1>0, <1>6, <4>1 DEF Saved, Before, Reached
      <4> QED
        BY <4>1, <4>2
    <3>2. CASE n \notin saved
      <4>1. Now.saves # "none" /\ n = NameOf(Program[pc.i], pc.i, pc.attempt)
        BY <1>2, <1>4, <3>2 DEF Now
      <4>2. PICK i \in DOMAIN Program, a \in Nat : i = pc.i /\ a = pc.attempt
        BY <1>0
      <4>3. Saved(i, a)'
        BY <1>6, <4>2 DEF Saved
      <4>4. Program[i].saves # "none" /\ n = NameOf(Program[i], i, a)
        BY <4>1, <4>2 DEF Now
      <4> QED
        BY <4>3, <4>4
    <3> QED
      BY <3>1, <3>2
  <2>3. EventsPassed(All)'
    BY <1>1, <1>6, <1>7 DEF EventsPassed, Before, Reached, Completed
  <2>4. Now.saves # "none" => NameOf(Now, pc.i, pc.attempt) \in saved'
    BY <1>2, <1>4
  <2>5. (Now.saves # "none" => NameOf(Now, pc.i, pc.attempt) \in saved)'
    BY <1>6, <2>4 DEF Now
  <2>6. OnceEach(All)' /\ HasCheckpoints(All)'
    BY <1>1, <1>7, <2>1 DEF OnceEach, HasCheckpoints, Completed
  <2> QED
    BY <2>1, <2>2, <2>3, <2>5, <2>6 DEF CheckpointInv
<1> QED
  BY <1>7, <1>8 DEF IInv

\* What is passed before a step that is closed, and that step, are passed after it.
LEMMA Passing ==
  ASSUME TypeOK, Reached(pc.i, pc.attempt), NEW next \in After
  PROVE  /\ next \in PcType /\ next.at \in {"step", "finish"} /\ next.sequence = pc.sequence
         /\ next.at = "finish" => next.outcome # "none"
         /\ Reached(next.i, next.attempt)
         /\ next.at = "step" =>
              \A j \in 1..15, a \in Nat :
                Before(j, a, pc.i, pc.attempt) \/ (j = pc.i /\ a = pc.attempt) =>
                  Before(j, a, next.i, next.attempt)
<1>1. /\ pc.i \in 1..15 /\ pc.attempt \in Nat \ {0} /\ pc \in PcType /\ Loop = 10
  BY ProgramIs DEF TypeOK, PcType
<1>2. next \in PcType
  BY AfterType
<1>3. \/ pc.i # 15 /\ next = Next1
      \/ pc.i = 15 /\ next = [Next1 EXCEPT !.i = 10, !.attempt = @ + 1]
      \/ pc.i \in {9, 13} /\ \E outcome \in {"completed", "failed"} : next = Finishing(outcome)
  BY AfterType
<1>4. CASE pc.i # 15 /\ next = Next1
  <2>1. /\ next.at = "step" /\ next.i = pc.i + 1 /\ next.attempt = pc.attempt
        /\ next.sequence = pc.sequence
    BY <1>1, <1>4 DEF Next1, PcType
  <2> QED
    BY <1>1, <1>2, <2>1 DEF Reached, Before
<1>5. CASE pc.i = 15 /\ next = [Next1 EXCEPT !.i = 10, !.attempt = @ + 1]
  <2>1. /\ next.at = "step" /\ next.i = 10 /\ next.attempt = pc.attempt + 1
        /\ next.sequence = pc.sequence
    BY <1>1, <1>5 DEF Next1, PcType
  <2> QED
    BY <1>1, <1>2, <2>1 DEF Reached, Before
<1>6. CASE \E outcome \in {"completed", "failed"} : next = Finishing(outcome)
  <2>1. PICK outcome \in Outcomes : next = Finishing(outcome)
    BY <1>6 DEF Outcomes
  <2>2. /\ next.at = "finish" /\ next.outcome # "none"
         /\ next.i = pc.i /\ next.attempt = pc.attempt
         /\ next.sequence = pc.sequence
    BY <2>1, FinishingIs
  <2> QED
    BY <1>1, <1>2, <2>2
<1> QED
  BY <1>3, <1>4, <1>5, <1>6

\* The stage is closed, and its event has its checkpoint on disk.
LEMMA CloseStep == ASSUME IInv, Close PROVE IInv'
<1>0. /\ TypeOK /\ pc.at = "close" /\ writing = <<>> /\ pc.i \in 1..15
      /\ pc.attempt \in Nat \ {0} /\ DOMAIN Program = 1..15 /\ pc.at \in Solving
  BY ProgramIs, StageIs DEF IInv, Close, Ready, TypeOK, Solving
<1>1. /\ Reached(pc.i, pc.attempt) /\ NamesPassed /\ EventsPassed(All)
      /\ OnceEach(All) /\ HasCheckpoints(All)
      /\ Now.saves # "none" => NameOf(Now, pc.i, pc.attempt) \in saved
  BY <1>0 DEF IInv, CheckpointInv
<1>2. PICK next \in After :
        IF Now.closes = "none" THEN Go(next) ELSE Record(Now.closes, "completed", next)
  BY DEF Close
<1>3. /\ next \in PcType /\ next.at \in {"step", "finish"} /\ next.sequence = pc.sequence
      /\ next.at = "finish" => next.outcome # "none"
      /\ Reached(next.i, next.attempt)
      /\ next.at = "step" =>
           \A j \in 1..15, a \in Nat :
             Before(j, a, pc.i, pc.attempt) \/ (j = pc.i /\ a = pc.attempt) =>
               Before(j, a, next.i, next.attempt)
  BY <1>0, <1>1, Passing
<1>4. /\ next.at \in (Solving \cup {"finish"}) \ {"close"}
      /\ next.at \in Solving \cup {"finish"} /\ next.at # "close"
  BY <1>3 DEF Solving
<1>5. /\ pc'.at = next.at /\ pc'.i = next.i /\ pc'.attempt = next.attempt /\ saved' = saved
  BY <1>2, <1>3 DEF Record, Go, PcType, disk
<1>6. NamesPassed' \/ pc'.at = "finish"
  <2> SUFFICES ASSUME pc'.at = "step", NEW n \in saved'
               PROVE \E j \in DOMAIN Program, a \in Nat :
                       Saved(j, a)' /\ Program[j].saves # "none" /\ n = NameOf(Program[j], j, a)
    BY <1>3, <1>5 DEF NamesPassed, Saved, Before, Reached
  <2>1. PICK j \in DOMAIN Program, a \in Nat :
          Saved(j, a) /\ Program[j].saves # "none" /\ n = NameOf(Program[j], j, a)
    BY <1>1, <1>5 DEF NamesPassed
  <2>2. Before(j, a, next.i, next.attempt)
    BY <1>0, <1>3, <1>5, <2>1 DEF Saved
  <2>3. Saved(j, a)'
    BY <1>5, <2>2 DEF Saved, Before, Reached
  <2> QED
    BY <2>1, <2>3
<1>7. Reached(pc.i, pc.attempt)'
  BY <1>3, <1>5 DEF Reached
<1>8. CASE Now.closes = "none"
  <2>1. /\ pc' \in PcType /\ pc'.at \in Solving \cup {"finish"}
        /\ pc'.at = "finish" => pc'.outcome # "none" /\ pc'.sequence = pc.sequence
        /\ journal' = journal /\ writing' = writing /\ run' = run /\ rec' = rec
        /\ window' = window /\ pc'.sequence = pc.sequence
    BY <1>2, <1>3, <1>4, <1>8 DEF Go, Rest, disk
  <2>2. /\ TypeOK' /\ OneWriter' /\ LinesInv' /\ EndInv' /\ WindowInv' /\ All' = All
    BY <1>0, <2>1, QuietStep
  <2>3. EventsPassed(All)' \/ pc'.at = "finish"
    <3> SUFFICES ASSUME pc'.at = "step", NEW k \in Completed(All)
                 PROVE  \E j \in DOMAIN Program :
                          /\ Program[j].closes = All[k].stage /\ Program[j].closes # "none"
                          /\ Before(j, All[k].attempt, next.i, next.attempt)
      BY <1>3, <1>5, <2>2 DEF EventsPassed, Before, Reached, Completed
    <3>1. PICK j \in DOMAIN Program :
            /\ Program[j].closes = All[k].stage /\ Program[j].closes # "none"
            /\ Before(j, All[k].attempt, pc.i, pc.attempt)
      BY <1>1 DEF EventsPassed
    <3>2. All[k].attempt \in Nat
      BY <3>1 DEF Before, Reached
    <3> QED
      BY <1>0, <1>3, <1>5, <3>1, <3>2
  <2>4. OnceEach(All)' /\ HasCheckpoints(All)'
    BY <1>1, <1>5, <2>2 DEF OnceEach, HasCheckpoints, Completed
  <2> QED
    BY <1>3, <1>5, <1>6, <1>7, <2>2, <2>3, <2>4 DEF IInv, CheckpointInv, Solving
<1>9. CASE Now.closes # "none"
  <2>1. /\ Now.closes \in Stages /\ Now.closes # "RUN_FINALIZED" /\ "completed" \in States
    BY <1>0, StageIs DEF States
  <2>2. Record(Now.closes, "completed", next)
    BY <1>2, <1>9
  <2>3. /\ TypeOK' /\ OneWriter' /\ LinesInv' /\ EndInv' /\ WindowInv'
        /\ All \in Seq(Entry) /\ All' \in Seq(Entry)
    BY <1>0, <1>3, <1>4, <2>1, <2>2, RecordStep
  <2>4. PICK e \in Entry :
              /\ e = [seq |-> pc.sequence + 1, stage |-> Now.closes, state |-> "completed",
                      attempt |-> pc.attempt]
              /\ Adds(All', All, e)
    BY <1>0, <1>3, <1>4, <2>1, <2>2, RecordStep
  <2>5. PICK ds \in Seq(Entry), es \in Seq(Entry) : ds = All /\ es = All'
    BY <2>3
  <2>6. PICK n : n = Len(ds) + 1
    OBVIOUS
  <2>7. /\ Completed(es) = Completed(ds) \cup {n}
        /\ \A k \in Completed(ds) : es[k] = ds[k]
        /\ es[n] = e /\ n \notin Completed(ds)
    BY <2>4, <2>5, <2>6, CompletedAdded
  <2>8. e.stage = Program[pc.i].closes /\ e.stage # "none" /\ e.attempt = pc.attempt
    BY <2>4, <1>9 DEF Now
  <2>9. ASSUME NEW k \in Completed(ds)
        PROVE  /\ ds[k].stage # e.stage \/ ds[k].attempt # e.attempt
               /\ next.at = "step" =>
                    \E j \in DOMAIN Program :
                      /\ Program[j].closes = ds[k].stage /\ Program[j].closes # "none"
                      /\ Before(j, ds[k].attempt, next.i, next.attempt)
    <3>1. PICK j \in 1..15 :
            /\ Program[j].closes = ds[k].stage /\ Program[j].closes # "none"
            /\ Before(j, ds[k].attempt, pc.i, pc.attempt)
      BY <1>0, <1>1, <2>5 DEF EventsPassed
    <3>2. ds[k].attempt \in Nat
      BY <3>1 DEF Before, Reached
    <3>3. ds[k].stage = e.stage => j = pc.i
      BY <1>0, <2>8, <3>1, ProgramDistinct
    <3>4. j = pc.i => ds[k].attempt # pc.attempt
      BY <1>0, <3>1, <3>2 DEF Before
    <3> QED
      BY <1>0, <1>3, <2>8, <3>1, <3>2, <3>3, <3>4
  <2>10. OnceEach(es)
    BY <1>1, <2>5, <2>7, <2>9 DEF OnceEach
  <2>11. HasCheckpoints(es)
    <3> SUFFICES ASSUME NEW k \in Completed(es), NEW i \in 1..15,
                        Program[i].closes = es[k].stage, Program[i].saves # "none"
                 PROVE  NameOf(Program[i], i, es[k].attempt) \in saved
      BY <1>0 DEF HasCheckpoints
    <3>1. CASE k \in Completed(ds)
      BY <1>0, <1>1, <2>5, <2>7, <3>1 DEF HasCheckpoints
    <3>2. CASE k = n
      <4>1. i = pc.i
        BY <1>0, <2>7, <2>8, <3>2, ProgramDistinct
      <4> QED
        BY <1>1, <2>7, <2>8, <3>2, <4>1 DEF Now
    <3> QED
      BY <2>7, <3>1, <3>2
  <2>12. ASSUME next.at = "step", NEW k \in Completed(es)
         PROVE  \E j \in DOMAIN Program :
                      /\ Program[j].closes = es[k].stage /\ Program[j].closes # "none"
                      /\ Before(j, es[k].attempt, next.i, next.attempt)
    <3>1. CASE k \in Completed(ds)
      BY <2>7, <2>9, <2>12, <3>1
    <3>2. CASE k = n
      BY <1>0, <1>3, <2>7, <2>8, <2>12, <3>2
    <3> QED
      BY <2>7, <3>1, <3>2
  <2>13. EventsPassed(All)' \/ pc'.at = "finish"
    BY <1>3, <1>5, <2>5, <2>12 DEF EventsPassed, Before, Reached, Completed
  <2>14. OnceEach(All)' /\ HasCheckpoints(All)'
    BY <1>5, <2>5, <2>10, <2>11 DEF OnceEach, HasCheckpoints, Completed
  <2>15. CheckpointInv'
    BY <1>3, <1>5, <1>6, <1>7, <2>13, <2>14 DEF CheckpointInv, Solving
  <2> QED
    BY <2>3, <2>15 DEF IInv
<1> QED
  BY <1>8, <1>9

-----------------------------------------------------------------------------
(* The end of the process, its death, and the recovery.                    *)

\* What IInv says of the journal, in the form the steps use.
LEMMA Parts ==
  ASSUME IInv
  PROVE  /\ TypeOK /\ OneWriter /\ LinesInv /\ EndInv /\ WindowInv /\ CheckpointInv
         /\ Full \in Seq(Piece) /\ All \in Seq(Entry) /\ Len(All) \in Nat
         /\ writing = <<>> => Full = journal /\ Events(journal) = All
         /\ OnceEach(All) /\ HasCheckpoints(All) /\ Reached(pc.i, pc.attempt)
<1>1. TypeOK /\ OneWriter /\ LinesInv /\ EndInv /\ WindowInv /\ CheckpointInv
  BY DEF IInv
<1>2. Full \in Seq(Piece) /\ All \in Seq(Entry)
  BY <1>1, FullType
<1>3. writing = <<>> => Full = journal /\ Events(journal) = All
  BY <1>1, FullIsJournal DEF All
<1> QED
  BY <1>1, <1>2, <1>3 DEF CheckpointInv

\* The events of the next state are events.
LEMMA AllType ==
  ASSUME TypeOK'
  PROVE  All' \in Seq(Entry)
<1>1. journal' \in Seq(Piece) /\ writing' \in Seq(Piece)
  BY DEF TypeOK
<1>2. Joined(journal', writing') \in Seq(Piece)
  BY <1>1, JoinedAt
<1>3. Events(Joined(journal', writing')) \in Seq(Entry)
  BY <1>2, EventsType
<1> QED
  BY <1>3 DEF All, Full

\* Once the stages are over nothing but the events speaks of them.
LEMMA StagesOver ==
  ASSUME IInv, pc'.at \notin Solving, pc'.i = pc.i, pc'.attempt = pc.attempt,
         saved' = saved, OnceEach(All'), HasCheckpoints(All')
  PROVE  CheckpointInv'
<1>1. pc'.at # "close" /\ Reached(pc.i, pc.attempt)'
  BY Parts DEF Solving, Reached
<1>2. OnceEach(All)' /\ HasCheckpoints(All)'
  BY DEF OnceEach, HasCheckpoints, Completed
<1> QED
  BY <1>1, <1>2 DEF CheckpointInv

\* The final event closes no stage.
LEMMA FinalAdded ==
  ASSUME NEW es \in Seq(Entry), NEW ds \in Seq(Entry), NEW e, Adds(es, ds, e),
         e.stage = "RUN_FINALIZED", NotFinal(ds) \/ e.state # "completed",
         OnceEach(ds), HasCheckpoints(ds)
  PROVE  /\ OnceEach(es) /\ HasCheckpoints(es)
         /\ LastCompleted(es) = IF e.state = "completed" THEN "RUN_FINALIZED"
                                ELSE LastCompleted(ds)
<1>0. PICK n : n = Len(ds) + 1
  OBVIOUS
<1>1. /\ Completed(es) = IF e.state = "completed" THEN Completed(ds) \cup {n}
                         ELSE Completed(ds)
      /\ \A k \in Completed(ds) : es[k] = ds[k]
      /\ es[n] = e /\ n \notin Completed(ds)
  BY <1>0, CompletedAdded
<1>2. OnceEach(es)
  BY <1>1 DEF OnceEach, NotFinal, Completed
<1>3. \A i \in DOMAIN Program : Program[i].closes # "RUN_FINALIZED"
  BY ProgramIs, ProgramDistinct
<1>4. HasCheckpoints(es)
  BY <1>1, <1>3 DEF HasCheckpoints
<1> QED
  BY <1>2, <1>4, LastCompletedAdded, LastCompletedKept

\* The last event is recorded.
LEMMA FinishStep == ASSUME IInv, Finish PROVE IInv'
<1>0. /\ TypeOK /\ OneWriter /\ LinesInv /\ EndInv /\ WindowInv
      /\ All \in Seq(Entry) /\ Len(All) \in Nat
      /\ OnceEach(All) /\ HasCheckpoints(All)
  BY Parts
<1>1. /\ pc.at = "finish" /\ writing = <<>> /\ Full = journal /\ Events(journal) = All
      /\ pc.outcome \in Outcomes /\ rec.at = "idle" /\ run.summary = "none"
      /\ pc \in PcType
  BY Parts DEF Finish, Ready, EndInv, OneWriter, TypeOK, PcType
<1>2. LastSequence(journal) = Len(All)
  BY <1>0, <1>1, SequenceIs DEF LinesInv
<1>3. PICK e \in Entry : e = Final(Len(All) + 1, pc.outcome)
  <2>1. pc.outcome \in States
    BY <1>1 DEF Outcomes, States
  <2> QED
    BY <1>0, <2>1, FinalType
<1>4. e.seq = Len(All) + 1 /\ e.stage = "RUN_FINALIZED" /\ e.state = pc.outcome
  BY <1>3 DEF Final
<1>5. /\ journal' = journal /\ writing' = Line(e) /\ saved' = saved /\ run' = run
      /\ rec' = rec /\ window' = window
      /\ pc' = [pc EXCEPT !.at = "summarise", !.sequence = Len(All) + 1,
                          !.last = IF pc.outcome = "completed" THEN "RUN_FINALIZED"
                                   ELSE LastCompleted(All)]
  BY <1>1, <1>2, <1>3 DEF Finish, Rest
<1>6. Grammar(Full)' /\ AtLineStart(Full)' /\ Adds(All', All, e)
  BY <1>0, <1>1, <1>5, RecordAdds DEF LinesInv
<1>7. LastCompleted(All) \in Stages \cup {"none"}
  BY <1>0, LastTypes
<1>8. /\ pc' \in PcType /\ pc'.at = "summarise" /\ pc'.i = pc.i /\ pc'.attempt = pc.attempt
      /\ pc'.outcome = pc.outcome /\ pc'.sequence = Len(All) + 1
      /\ pc'.last = IF pc.outcome = "completed" THEN "RUN_FINALIZED" ELSE LastCompleted(All)
  <2>1. PICK l \in Stages \cup {"none"} :
          l = IF pc.outcome = "completed" THEN "RUN_FINALIZED" ELSE LastCompleted(All)
    BY <1>7 DEF Stages
  <2>2. PICK n \in Nat : n = Len(All) + 1
    BY <1>0
  <2>3. pc' = [pc EXCEPT !.at = "summarise", !.sequence = n, !.last = l]
    BY <1>5, <2>1, <2>2
  <2>4. /\ pc' \in PcType /\ pc'.at = "summarise" /\ pc'.i = pc.i /\ pc'.attempt = pc.attempt
        /\ pc'.outcome = pc.outcome /\ pc'.sequence = n /\ pc'.last = l
    BY <1>1, <2>3 DEF PcType
  <2> QED
    BY <2>1, <2>2, <2>4
<1>9. Line(e) \in Seq(Piece)
  BY EventsLine
<1>10. TypeOK'
  BY <1>0, <1>5, <1>8, <1>9 DEF TypeOK, PcType
<1>11. All' \in Seq(Entry)
  BY <1>10, AllType
<1>12. NotFinal(All) /\ NotInterrupted(All)
  BY <1>0, <1>1, NotFinalIs DEF EndInv
<1>13. OneWriter'
  BY <1>1, <1>5, <1>8 DEF OneWriter
<1>14. LinesInv'
  <2>1. Numbered(All')
    BY <1>0, <1>4, <1>6, <1>11, NumberedAdded DEF LinesInv
  <2>2. Len(All') = Len(All) + 1
    BY <1>6 DEF Adds
  <2> QED
    BY <1>1, <1>5, <1>6, <1>8, <2>1, <2>2 DEF LinesInv, Numbered
<1>15. /\ OnceEach(All') /\ HasCheckpoints(All')
       /\ LastCompleted(All') = IF pc.outcome = "completed" THEN "RUN_FINALIZED"
                                ELSE LastCompleted(All)
  BY <1>0, <1>4, <1>6, <1>11, <1>12, FinalAdded
<1>16. EndInv'
  <2>1. ~IsFinal(e, "interrupted") /\ IsFinal(e, pc.outcome)
    BY <1>1, <1>4 DEF IsFinal, Outcomes
  <2>2. EndsWith(All', pc.outcome) /\ NotInterrupted(All') /\ InterruptedIsLast(All')
    BY <1>0, <1>6, <1>11, <1>12, <2>1, EndAdded
  <2>3. pc'.last = LastCompleted(All')
    BY <1>8, <1>15
  <2>4. pc'.outcome # "none" /\ run'.summary = "none" /\ rec'.at = "idle"
    BY <1>1, <1>5, <1>8 DEF Outcomes
  <2>5. pc'.at \notin Solving \cup {"finish"}
    BY <1>8 DEF Solving
  <2>6. PICK es, o : es = All' /\ o = pc'.outcome /\ EndsWith(es, o) /\ NotInterrupted(es)
                     /\ InterruptedIsLast(es) /\ pc'.last = LastCompleted(es)
    BY <1>8, <2>2, <2>3
  <2>7. (pc.at = "summarise" => EndsWith(All, pc.outcome) /\ pc.last = LastCompleted(All))'
    BY <2>6 DEF EndsWith, IsFinal, LastCompleted, Completed
  <2>8. NotInterrupted(All)' /\ InterruptedIsLast(All)'
    BY <2>6 DEF NotInterrupted, InterruptedIsLast, IsFinal
  <2> QED
    BY <1>8, <2>4, <2>5, <2>7, <2>8 DEF EndInv
<1>17. WindowInv'
  BY <1>0, <1>5, WindowAlone
<1>18. CheckpointInv'
  BY <1>5, <1>8, <1>15, StagesOver DEF Solving
<1> QED
  BY <1>10, <1>13, <1>14, <1>16, <1>17, <1>18 DEF IInv

\* The summary says what the journal says.
LEMMA SummariseStep == ASSUME IInv, Summarise PROVE IInv'
<1>0. /\ TypeOK /\ OneWriter /\ LinesInv /\ EndInv /\ WindowInv
      /\ OnceEach(All) /\ HasCheckpoints(All)
  BY Parts
<1>1. /\ pc.at = "summarise" /\ writing = <<>> /\ pc.outcome # "none" /\ pc.outcome \in Outcomes
      /\ rec.at = "idle" /\ pc \in PcType /\ pc.last \in Stages \cup {"none"}
      /\ EndsWith(All, pc.outcome) /\ pc.last = LastCompleted(All)
  BY <1>0 DEF Summarise, Ready, EndInv, OneWriter, TypeOK, PcType
<1>2. /\ run' = [run EXCEPT !.summary = pc.outcome, !.last = pc.last]
      /\ pc' = [pc EXCEPT !.at = "seal"]
      /\ journal' = journal /\ writing' = writing /\ saved' = saved
      /\ rec' = rec /\ window' = window
  BY DEF Summarise, Rest
<1>3. /\ pc' \in PcType /\ pc'.at = "seal" /\ pc'.i = pc.i /\ pc'.attempt = pc.attempt
      /\ pc'.outcome = pc.outcome /\ pc'.sequence = pc.sequence
  BY <1>1, <1>2 DEF PcType
<1>4. TypeOK'
  BY <1>0, <1>1, <1>2, <1>3 DEF TypeOK, PcType
<1>5. run'.summary = pc.outcome /\ run'.last = pc.last
  BY <1>0, <1>2 DEF TypeOK
<1>6. Full' = Full /\ All' = All /\ WindowInv'
  BY <1>0, <1>2, LinesAlone, WindowAlone
<1>7. OneWriter'
  BY <1>1, <1>2, <1>3 DEF OneWriter
<1>8. LinesInv'
  BY <1>0, <1>1, <1>2, <1>3, <1>6 DEF LinesInv, Grammar, AtLineStart, Numbered
<1>9. EndInv'
  <2>1. NotInterrupted(All)' /\ InterruptedIsLast(All)'
    BY <1>0, <1>1, <1>6 DEF EndInv, NotInterrupted, InterruptedIsLast
  <2>2. EndsWith(All, run.summary)' /\ (run.last = LastCompleted(All))'
    BY <1>1, <1>5, <1>6 DEF EndsWith, IsFinal, LastCompleted, Completed
  <2> QED
    BY <1>1, <1>2, <1>3, <2>1, <2>2 DEF EndInv, Solving
<1>10. CheckpointInv'
  BY <1>0, <1>2, <1>3, <1>6, StagesOver DEF Solving
<1> QED
  BY <1>4, <1>6, <1>7, <1>8, <1>9, <1>10 DEF IInv

\* The manifest is written.
LEMMA SealStep == ASSUME IInv, Seal PROVE IInv'
<1>0. /\ TypeOK /\ OneWriter /\ LinesInv /\ EndInv /\ WindowInv
      /\ OnceEach(All) /\ HasCheckpoints(All)
  BY Parts
<1>1. /\ pc.at = "seal" /\ writing = <<>> /\ rec.at = "idle" /\ pc \in PcType /\ pc.outcome # "none"
  BY <1>0 DEF Seal, Ready, EndInv, OneWriter, TypeOK, PcType
<1>2. /\ run' = [run EXCEPT !.manifest = TRUE]
      /\ pc' = [pc EXCEPT !.at = "done"]
      /\ journal' = journal /\ writing' = writing /\ saved' = saved
      /\ rec' = rec /\ window' = window
  BY DEF Seal, Rest
<1>3. /\ pc' \in PcType /\ pc'.at = "done" /\ pc'.i = pc.i /\ pc'.attempt = pc.attempt
      /\ pc'.outcome = pc.outcome /\ pc'.sequence = pc.sequence
  BY <1>1, <1>2 DEF PcType
<1>4. TypeOK' /\ run'.summary = run.summary /\ run'.last = run.last
  BY <1>0, <1>2, <1>3 DEF TypeOK, PcType
<1>6. Full' = Full /\ All' = All /\ WindowInv'
  BY <1>0, <1>2, LinesAlone, WindowAlone
<1>7. OneWriter'
  BY <1>1, <1>2, <1>3 DEF OneWriter
<1>8. LinesInv'
  BY <1>0, <1>1, <1>2, <1>3, <1>6 DEF LinesInv, Grammar, AtLineStart, Numbered
<1>9. EndInv'
  BY <1>0, <1>1, <1>2, <1>3, <1>4, <1>6
     DEF EndInv, Solving, NotInterrupted, InterruptedIsLast, EndsWith, IsFinal,
         LastCompleted, Completed
<1>10. CheckpointInv'
  BY <1>0, <1>2, <1>3, <1>6, StagesOver DEF Solving
<1> QED
  BY <1>4, <1>6, <1>7, <1>8, <1>9, <1>10 DEF IInv

\* A process, or a recovery, that dies: what it had not written is lost, and
\* nothing of a run that has its summary.
LEMMA DeathStep ==
  ASSUME IInv, Die \/ RecoverDies
  PROVE  IInv'
<1>0. /\ TypeOK /\ OneWriter /\ LinesInv /\ EndInv /\ WindowInv
      /\ OnceEach(All) /\ HasCheckpoints(All) /\ All \in Seq(Entry)
      /\ (writing = <<>> => Full = journal)
  BY Parts
<1>1. /\ pc' = [pc EXCEPT !.at = "dead"] /\ rec'.at = "idle" /\ rec'.sequence = rec.sequence
      /\ rec'.last = rec.last /\ rec' \in [at : {"idle", "event", "summary", "seal"}, sequence : Nat,
              last : Stages \cup {"none"}]
      /\ writing' = <<>> /\ journal' = journal /\ saved' = saved /\ run' = run
      /\ window' = window
  <2>1. CASE Die
    BY <1>0, <2>1 DEF Die, OneWriter, TypeOK
  <2>2. CASE RecoverDies
    <3>1. pc.at = "dead" /\ pc' = pc
      BY <1>0, <2>2 DEF RecoverDies, OneWriter
    <3>2. pc' = [pc EXCEPT !.at = "dead"]
      BY <1>0, <3>1 DEF TypeOK
    <3> QED
      BY <1>0, <2>2, <3>2 DEF RecoverDies, TypeOK
  <2> QED
    BY <2>1, <2>2
<1>2. pc' \in PcType /\ pc'.at = "dead" /\ pc'.i = pc.i /\ pc'.attempt = pc.attempt
  BY <1>0, <1>1 DEF TypeOK, PcType
<1>3. TypeOK'
  <2>1. <<>> \in Seq(Piece)
    OBVIOUS
  <2> QED
    BY <1>0, <1>1, <1>2, <2>1 DEF TypeOK, PcType
<1>4. Full' = journal /\ Grammar(Full)' /\ Begins(All', All)
  BY <1>0, <1>1, DeathCuts DEF LinesInv
<1>5. All' \in Seq(Entry)
  BY <1>3, AllType
<1>6. PICK ds \in Seq(Entry) : ds = All'
  BY <1>5
<1>7. Numbered(ds) /\ InterruptedIsLast(ds) /\ OnceEach(ds) /\ HasCheckpoints(ds)
  BY <1>0, <1>4, <1>6, Cutting DEF LinesInv, EndInv
<1>8. OneWriter'
  BY <1>1, <1>2 DEF OneWriter
<1>9. LinesInv'
  BY <1>1, <1>2, <1>4, <1>6, <1>7 DEF LinesInv, Numbered
<1>10. run.summary # "none" => All' = All
  BY <1>0, <1>4 DEF OneWriter, All
<1>11. EndInv'
  <2>1. InterruptedIsLast(All)'
    BY <1>6, <1>7 DEF InterruptedIsLast
  <2>2. run.summary # "none" =>
          EndsWith(All, run.summary)' /\ (run.last = LastCompleted(All))'
    <3> SUFFICES ASSUME run.summary # "none"
                 PROVE EndsWith(All, run.summary)' /\ (run.last = LastCompleted(All))'
      OBVIOUS
    <3>1. EndsWith(All, run.summary) /\ run.last = LastCompleted(All)
      BY <1>0 DEF EndInv
    <3>2. All' = All /\ run' = run
      BY <1>1, <1>10
    <3>3. EndsWith(All, run.summary)'
      BY <3>1, <3>2 DEF EndsWith, IsFinal
    <3>4. (run.last = LastCompleted(All))'
      BY <3>1, <3>2 DEF LastCompleted, Completed
    <3> QED
      BY <3>3, <3>4
  <2> QED
    BY <1>1, <1>2, <2>1, <2>2 DEF EndInv, Solving
<1>12. WindowInv'
  BY <1>0, <1>1, WindowAlone
<1>13. CheckpointInv'
  BY <1>1, <1>2, <1>6, <1>7, StagesOver DEF Solving
<1> QED
  BY <1>3, <1>8, <1>9, <1>11, <1>12, <1>13 DEF IInv

\* What holds of the events holds when they and the run are left alone.
LEMMA EventsAlone ==
  ASSUME IInv, All' = All, run' = run, pc' = pc, saved' = saved,
         rec'.at # "idle" => pc.at = "dead",
         rec'.at # "idle" =>
           run.summary \in {"none", "interrupted"} /\ rec'.last = LastCompleted(All),
         rec'.at \in {"summary", "seal"} => EndsWith(All, "interrupted")
  PROVE  EndInv' /\ CheckpointInv'
<1>0. EndInv /\ CheckpointInv
  BY DEF IInv
<1>1. EndInv'
  BY <1>0
  DEF EndInv, NotFinal, NotInterrupted, InterruptedIsLast, EndsWith, IsFinal,
              LastCompleted, Completed
<1>2. CheckpointInv'
  BY <1>0
  DEF CheckpointInv, Reached, NamesPassed, Saved, Before, EventsPassed, OnceEach,
              HasCheckpoints, Completed, Now
<1> QED
  BY <1>1, <1>2

\* Slices of the journal
SliceOf(a, s, m, n) ==
  /\ a \in Seq(Piece)
  /\ Len(a) = IF m <= n THEN (n - m) + 1 ELSE 0
  /\ \A i \in 1..(n - m) + 1 : a[i] = s[(m + i) - 1]

\* What a slice holds at each place.
LEMMA SliceIs ==
  ASSUME NEW s \in Seq(Piece), NEW m \in Nat \ {0}, NEW n \in Nat, n <= Len(s)
  PROVE  SliceOf(SubSeq(s, m, n), s, m, n)
<1>1. \A i \in m..n : s[i] \in Piece
  OBVIOUS
<1>2. m \in Int /\ n \in Int
  OBVIOUS
<1> QED
  BY <1>1, <1>2, SubSeqProperties DEF SliceOf

\* Two sequences that hold the same at each place are the same.
LEMMA SameSeq ==
  ASSUME NEW s \in Seq(Piece), NEW t \in Seq(Piece), NEW n \in Nat, Len(s) = n, Len(t) = n,
         \A i \in 1..n : s[i] = t[i]
  PROVE  s = t
BY SeqEqual

\* A slice is what it holds.
LEMMA SliceUnique ==
  ASSUME NEW s, NEW t, NEW m \in Nat \ {0}, NEW n \in Nat,
         NEW a, SliceOf(a, s, m, n), NEW b, SliceOf(b, t, m, n),
         \A i \in m..n : s[i] = t[i]
  PROVE  a = b
<1>1. a \in Seq(Piece) /\ b \in Seq(Piece)
  BY DEF SliceOf
<1>2. CASE m <= n
  <2>1. PICK k \in Nat : k = (n - m) + 1
    BY <1>2
  <2>2. Len(a) = k /\ Len(b) = k
    BY <1>2, <2>1 DEF SliceOf
  <2>3. ASSUME NEW i \in 1..k PROVE a[i] = b[i]
    <3>1. (m + i) - 1 \in m..n /\ i \in 1..(n - m) + 1
      BY <2>1
    <3> QED
      BY <3>1 DEF SliceOf
  <2> QED
    BY <1>1, <2>2, <2>3, SameSeq
<1>3. CASE ~(m <= n)
  <2>1. Len(a) = 0 /\ Len(b) = 0
    BY <1>3 DEF SliceOf
  <2> QED
    BY <1>1, <2>1, SameSeq
<1> QED
  BY <1>2, <1>3

\* What was read of a file is still there when the file has grown.
LEMMA SameSlice ==
  ASSUME NEW s \in Seq(Piece), NEW t \in Seq(Piece), Begins(s, t),
         NEW m \in Nat \ {0}, NEW n \in Nat, n <= Len(s)
  PROVE  SubSeq(t, m, n) = SubSeq(s, m, n)
<1>1. Len(s) \in Nat /\ Len(t) \in Nat /\ n <= Len(t) /\ \A i \in m..n : t[i] = s[i]
  BY DEF Begins
<1>2. PICK a, b : a = SubSeq(s, m, n) /\ b = SubSeq(t, m, n)
  OBVIOUS
<1>3. SliceOf(a, s, m, n) /\ SliceOf(b, t, m, n)
  BY <1>1, <1>2, SliceIs
<1>4. b = a
  BY <1>1, <1>3, SliceUnique
<1> QED
  BY <1>2, <1>4

\* A piece reaches the disk; the worker may die after it.
LEMMA WriteStep == ASSUME IInv, Write PROVE IInv'
<1>0. TypeOK /\ OneWriter /\ LinesInv /\ EndInv /\ WindowInv
  BY DEF IInv
<1>1. /\ Full' = Full /\ journal' \in Seq(Piece) /\ writing' \in Seq(Piece)
      /\ writing # <<>> /\ Begins(journal, journal')
  BY <1>0, WriteKeeps
<1>2. /\ All' = All /\ run' = run /\ pc' = pc /\ saved' = saved /\ rec' = rec
      /\ window' = window
  BY <1>1 DEF Write, All
<1>3. TypeOK'
  BY <1>0, <1>1, <1>2 DEF TypeOK
<1>4. OneWriter'
  BY <1>0, <1>1, <1>2 DEF OneWriter
<1>5. LinesInv'
  BY <1>0, <1>1, <1>2 DEF LinesInv, Grammar, AtLineStart, Numbered
<1>6. EndInv' /\ CheckpointInv'
  BY <1>0, <1>2, EventsAlone DEF EndInv, OneWriter
<1>7. WindowInv'
  <2>1. /\ journal \in Seq(Piece) /\ Len(journal) \in Nat /\ Len(journal') \in Nat
        /\ Len(journal) <= Len(journal') /\ \A i \in 1..Len(journal) : journal'[i] = journal[i]
    BY <1>0, <1>1 DEF TypeOK, Begins
  <2>2. /\ window.offset \in Nat /\ window.offset <= Len(journal) /\ Cut \in 0..window.offset
        /\ window.tail = SubSeq(journal, Cut + 1, window.offset)
        /\ Cut # 0 => journal[Cut] = Newline
        /\ window.timeline = Events(SubSeq(journal, 1, Cut))
    BY <1>0 DEF WindowInv, TypeOK
  <2>0. PICK o \in Nat : o = window.offset
    BY <2>2
  <2>3. PICK c \in 0..o : c = Cut
    BY <2>0, <2>2
  <2>4. SubSeq(journal', 1, c) = SubSeq(journal, 1, c)
    BY <1>1, <2>0, <2>1, <2>2, <2>3, SameSlice
  <2>5. SubSeq(journal', c + 1, o) = SubSeq(journal, c + 1, o)
    BY <1>1, <2>0, <2>1, <2>2, <2>3, SameSlice
  <2>6. c # 0 => journal'[c] = Newline
    BY <2>0, <2>1, <2>2, <2>3
  <2>7. Cut' = c
    BY <1>2, <2>3 DEF Cut
  <2>8. /\ o <= Len(journal') /\ c \in 0..o
        /\ window'.tail = SubSeq(journal', c + 1, o)
        /\ window'.timeline = Events(SubSeq(journal', 1, c)) /\ window'.offset = o
    <3>1. window'.tail = SubSeq(journal, c + 1, o)
      BY <1>2, <2>0, <2>2, <2>3
    <3>2. window'.timeline = Events(SubSeq(journal, 1, c))
      BY <1>2, <2>0, <2>2, <2>3
    <3>3. o <= Len(journal')
      BY <2>0, <2>1, <2>2
    <3>4. window'.offset = o
      BY <1>2, <2>0
    <3> QED
      BY <2>3, <2>4, <2>5, <3>1, <3>2, <3>3, <3>4, Zenon
  <2> QED
    BY <2>6, <2>7, <2>8 DEF WindowInv
<1> QED
  BY <1>3, <1>4, <1>5, <1>6, <1>7 DEF IInv

\* The recovery reads the journal of a dead worker.
LEMMA RecoverBeginStep == ASSUME IInv, RecoverBegin PROVE IInv'
<1>0. /\ TypeOK /\ OneWriter /\ LinesInv /\ EndInv /\ WindowInv /\ CheckpointInv
      /\ All \in Seq(Entry) /\ Len(All) \in Nat
  BY Parts
<1>1. pc.at = "dead" /\ rec.at = "idle" /\ writing = <<>> /\ Events(journal) = All
  BY <1>0, Parts DEF RecoverBegin, OneWriter
<1>2. LastSequence(journal) = Len(All) /\ LastCompleted(All) \in Stages \cup {"none"}
  BY <1>0, <1>1, SequenceIs, LastTypes DEF LinesInv
<1>3. /\ rec' = [at |-> "event", sequence |-> Len(All), last |-> LastCompleted(All)]
      /\ run' = [run EXCEPT !.interruption = TRUE]
      /\ journal' = journal /\ writing' = writing /\ saved' = saved /\ pc' = pc
      /\ window' = window /\ run.summary \in {"none", "interrupted"}
  BY <1>1, <1>2 DEF RecoverBegin
<1>4. TypeOK' /\ run'.summary = run.summary /\ run'.last = run.last
  BY <1>0, <1>2, <1>3 DEF TypeOK
<1>5. Full' = Full /\ All' = All /\ WindowInv'
  BY <1>0, <1>3, LinesAlone, WindowAlone
<1>6. OneWriter'
  BY <1>0, <1>1, <1>3, <1>4 DEF OneWriter
<1>7. LinesInv'
  BY <1>0, <1>1, <1>3, <1>5 DEF LinesInv, Grammar, AtLineStart, Numbered
<1>8. EndInv'
  BY <1>0, <1>1, <1>3, <1>4, <1>5
     DEF EndInv, Solving, NotInterrupted, InterruptedIsLast, EndsWith, IsFinal,
         LastCompleted, Completed
<1>9. CheckpointInv'
  BY <1>0, <1>1, <1>3, <1>5 DEF CheckpointInv, Reached, NamesPassed, Saved, Before,
     EventsPassed, OnceEach, HasCheckpoints, Completed, Now
<1> QED
  BY <1>4, <1>5, <1>6, <1>7, <1>8, <1>9 DEF IInv

\* The recovery records that the run was interrupted, once.
LEMMA RecoverEventStep == ASSUME IInv, RecoverEvent PROVE IInv'
<1>0. /\ TypeOK /\ OneWriter /\ LinesInv /\ EndInv /\ WindowInv /\ CheckpointInv
      /\ All \in Seq(Entry) /\ Len(All) \in Nat /\ OnceEach(All) /\ HasCheckpoints(All)
  BY Parts
<1>1. /\ rec.at = "event" /\ pc.at = "dead" /\ writing = <<>> /\ Events(journal) = All
      /\ rec.sequence = Len(All) /\ rec.last = LastCompleted(All)
      /\ run.summary \in {"none", "interrupted"}
  BY <1>0, Parts DEF RecoverEvent, OneWriter, LinesInv, EndInv
<1>2. /\ journal' = journal /\ saved' = saved /\ run' = run /\ pc' = pc /\ window' = window
      /\ rec' = [rec EXCEPT !.at = "summary"]
  BY DEF RecoverEvent
<1>3. /\ rec'.at = "summary" /\ rec'.sequence = rec.sequence /\ rec'.last = rec.last
      /\ rec' \in [at : {"idle", "event", "summary", "seal"}, sequence : Nat,
                   last : Stages \cup {"none"}]
  BY <1>0, <1>2 DEF TypeOK
<1>4. WindowInv'
  BY <1>0, <1>2, WindowAlone
<1>5. CASE HasInterrupted
  <2>1. writing' = writing
    BY <1>1, <1>5 DEF RecoverEvent
  <2>2. Full' = Full /\ All' = All
    BY <1>2, <2>1, LinesAlone
  <2>3. EndsWith(All, "interrupted")
    <3>1. PICK k \in DOMAIN All : IsFinal(All[k], "interrupted")
      BY <1>1, <1>5 DEF HasInterrupted, IsFinal
    <3>2. k = Len(All)
      BY <1>0, <3>1 DEF EndInv, InterruptedIsLast
    <3> QED
      BY <1>0, <3>1, <3>2 DEF EndsWith
  <2>4. TypeOK'
    BY <1>0, <1>2, <1>3, <2>1 DEF TypeOK
  <2>5. OneWriter'
    BY <1>0, <1>1, <1>2, <1>3, <2>1 DEF OneWriter
  <2>6. LinesInv'
    BY <1>0, <1>1, <1>2, <1>3, <2>2 DEF LinesInv, Grammar, AtLineStart, Numbered
  <2>7. EndInv' /\ CheckpointInv'
    BY <1>1, <1>2, <1>3, <2>2, <2>3, EventsAlone
  <2> QED
    BY <1>4, <2>4, <2>5, <2>6, <2>7 DEF IInv
<1>6. CASE ~HasInterrupted
  <2>1. PICK e \in Entry : e = Final(Len(All) + 1, "interrupted")
    BY <1>0, FinalType DEF States
  <2>2. /\ e.seq = Len(All) + 1 /\ e.stage = "RUN_FINALIZED" /\ e.state = "interrupted"
        /\ IsFinal(e, "interrupted")
    BY <2>1 DEF Final, IsFinal
  <2>3. writing' = Separator \o Line(e)
    BY <1>1, <1>6, <2>1 DEF RecoverEvent
  <2>4. Grammar(Full)' /\ Adds(All', All, e)
    BY <1>0, <1>1, <1>2, <2>3, RecoveryAdds DEF LinesInv
  <2>5. writing' \in Seq(Piece)
    BY <2>3, PieceTypes DEF Separator
  <2>6. TypeOK'
    BY <1>0, <1>2, <1>3, <2>5 DEF TypeOK
  <2>7. PICK es \in Seq(Entry) : es = All'
    BY <2>6, AllType
  <2>8. NotInterrupted(All)
    BY <1>1, <1>6 DEF NotInterrupted, IsFinal, HasInterrupted
  <2>9. run.summary = "none"
    <3>1. run.summary = "interrupted" => EndsWith(All, "interrupted")
      BY <1>0 DEF EndInv
    <3>2. EndsWith(All, "interrupted") => ~NotInterrupted(All)
      BY <1>0 DEF EndsWith, NotInterrupted
    <3> QED
      BY <1>1, <2>8, <3>1, <3>2
  <2>10. EndsWith(es, "interrupted") /\ InterruptedIsLast(es)
    BY <1>0, <2>2, <2>4, <2>7, <2>8, EndAdded
  <2>11. OnceEach(es) /\ HasCheckpoints(es) /\ LastCompleted(es) = LastCompleted(All)
    BY <1>0, <2>2, <2>4, <2>7, FinalAdded
  <2>12. Numbered(es)
    BY <1>0, <2>2, <2>4, <2>7, NumberedAdded DEF LinesInv
  <2>13. OneWriter'
    BY <1>1, <1>2, <1>3, <2>9 DEF OneWriter
  <2>14. LinesInv'
    BY <1>1, <1>2, <1>3, <2>4, <2>7, <2>12 DEF LinesInv, Numbered
  <2>15. EndInv'
    <3>1. InterruptedIsLast(All)' /\ EndsWith(All, "interrupted")'
      BY <2>7, <2>10 DEF InterruptedIsLast, EndsWith, IsFinal
    <3>2. (rec.last = LastCompleted(All))'
      BY <1>1, <1>3, <2>7, <2>11 DEF LastCompleted, Completed
    <3> QED
      BY <1>1, <1>2, <1>3, <2>9, <3>1, <3>2 DEF EndInv, Solving
  <2>16. CheckpointInv'
    BY <1>1, <1>2, <2>7, <2>11, StagesOver DEF Solving
  <2> QED
    BY <1>4, <2>6, <2>13, <2>14, <2>15, <2>16 DEF IInv
<1> QED
  BY <1>5, <1>6

\* The recovery writes the summary the dead worker did not.
LEMMA RecoverSummaryStep == ASSUME IInv, RecoverSummary PROVE IInv'
<1>0. /\ TypeOK /\ OneWriter /\ LinesInv /\ EndInv /\ WindowInv /\ CheckpointInv
  BY Parts
<1>1. /\ rec.at = "summary" /\ pc.at = "dead" /\ writing = <<>>
      /\ rec.last = LastCompleted(All) /\ EndsWith(All, "interrupted")
      /\ run.summary \in {"none", "interrupted"}
  BY <1>0 DEF RecoverSummary, OneWriter, EndInv
<1>2. /\ journal' = journal /\ writing' = writing /\ saved' = saved /\ pc' = pc
      /\ window' = window /\ rec' = [rec EXCEPT !.at = "seal"]
      /\ run' = IF run.summary # "none" THEN run
                ELSE [run EXCEPT !.summary = "interrupted", !.last = rec.last]
  BY DEF RecoverSummary
<1>3. /\ rec'.at = "seal" /\ rec'.sequence = rec.sequence /\ rec'.last = rec.last
      /\ rec' \in [at : {"idle", "event", "summary", "seal"}, sequence : Nat,
                   last : Stages \cup {"none"}]
  BY <1>0, <1>2 DEF TypeOK
<1>4. run'.summary = "interrupted" /\ run'.last = LastCompleted(All)
  BY <1>0, <1>1, <1>2 DEF TypeOK, EndInv
<1>5. TypeOK'
  BY <1>0, <1>2, <1>3 DEF TypeOK
<1>6. Full' = Full /\ All' = All /\ WindowInv'
  BY <1>0, <1>2, LinesAlone, WindowAlone
<1>7. OneWriter'
  BY <1>0, <1>1, <1>2, <1>3 DEF OneWriter
<1>8. LinesInv'
  BY <1>0, <1>1, <1>2, <1>3, <1>6 DEF LinesInv, Grammar, AtLineStart, Numbered
<1>9. EndInv'
  BY <1>0, <1>1, <1>2, <1>3, <1>4, <1>6
     DEF EndInv, Solving, NotInterrupted, InterruptedIsLast, EndsWith, IsFinal,
         LastCompleted, Completed
<1>10. CheckpointInv'
  BY <1>0, <1>2, <1>6 DEF CheckpointInv, Reached, NamesPassed, Saved, Before,
     EventsPassed, OnceEach, HasCheckpoints, Completed, Now
<1> QED
  BY <1>5, <1>6, <1>7, <1>8, <1>9, <1>10 DEF IInv

\* The recovery writes the manifest.
LEMMA RecoverSealStep == ASSUME IInv, RecoverSeal PROVE IInv'
<1>0. /\ TypeOK /\ OneWriter /\ LinesInv /\ EndInv /\ WindowInv /\ CheckpointInv
  BY Parts
<1>1. /\ rec.at = "seal" /\ pc.at = "dead" /\ writing = <<>>
  BY <1>0 DEF RecoverSeal, OneWriter
<1>2. /\ journal' = journal /\ writing' = writing /\ saved' = saved /\ pc' = pc
      /\ window' = window /\ rec' = [rec EXCEPT !.at = "idle"]
      /\ run' = [run EXCEPT !.manifest = TRUE]
  BY DEF RecoverSeal
<1>3. TypeOK' /\ rec'.at = "idle" /\ run'.summary = run.summary /\ run'.last = run.last
  BY <1>0, <1>2 DEF TypeOK
<1>6. Full' = Full /\ All' = All /\ WindowInv'
  BY <1>0, <1>2, LinesAlone, WindowAlone
<1>7. OneWriter'
  BY <1>0, <1>1, <1>2, <1>3 DEF OneWriter
<1>8. LinesInv'
  BY <1>0, <1>1, <1>2, <1>3, <1>6 DEF LinesInv, Grammar, AtLineStart, Numbered
<1>9. EndInv'
  BY <1>0, <1>1, <1>2, <1>3, <1>6
     DEF EndInv, Solving, NotInterrupted, InterruptedIsLast, EndsWith, IsFinal,
         LastCompleted, Completed
<1>10. CheckpointInv'
  BY <1>0, <1>2, <1>6 DEF CheckpointInv, Reached, NamesPassed, Saved, Before,
     EventsPassed, OnceEach, HasCheckpoints, Completed, Now
<1> QED
  BY <1>3, <1>6, <1>7, <1>8, <1>9, <1>10 DEF IInv

-----------------------------------------------------------------------------
(* The window.                                                             *)

\* A slice of a slice
LEMMA SliceOfSlice ==
  ASSUME NEW s, NEW b, NEW m \in Nat \ {0}, NEW n \in Nat, SliceOf(b, s, m, n),
         NEW p \in Nat \ {0}, NEW q \in Nat, q <= (n - m) + 1,
         NEW a, SliceOf(a, b, p, q),
         NEW x, x = (m + p) - 1, NEW y, y = (m + q) - 1
  PROVE  SliceOf(a, s, x, y)
<1>1. x \in Nat \ {0} /\ y \in Nat /\ (p <= q <=> x <= y) /\ y - x = q - p
  OBVIOUS
<1>2. a \in Seq(Piece) /\ Len(a) = IF x <= y THEN (y - x) + 1 ELSE 0
  BY <1>1 DEF SliceOf
<1>3. ASSUME NEW i \in 1..(y - x) + 1 PROVE a[i] = s[(x + i) - 1]
  <2>1. i \in 1..(q - p) + 1
    BY <1>1
  <2>2. PICK k \in 1..(n - m) + 1 : k = (p + i) - 1
    BY <2>1
  <2>3. a[i] = b[k] /\ b[k] = s[(m + k) - 1]
    BY <2>1, <2>2 DEF SliceOf
  <2>4. (m + k) - 1 = (x + i) - 1
    BY <2>1, <2>2
  <2> QED
    BY <2>3, <2>4
<1> QED
  BY <1>2, <1>3 DEF SliceOf

\* Events that are numbered are in their places.
PlaceIn(all, k) ==
  Cardinality({j \in DOMAIN all :
                 all[j].seq < all[k].seq \/ (all[j].seq = all[k].seq /\ j < k)}) + 1

\* A timeline that is numbered is shown in the order of the file.
LEMMA ShownNumbered ==
  ASSUME NEW a \in Seq(Entry), NEW b \in Seq(Entry), Numbered(Joined(a, b))
  PROVE  Shown(a, b) = Joined(a, b)
<1>1. PICK all \in Seq(Entry) : all = Joined(a, b)
  BY JoinedAt
<1>2. Shown(a, b) = [i \in DOMAIN all |-> all[CHOOSE k \in DOMAIN all : PlaceIn(all, k) = i]]
  BY <1>1 DEF Shown, PlaceIn, Joined
<1>3. PICK n \in Nat : n = Len(all) /\ DOMAIN all = 1..n
  OBVIOUS
<1>4. \A k \in 1..n : all[k].seq = k
  BY <1>1, <1>3 DEF Numbered
<1>5. ASSUME NEW k \in 1..n PROVE PlaceIn(all, k) = k
  <2>0. PICK S : S = {j \in DOMAIN all :
                   all[j].seq < all[k].seq \/ (all[j].seq = all[k].seq /\ j < k)}
    OBVIOUS
  <2>1. S = 1..(k - 1)
    BY <1>3, <1>4, <2>0
  <2>2. Cardinality(1..(k - 1)) = k - 1
    <3>1. 1 \in Int /\ k - 1 \in Int
      BY <1>3
    <3>2. Cardinality(1..(k - 1)) = IF 1 > k - 1 THEN 0 ELSE ((k - 1) - 1) + 1
      BY <3>1, FS_Interval
    <3> QED
      BY <3>2, <1>3
  <2>3. PlaceIn(all, k) = Cardinality(S) + 1
    BY <2>0, Zenon DEF PlaceIn
  <2> QED
    BY <2>1, <2>2, <2>3, <1>3
<1>6. ASSUME NEW i \in 1..n PROVE (CHOOSE k \in DOMAIN all : PlaceIn(all, k) = i) = i
  <2>1. \A k \in DOMAIN all : PlaceIn(all, k) = i <=> k = i
    BY <1>3, <1>5
  <2>2. i \in DOMAIN all
    BY <1>3
  <2> QED
    BY <2>1, <2>2
<1>7. Shown(a, b) = [i \in 1..n |-> all[i]]
  BY <1>2, <1>3, <1>6
<1>8. all = [i \in 1..n |-> all[i]]
  BY <1>3
<1> QED
  BY <1>1, <1>7, <1>8

\* The window takes up to the last newline of what it read.
LEMMA EndedIs ==
  ASSUME NEW bytes \in Seq(Piece)
  PROVE  Ended(bytes) \in 0..Len(bytes) /\ (Ended(bytes) # 0 => bytes[Ended(bytes)] = Newline)
<1>1. PICK n \in Nat : n = Len(bytes) /\ DOMAIN bytes = 1..n
  OBVIOUS
<1>2. PICK S : S = {0} \cup {i \in DOMAIN bytes : bytes[i] = Newline}
  OBVIOUS
<1>3. S \in SUBSET (0..n) /\ S # {}
  BY <1>1, <1>2
<1>4. Max(S) \in S
  BY <1>3, MaxIsGreatest
<1> QED
  BY <1>1, <1>2, <1>4 DEF Ended

\* The lines before a place where one begins, and those up to another, are all of
\* those up to there.
LEMMA LinesUpTo ==
  ASSUME NEW s \in Seq(Piece), NEW d \in Nat, d <= Len(s), NEW c \in 0..d,
         c # 0 => s[c] = Newline, Numbered(Events(s)), Grammar(s)
  PROVE  /\ Events(SubSeq(s, 1, d))
              = Joined(Events(SubSeq(s, 1, c)), Events(SubSeq(s, c + 1, d)))
         /\ Events(SubSeq(s, 1, c)) \in Seq(Entry) /\ Events(SubSeq(s, c + 1, d)) \in Seq(Entry)
         /\ Numbered(Events(SubSeq(s, 1, d)))
         /\ Begins(Events(SubSeq(s, 1, d)), Events(s))
<1>1. /\ Len(s) \in Nat /\ 1 \in Nat \ {0} /\ c \in Nat /\ c <= Len(s) /\ c + 1 \in Nat \ {0}
      /\ d + 1 \in Nat \ {0} /\ Len(s) <= Len(s)
  OBVIOUS
<1>2. PICK a, b, p, r : /\ a = SubSeq(s, 1, c) /\ b = SubSeq(s, c + 1, d)
                        /\ p = SubSeq(s, 1, d) /\ r = SubSeq(s, d + 1, Len(s))
  OBVIOUS
<1>3. /\ SliceOf(a, s, 1, c) /\ SliceOf(b, s, c + 1, d) /\ SliceOf(p, s, 1, d)
      /\ SliceOf(r, s, d + 1, Len(s))
  BY <1>1, <1>2, SliceIs
<1>4. a \in Seq(Piece) /\ b \in Seq(Piece) /\ p \in Seq(Piece) /\ r \in Seq(Piece)
  BY <1>3 DEF SliceOf
<1>5. p = a \o b
  <2>1. 1 \in 1..Len(s) + 1 /\ c \in (1 - 1)..Len(s) /\ d \in c..Len(s)
    BY <1>1
  <2> QED
    BY <1>2, <2>1, ConcatAdjacentSubSeq
<1>6. s = p \o r
  <2>1. 1 \in 1..Len(s) + 1 /\ d \in (1 - 1)..Len(s) /\ Len(s) \in d..Len(s)
    BY <1>1
  <2>2. SubSeq(s, 1, d) \o SubSeq(s, d + 1, Len(s)) = SubSeq(s, 1, Len(s))
    BY <2>1, ConcatAdjacentSubSeq
  <2>3. SubSeq(s, 1, Len(s)) = s
    OBVIOUS
  <2> QED
    BY <1>2, <2>2, <2>3
<1>7. AtLineStart(a)
  <2>1. CASE c = 0
    <3>1. Len(a) = 0
      BY <1>3, <2>1 DEF SliceOf
    <3>2. a = <<>>
      BY <1>4, <3>1
    <3> QED
      BY <3>2 DEF AtLineStart
  <2>2. CASE c # 0
    <3>1. Len(a) = (c - 1) + 1 /\ c \in 1..(c - 1) + 1
      BY <1>1, <1>3, <2>2 DEF SliceOf
    <3>2. a[c] = s[(1 + c) - 1]
      BY <1>3, <3>1 DEF SliceOf
    <3>3. Len(a) = c /\ a[c] = s[c]
      BY <1>1, <3>1, <3>2
    <3> QED
      BY <2>2, <3>3 DEF AtLineStart
  <2> QED
    BY <2>1, <2>2
<1>8. Events(a \o b) = Events(a) \o Events(b)
  BY <1>4, <1>7, EventsConcat
<1>9. Begins(Events(p), Events(p \o r))
  BY <1>4, <1>6, EventsGrow
<1>10. Events(p) \in Seq(Entry) /\ Events(s) \in Seq(Entry) /\ Events(a) \in Seq(Entry)
       /\ Events(b) \in Seq(Entry)
  BY <1>4, EventsType
<1>11. Begins(Events(p), Events(s))
  BY <1>6, <1>9
<1>12. Numbered(Events(p))
  BY <1>10, <1>11, Cutting
<1>13. Events(p) = Joined(Events(a), Events(b))
  BY <1>5, <1>8 DEF Joined
<1> QED
  BY <1>2, <1>10, <1>11, <1>12, <1>13

\* The window reads what was added and shows its complete lines.
LEMMA FollowStep == ASSUME IInv, Follow PROVE IInv'
<1>0. /\ TypeOK /\ OneWriter /\ LinesInv /\ EndInv /\ WindowInv /\ CheckpointInv
      /\ All \in Seq(Entry) /\ Len(All) \in Nat
  BY Parts
<1>1. PICK L \in Nat, o \in Nat, c \in Nat :
        /\ L = Len(journal) /\ o = window.offset /\ o < L /\ c <= o
        /\ window.tail = SubSeq(journal, c + 1, o)
        /\ c # 0 => journal[c] = Newline
        /\ window.timeline = Events(SubSeq(journal, 1, c))
        /\ journal \in Seq(Piece)
  <2>1. window.offset \in Nat /\ Len(journal) \in Nat /\ journal \in Seq(Piece)
    BY <1>0 DEF TypeOK
  <2>2. PICK o \in Nat : o = window.offset
    BY <2>1
  <2>3. PICK c \in 0..o : c = Cut
    BY <1>0, <2>2 DEF WindowInv
  <2>4. o < Len(journal)
    BY <2>2 DEF Follow
  <2>5. /\ window.tail = SubSeq(journal, c + 1, o)
        /\ c # 0 => journal[c] = Newline
        /\ window.timeline = Events(SubSeq(journal, 1, c))
    BY <1>0, <2>2, <2>3 DEF WindowInv
  <2>6. PICK L \in Nat : L = Len(journal)
    BY <2>1
  <2>7. c \in Nat /\ c <= o /\ o < L
    BY <2>3, <2>4, <2>6
  <2> QED
    BY <2>1, <2>2, <2>5, <2>6, <2>7
<1>2. PICK bytes : /\ bytes = SubSeq(journal, c + 1, L)
                   /\ bytes = window.tail \o SubSeq(journal, window.offset + 1, Len(journal))
  <2>1. c + 1 \in 1..Len(journal) + 1 /\ o \in ((c + 1) - 1)..Len(journal) /\ L \in o..Len(journal)
    BY <1>1
  <2>2. SubSeq(journal, c + 1, o) \o SubSeq(journal, o + 1, L) = SubSeq(journal, c + 1, L)
    BY <1>1, <2>1, ConcatAdjacentSubSeq
  <2> QED
    BY <1>1, <2>2
<1>3. SliceOf(bytes, journal, c + 1, L)
  <2>1. c + 1 \in Nat \ {0} /\ L <= Len(journal)
    BY <1>1
  <2> QED
    BY <1>1, <1>2, <2>1, SliceIs
<1>4. bytes \in Seq(Piece) /\ Len(bytes) = L - c /\ L - c \in Nat \ {0}
  BY <1>1, <1>3 DEF SliceOf
<1>5. PICK end \in 0..(L - c) : end = Ended(bytes) /\ (end # 0 => bytes[end] = Newline)
  BY <1>4, EndedIs
<1>6. PICK d \in Nat : d = c + end /\ d <= L /\ c <= d
  BY <1>1, <1>4, <1>5
<1>7. PICK lines, tail : lines = SubSeq(bytes, 1, end) /\ tail = SubSeq(bytes, end + 1, Len(bytes))
  OBVIOUS
<1>8. SliceOf(lines, bytes, 1, end) /\ SliceOf(tail, bytes, end + 1, L - c)
  <2>1. 1 \in Nat \ {0} /\ end \in Nat /\ end <= Len(bytes) /\ end + 1 \in Nat \ {0}
        /\ L - c \in Nat /\ L - c <= Len(bytes)
    BY <1>4, <1>5
  <2> QED
    BY <1>4, <1>7, <2>1, SliceIs
<1>9. SliceOf(lines, journal, c + 1, d) /\ SliceOf(tail, journal, d + 1, L)
  <2>1. /\ c + 1 \in Nat \ {0} /\ 1 \in Nat \ {0} /\ end \in Nat /\ end <= (L - (c + 1)) + 1
        /\ c + 1 = ((c + 1) + 1) - 1 /\ d = ((c + 1) + end) - 1
    BY <1>1, <1>4, <1>5, <1>6
  <2>2. SliceOf(lines, journal, c + 1, d)
    BY <1>3, <1>8, <2>1, SliceOfSlice
  <2>3. /\ end + 1 \in Nat \ {0} /\ L - c \in Nat /\ L - c <= (L - (c + 1)) + 1
        /\ d + 1 = ((c + 1) + (end + 1)) - 1 /\ L = ((c + 1) + (L - c)) - 1
    <3>1. c < L /\ end \in Nat /\ end <= L - c /\ d = c + end
      BY <1>1, <1>4, <1>5, <1>6
    <3>2. end + 1 \in Nat \ {0} /\ L - c \in Nat /\ L - c <= (L - (c + 1)) + 1
      BY <3>1
    <3>3. d + 1 = ((c + 1) + (end + 1)) - 1
      BY <3>1
    <3>4. L = ((c + 1) + (L - c)) - 1
      BY <3>1
    <3> QED
      BY <3>2, <3>3, <3>4
  <2>4. SliceOf(tail, journal, d + 1, L)
    BY <1>3, <1>8, <2>1, <2>3, SliceOfSlice
  <2> QED
    BY <2>2, <2>4
<1>10. lines = SubSeq(journal, c + 1, d) /\ tail = SubSeq(journal, d + 1, L)
  <2>1. /\ c + 1 \in Nat \ {0} /\ d + 1 \in Nat \ {0} /\ d <= Len(journal) /\ L <= Len(journal)
    BY <1>1, <1>6
  <2>2. PICK a, b : a = SubSeq(journal, c + 1, d) /\ b = SubSeq(journal, d + 1, L)
    OBVIOUS
  <2>3. SliceOf(a, journal, c + 1, d) /\ SliceOf(b, journal, d + 1, L)
    BY <1>1, <2>1, <2>2, SliceIs
  <2>4. lines = a
    BY <1>9, <2>1, <2>3, SliceUnique
  <2>5. tail = b
    BY <1>9, <2>1, <2>3, SliceUnique
  <2> QED
    BY <2>2, <2>4, <2>5
<1>11. d # 0 => journal[d] = Newline
  <2>1. CASE end = 0
    BY <1>1, <1>6, <2>1
  <2>2. CASE end # 0
    <3>1. end \in 1..(L - (c + 1)) + 1 /\ d = ((c + 1) + end) - 1
      BY <1>1, <1>4, <1>5, <1>6, <2>2
    <3>2. bytes[end] = journal[d]
      BY <1>3, <3>1 DEF SliceOf
    <3> QED
      BY <1>5, <2>2, <3>2
  <2> QED
    BY <2>1, <2>2
<1>12. /\ Grammar(journal) /\ Numbered(Events(journal))
  <2>1. Grammar(journal)
    <3>1. writing \in Seq(Piece) /\ Grammar(journal \o writing)
      BY <1>0 DEF LinesInv, Full, Joined, TypeOK
    <3> QED
      BY <1>1, <3>1, GrammarPrefix
  <2>2. Begins(Events(journal), All) /\ Events(journal) \in Seq(Entry)
    BY <1>0, JournalBegins DEF LinesInv
  <2> QED
    BY <1>0, <2>1, <2>2, Cutting DEF LinesInv
<1>13. PICK shown, more, then : /\ shown = Events(SubSeq(journal, 1, c))
                                /\ more = Events(SubSeq(journal, c + 1, d))
                                /\ then = Events(SubSeq(journal, 1, d))
  OBVIOUS
<1>14. then = Joined(shown, more) /\ shown \in Seq(Entry) /\ more \in Seq(Entry) /\ Numbered(then)
  <2>1. c \in 0..d /\ d <= Len(journal)
    BY <1>1, <1>6
  <2> QED
    BY <1>1, <1>12, <1>13, <2>1, LinesUpTo
<1>15. Shown(shown, more) = then
  BY <1>14, ShownNumbered
<1>16. window' = [offset |-> L, tail |-> tail, timeline |-> then]
  <2>1. window' = [offset |-> Len(journal), tail |-> SubSeq(bytes, Ended(bytes) + 1, Len(bytes)),
                   timeline |-> Shown(window.timeline, Events(SubSeq(bytes, 1, Ended(bytes))))]
    BY <1>2 DEF Follow
  <2>2. window' = [offset |-> L, tail |-> tail,
                   timeline |-> Shown(window.timeline, Events(lines))]
    BY <1>1, <1>5, <1>7, <2>1
  <2>3. window.timeline = shown /\ Events(lines) = more
    BY <1>1, <1>10, <1>13
  <2> QED
    BY <1>15, <2>2, <2>3
<1>17. /\ journal' = journal /\ writing' = writing /\ saved' = saved /\ run' = run
       /\ pc' = pc /\ rec' = rec
  BY DEF Follow, disk
<1>18. tail \in Seq(Piece) /\ Len(tail) = L - d
  <2>1. tail \in Seq(Piece) /\ Len(tail) = IF d + 1 <= L THEN (L - (d + 1)) + 1 ELSE 0
    BY <1>9 DEF SliceOf
  <2> QED
    BY <2>1, <1>1, <1>6
<1>19. then \in Seq(Entry)
  BY <1>14, JoinedAt
<1>20. TypeOK'
  BY <1>0, <1>1, <1>16, <1>17, <1>18, <1>19 DEF TypeOK
<1>21. Full' = Full /\ All' = All
  BY <1>17, LinesAlone
<1>22. OneWriter'
  BY <1>0, <1>17 DEF OneWriter
<1>23. LinesInv'
  BY <1>0, <1>17, <1>21 DEF LinesInv, Grammar, AtLineStart, Numbered
<1>24. EndInv' /\ CheckpointInv'
  BY <1>0, <1>17, <1>21, EventsAlone DEF EndInv, OneWriter
<1>25. Cut' = d
  <2>1. window'.offset = L /\ Len(window'.tail) = L - d
    BY <1>16, <1>18
  <2>2. L - (L - d) = d
    BY <1>1, <1>6
  <2> QED
    BY <2>1, <2>2 DEF Cut
<1>26. WindowInv'
  <2>1. window'.offset = L /\ window'.tail = SubSeq(journal', d + 1, L)
        /\ window'.timeline = Events(SubSeq(journal', 1, d))
    BY <1>10, <1>13, <1>16, <1>17
  <2>2. L <= Len(journal') /\ d \in 0..L /\ (d # 0 => journal'[d] = Newline)
    BY <1>1, <1>6, <1>11, <1>17
  <2> QED
    BY <1>25, <2>1, <2>2 DEF WindowInv
<1> QED
  BY <1>20, <1>22, <1>23, <1>24, <1>26 DEF IInv

-----------------------------------------------------------------------------
(* The invariant, and what follows from it.                                *)

\* A step of the controller that touches none of the files keeps IInv.
LEMMA Idle ==
  ASSUME IInv, UNCHANGED <<disk, pc, rec, window>>
  PROVE  IInv'
<1>0. /\ TypeOK /\ OneWriter /\ LinesInv /\ EndInv /\ WindowInv /\ CheckpointInv
  BY Parts
<1>1. /\ journal' = journal /\ writing' = writing /\ saved' = saved /\ run' = run
      /\ pc' = pc /\ rec' = rec /\ window' = window
  BY DEF disk
<1>2. Full' = Full /\ All' = All /\ WindowInv'
  BY <1>0, <1>1, LinesAlone, WindowAlone
<1>3. TypeOK' /\ OneWriter'
  BY <1>0, <1>1 DEF TypeOK, OneWriter
<1>4. LinesInv'
  BY <1>0, <1>1, <1>2 DEF LinesInv, Grammar, AtLineStart, Numbered
<1>5. EndInv' /\ CheckpointInv'
  BY <1>0, <1>1, <1>2, EventsAlone DEF EndInv, OneWriter
<1> QED
  BY <1>2, <1>3, <1>4, <1>5 DEF IInv

\* IInv holds in the initial state.
LEMMA InitIInv == Init => IInv
<1> SUFFICES ASSUME Init PROVE IInv
  OBVIOUS
<1>1. /\ journal = <<>> /\ writing = <<>> /\ saved = {}
      /\ run = [interruption |-> FALSE, summary |-> "none", last |-> "none", manifest |-> FALSE]
      /\ pc = [at |-> "step", i |-> 1, attempt |-> 1, sequence |-> 0,
               outcome |-> "none", last |-> "none"]
      /\ rec = [at |-> "idle", sequence |-> 0, last |-> "none"]
      /\ window = [offset |-> 0, tail |-> <<>>, timeline |-> <<>>]
  BY DEF Init
<1>2. <<>> \in Seq(Piece) /\ <<>> \in Seq(Entry)
  OBVIOUS
<1>3. 1 \in DOMAIN Program
  BY ProgramIs
<1>4. TypeOK
  BY <1>1, <1>2, <1>3 DEF TypeOK, Solving
<1>5. Full = <<>> /\ All = <<>>
  <2>1. Joined(<<>>, <<>>) = <<>>
    BY <1>2, ConcatEmptySeq DEF Joined
  <2> QED
    BY <1>1, <2>1, EventsEmpty DEF Full, All
<1>6. OneWriter
  BY <1>1 DEF OneWriter
<1>7. LinesInv
  BY <1>1, <1>5 DEF LinesInv, Grammar, AtLineStart, Numbered
<1>8. EndInv
  BY <1>1, <1>5 DEF EndInv, NotFinal, NotInterrupted, InterruptedIsLast, Solving
<1>9. CheckpointInv
  BY <1>1, <1>5 DEF CheckpointInv, Reached, NamesPassed, EventsPassed, OnceEach,
                    HasCheckpoints, Completed
<1>10. WindowInv
  <2>1. SubSeq(<<>>, 1, 0) = <<>>
    OBVIOUS
  <2>2. Cut = 0
    BY <1>1 DEF Cut
  <2>3. window.tail = <<>> /\ window.timeline = <<>> /\ window.offset = 0 /\ Len(journal) = 0
    BY <1>1
  <2>4. SubSeq(journal, 0 + 1, 0) = <<>> /\ SubSeq(journal, 1, 0) = <<>>
    BY <1>1, <2>1
  <2>5. /\ window.tail = SubSeq(journal, Cut + 1, window.offset)
        /\ window.timeline = Events(SubSeq(journal, 1, Cut))
    BY <2>2, <2>3, <2>4, EventsEmpty, Zenon
  <2>6. window.offset <= Len(journal) /\ Cut \in 0..window.offset /\ ~(Cut # 0)
    BY <2>2, <2>3
  <2> QED
    BY <2>5, <2>6 DEF WindowInv
<1> QED
  BY <1>4, <1>6, <1>7, <1>8, <1>9, <1>10 DEF IInv

\* IInv is inductive.
LEMMA NextIInv == IInv /\ [Next]_vars => IInv'
<1> SUFFICES ASSUME IInv, [Next]_vars PROVE IInv'
  OBVIOUS
<1>1. CASE Solve
  BY <1>1, WriteStep, BeginStep, WorkStep, SaveStep, CloseStep, FinishStep,
     SummariseStep,
     SealStep DEF Solve
<1>2. CASE Recover
  BY <1>2, RecoverBeginStep, RecoverEventStep, RecoverSummaryStep, RecoverSealStep,
     DeathStep
     DEF Recover
<1>3. CASE Follow
  BY <1>3, FollowStep
<1>4. CASE Die
  BY <1>4, DeathStep
<1>5. CASE RequestCancel
  BY <1>5, Idle DEF RequestCancel
<1>6. CASE UNCHANGED vars
  BY <1>6, Idle DEF vars
<1> QED
  BY <1>1, <1>2, <1>3, <1>4, <1>5, <1>6 DEF Next

\* IInv is an invariant of the specification.
THEOREM Invariant == Spec => []IInv
BY InitIInv, NextIInv, PTL DEF Spec

\* What is on disk is the beginning of what will be.
LEMMA Readable ==
  ASSUME IInv
  PROVE  /\ Events(journal) \in Seq(Entry) /\ Begins(Events(journal), All)
         /\ Numbered(Events(journal)) /\ OnceEach(Events(journal))
         /\ HasCheckpoints(Events(journal))
         /\ journal \in Seq(Piece) /\ Grammar(journal)
<1>0. /\ TypeOK /\ LinesInv /\ All \in Seq(Entry) /\ OnceEach(All) /\ HasCheckpoints(All)
  BY Parts
<1>1. journal \in Seq(Piece) /\ writing \in Seq(Piece) /\ Grammar(journal \o writing)
  BY <1>0 DEF LinesInv, Full, Joined, TypeOK
<1>2. Grammar(journal)
  BY <1>1, GrammarPrefix
<1>3. Begins(Events(journal), All) /\ Events(journal) \in Seq(Entry)
  BY <1>0, JournalBegins DEF LinesInv
<1> QED
  BY <1>0, <1>1, <1>2, <1>3, Cutting DEF LinesInv

\* IInv has CompletedIsSaved for a consequence.
LEMMA CompletedIsSavedFollows == IInv => CompletedIsSaved
<1> SUFFICES ASSUME IInv PROVE CompletedIsSaved
  OBVIOUS
<1>1. pc.at # "raised"
  BY DEF IInv, TypeOK, Solving
<1>2. OnceEach(Events(journal)) /\ HasCheckpoints(Events(journal))
  BY Readable
<1> QED
  BY <1>1, <1>2 DEF CompletedIsSaved, OnceEach, HasCheckpoints

\* IInv has SummaryIsJournal for a consequence.
LEMMA SummaryIsJournalFollows == IInv => SummaryIsJournal
<1> SUFFICES ASSUME IInv, run.summary # "none" PROVE SummaryIsJournal
  BY DEF SummaryIsJournal
<1>1. EndsWith(All, run.summary) /\ run.last = LastCompleted(All) /\ Events(journal) = All
  BY Parts DEF EndInv, OneWriter
<1> QED
  BY <1>1 DEF SummaryIsJournal, EndsWith, IsFinal, Last

\* IInv has TimelineFollows for a consequence.
LEMMA TimelineFollowsFollows == IInv => TimelineFollows
<1> SUFFICES ASSUME IInv PROVE TimelineFollows
  OBVIOUS
<1>1. /\ journal \in Seq(Piece) /\ Grammar(journal) /\ Numbered(Events(journal))
      /\ Events(journal) \in Seq(Entry)
  BY Readable
<1>2. /\ window.offset \in Nat /\ window.offset <= Len(journal) /\ Cut \in 0..window.offset
      /\ Cut # 0 => journal[Cut] = Newline
      /\ window.timeline = Events(SubSeq(journal, 1, Cut))
  BY DEF IInv, WindowInv, TypeOK
<1>3. PICK c \in Nat : c = Cut /\ c <= Len(journal)
  BY <1>1, <1>2
<1>4. PICK es \in Seq(Entry), ts \in Seq(Entry) :
        es = Events(journal) /\ ts = Events(SubSeq(journal, 1, c)) /\ Begins(ts, es)
  <2>1. c \in 0..c
    BY <1>3
  <2> QED
    BY <1>1, <1>2, <1>3, <2>1, LinesUpTo
<1>5. IsPrefix(ts, es)
  BY <1>4 DEF IsPrefix, Begins
<1>6. ASSUME window.offset = Len(journal), window.tail = <<>>
      PROVE  window.timeline = es
  <2>1. c = Len(journal)
    BY <1>1, <1>2, <1>3, <1>6 DEF Cut
  <2>2. SubSeq(journal, 1, Len(journal)) = journal
    BY <1>1
  <2> QED
    BY <1>2, <1>3, <1>4, <2>1, <2>2
<1> QED
  BY <1>1, <1>2, <1>3, <1>4, <1>5, <1>6 DEF TimelineFollows, Numbered

\* A stage that is said to be complete has its checkpoint, once in an attempt, and no
\* checkpoint was refused as taken.
THEOREM CompletedIsSavedHolds == Spec => []CompletedIsSaved
BY Invariant, CompletedIsSavedFollows, PTL

\* A summary says how the journal ends.
THEOREM SummaryIsJournalHolds == Spec => []SummaryIsJournal
BY Invariant, SummaryIsJournalFollows, PTL

\* The events are numbered without a gap, and the window shows them so.
THEOREM TimelineFollowsHolds == Spec => []TimelineFollows
BY Invariant, TimelineFollowsFollows, PTL
===============================================================================
