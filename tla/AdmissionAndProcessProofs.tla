---------------------- MODULE AdmissionAndProcessProofs -----------------------
(*****************************************************************************)
(* Proofs about CaseAdmission: what is executed is the frozen design, and a  *)
(* repair changes the numbers of its envelope and nothing else, for every    *)
(* set of scenarios, whatever the author and the repair model answer, and    *)
(* for any number of attempts. After them, about SupervisedProcess, which    *)
(* runs what was admitted. The two parts share nothing.                      *)
(*****************************************************************************)
EXTENDS CaseAdmission, SupervisedProcess, FiniteSetTheorems, SequenceTheorems, TLAPS

-----------------------------------------------------------------------------
(* Sequences.                                                               *)

\* A sequence of whatever its elements are.
IsSequence(s) == s \in Seq(Range(s))

LEMMA AppendKeeps ==
    ASSUME NEW s, IsSequence(s), NEW e
    PROVE  /\ IsSequence(Append(s, e))
           /\ Len(s) \in Nat
           /\ DOMAIN s = 1..Len(s)
           /\ Len(Append(s, e)) = Len(s) + 1
           /\ DOMAIN Append(s, e) = 1..Len(s) + 1
           /\ \A i \in 1..Len(s) : Append(s, e)[i] = s[i]
           /\ Append(s, e)[Len(s) + 1] = e
PROOF
<1> DEFINE S == Range(s) \cup {e}
           t == Append(s, e)
<1>1. s \in Seq(S) /\ e \in S
  <2>1. Range(s) \subseteq S
    OBVIOUS
  <2> QED BY <2>1 DEF IsSequence
<1>2. /\ Len(s) \in Nat
      /\ DOMAIN s = 1..Len(s)
      /\ t \in Seq(S)
      /\ Len(t) = Len(s) + 1
      /\ \A i \in 1..Len(s) : t[i] = s[i]
      /\ t[Len(s) + 1] = e
  BY <1>1
<1>3. DOMAIN t = 1..Len(t)
  BY <1>2
<1>4. t \in Seq(Range(t))
  <2>1. \A i \in 1..Len(t) : t[i] \in Range(t)
    BY <1>3 DEF Range
  <2>2. Len(t) \in Nat
    BY <1>2
  <2> QED BY <1>2, <2>1, <2>2, SeqDef
<1> QED BY <1>2, <1>3, <1>4 DEF IsSequence

-----------------------------------------------------------------------------
(* The commands of a plan.                                                  *)

\* A utility in its own stage, or the solver of the design on its ranks.
IsCommand(c) == c = Command(c.id, c.stage, c.executable, c.ranks, c.seconds)
IsUtility(c) == c.executable \in DOMAIN KnownStages /\ c.stage = KnownStages[c.executable]
IsSolver(c, d) == c.executable = Solver(d) /\ c.stage = "solve" /\ c.ranks = Ranks(d)

ProperPlan(steps, d) ==
    /\ IsSequence(steps)
    /\ \A i \in DOMAIN steps : IsCommand(steps[i]) /\ (IsUtility(steps[i]) \/ IsSolver(steps[i], d))

LEMMA ConcatIsSequence ==
    ASSUME NEW s, NEW t, IsSequence(s), IsSequence(t)
    PROVE  /\ IsSequence(s \o t)
           /\ \A i \in DOMAIN (s \o t) :
                \/ \E j \in DOMAIN s : (s \o t)[i] = s[j]
                \/ \E j \in DOMAIN t : (s \o t)[i] = t[j]
PROOF
<1> DEFINE S == Range(s) \cup Range(t)
           u == s \o t
<1>1. s \in Seq(S) /\ t \in Seq(S)
  BY DEF IsSequence
<1>2. /\ Len(s) \in Nat /\ DOMAIN s = 1..Len(s)
      /\ Len(t) \in Nat /\ DOMAIN t = 1..Len(t)
      /\ u \in Seq(S)
      /\ Len(u) = Len(s) + Len(t)
      /\ DOMAIN u = 1..Len(u)
      /\ \A i \in 1..Len(u) : u[i] = IF i <= Len(s) THEN s[i] ELSE t[i - Len(s)]
  BY <1>1
<1>3. u \in Seq(Range(u))
  <2>1. \A i \in 1..Len(u) : u[i] \in Range(u)
    BY <1>2 DEF Range
  <2>2. Len(u) \in Nat /\ u \in [1..Len(u) -> S]
    <3> HIDE DEF u
    <3> QED BY <1>2
  <2>3. u \in [1..Len(u) -> Range(u)]
    <3> HIDE DEF u
    <3> QED BY <2>1, <2>2
  <2> HIDE DEF u
  <2> QED BY <2>2, <2>3, SeqDef
<1>4. ASSUME NEW i \in DOMAIN u
      PROVE  \/ \E j \in DOMAIN s : u[i] = s[j]
             \/ \E j \in DOMAIN t : u[i] = t[j]
  <2>1. CASE i <= Len(s)
    BY <1>2, <2>1
  <2>2. CASE ~(i <= Len(s))
    <3>1. i - Len(s) \in 1..Len(t)
      BY <1>2, <2>2
    <3> QED BY <1>2, <2>2, <3>1
  <2> QED BY <2>1, <2>2
<1> QED BY <1>3, <1>4 DEF IsSequence

LEMMA ConcatIsProper ==
    ASSUME NEW d, NEW s, NEW t, ProperPlan(s, d), ProperPlan(t, d)
    PROVE  ProperPlan(s \o t, d)
PROOF
<1>1. IsSequence(s) /\ IsSequence(t)
  BY DEF ProperPlan
<1>2. IsSequence(s \o t)
  BY <1>1, ConcatIsSequence
<1>3. ASSUME NEW i \in DOMAIN (s \o t)
      PROVE  IsCommand((s \o t)[i]) /\ (IsUtility((s \o t)[i]) \/ IsSolver((s \o t)[i], d))
  <2>1. CASE \E j \in DOMAIN s : (s \o t)[i] = s[j]
    BY <2>1 DEF ProperPlan
  <2>2. CASE \E j \in DOMAIN t : (s \o t)[i] = t[j]
    BY <2>2 DEF ProperPlan
  <2> QED BY <1>1, <1>3, <2>1, <2>2, ConcatIsSequence
<1> QED BY <1>2, <1>3 DEF ProperPlan

LEMMA IndexedIsProper ==
    ASSUME NEW d, NEW n \in Nat, NEW s, DOMAIN s = 1..n, s = [i \in 1..n |-> s[i]],
           \A i \in 1..n : IsCommand(s[i]) /\ (IsUtility(s[i]) \/ IsSolver(s[i], d))
    PROVE  ProperPlan(s, d)
PROOF
<1>1. \A i \in 1..n : s[i] \in Range(s)
  BY DEF Range
<1>2. s \in [1..n -> Range(s)]
  BY <1>1
<1>3. s \in Seq(Range(s))
  BY <1>2, SeqDef
<1> QED BY <1>3 DEF IsSequence, ProperPlan

LEMMA StagesOfUtilities ==
    /\ {"blockMesh", "checkMesh", "decomposePar", "reconstructPar", "postProcess"} = DOMAIN KnownStages
    /\ KnownStages["blockMesh"] = "mesh"
    /\ KnownStages["checkMesh"] = "check"
    /\ KnownStages["decomposePar"] = "decompose"
    /\ KnownStages["reconstructPar"] = "reconstruct"
    /\ KnownStages["postProcess"] = "postprocess"
    /\ \A name \in DOMAIN KnownStages : KnownStages[name] # "solve"
PROOF
BY DEF KnownStages

LEMMA CommandIsCommand ==
    ASSUME NEW id, NEW stage, NEW executable, NEW ranks, NEW seconds
    PROVE  LET c == Command(id, stage, executable, ranks, seconds) IN
           /\ IsCommand(c)
           /\ c.stage = stage /\ c.executable = executable /\ c.ranks = ranks
PROOF
BY DEF IsCommand, Command

\* What the parser sees to in a case: its two parts, finitely many regions, and
\* contents of files.
IsBundle(b) ==
    /\ b = [manifest |-> b.manifest, files |-> b.files]
    /\ IsFiniteSet(DOMAIN b.manifest.regions)
    /\ \A path \in DOMAIN b.files : b.files[path] = Content(b.files[path].entries, b.files[path].traits)

LEMMA RegionsAreCounted ==
    ASSUME NEW b, IsFiniteSet(DOMAIN b.manifest.regions)
    PROVE  Len(RegionsOf(b)) \in Nat
PROOF
<1> DEFINE S == DOMAIN b.manifest.regions
           F == [1..Cardinality(S) -> S]
<1>1. Cardinality(S) \in Nat
  BY FS_CardinalityType
<1>2. \E f \in F : IsInjective(f)
  <2>1. ExistsBijection(1..Cardinality(S), S)
    BY FS_CardinalityType
  <2>2. PICK f \in Bijection(1..Cardinality(S), S) : TRUE
    BY <2>1 DEF ExistsBijection
  <2> QED BY <2>2 DEF Bijection, Injection, IsInjective
<1>3. RegionsOf(b) \in F
  BY <1>2 DEF RegionsOf, SetToSeq
<1> QED BY <1>1, <1>3

LEMMA StepsOfExtensions ==
    ASSUME NEW b, NEW d, NEW task, IsFiniteSet(DOMAIN b.manifest.regions)
    PROVE  /\ ProperPlan(BlockMeshSteps(b, task), d)
           /\ ProperPlan(ProvidedMeshSteps(b, task), d)
           /\ ProperPlan(ParallelSteps(d, task), d)
           /\ (SolverRuns(d) => Ranks(d) = 1) => ProperPlan(SerialSteps(d, task), d)
           /\ ProperPlan(<<>>, d)
PROOF
<1> DEFINE n == Len(RegionsOf(b))
<1>1. n \in Nat
  BY RegionsAreCounted
<1>2. ProperPlan(<<>>, d)
  BY DEF ProperPlan, IsSequence, Range
<1>3. ProperPlan(BlockMeshSteps(b, task), d)
  <2> DEFINE s == BlockMeshSteps(b, task)
             first(i) == Command("block-mesh-" \o RegionsOf(b)[(i + 1) \div 2], "mesh", "blockMesh", 1, Timeout(task, 1))
             second(i) == Command("check-mesh-" \o RegionsOf(b)[i \div 2], "check", "checkMesh", 1, Timeout(task, 1))
  <2>1. s = [i \in 1..2 * n |-> IF i % 2 = 1 THEN first(i) ELSE second(i)]
    BY DEF BlockMeshSteps
  <2>2. \A i : /\ IsCommand(first(i)) /\ IsUtility(first(i))
               /\ IsCommand(second(i)) /\ IsUtility(second(i))
    BY CommandIsCommand, StagesOfUtilities DEF IsUtility
  <2> HIDE DEF first, second, s
  <2>3. /\ DOMAIN s = 1..2 * n
        /\ s = [i \in 1..2 * n |-> s[i]]
        /\ \A i \in 1..2 * n : IsCommand(s[i]) /\ IsUtility(s[i])
    BY <2>1, <2>2
  <2>4. 2 * n \in Nat
    BY <1>1
  <2>5. ProperPlan(s, d)
    BY <2>3, <2>4, IndexedIsProper
  <2> QED BY <2>5 DEF s
<1>4. ProperPlan(ProvidedMeshSteps(b, task), d)
  <2> DEFINE s == ProvidedMeshSteps(b, task)
             check(i) == Command("check-mesh-" \o RegionsOf(b)[i], "check", "checkMesh", 1, Timeout(task, 1))
  <2>1. s = [i \in 1..n |-> check(i)]
    BY DEF ProvidedMeshSteps
  <2>2. \A i : IsCommand(check(i)) /\ IsUtility(check(i))
    BY CommandIsCommand, StagesOfUtilities DEF IsUtility
  <2> HIDE DEF check, s
  <2>3. /\ DOMAIN s = 1..n
        /\ s = [i \in 1..n |-> s[i]]
        /\ \A i \in 1..n : IsCommand(s[i]) /\ IsUtility(s[i])
    BY <2>1, <2>2
  <2>4. ProperPlan(s, d)
    BY <1>1, <2>3, IndexedIsProper
  <2> QED BY <2>4 DEF s
<1>5. ProperPlan(ParallelSteps(d, task), d)
  <2> DEFINE c1 == Command("decompose", "decompose", "decomposePar", 1, Timeout(task, 1))
             c2 == Command("solve", "solve", Solver(d), Ranks(d), Timeout(task, 6))
             c3 == Command("reconstruct", "reconstruct", "reconstructPar", 1, Timeout(task, 1))
             s == <<c1, c2, c3>>
  <2>1. /\ IsCommand(c1) /\ IsUtility(c1)
        /\ IsCommand(c2) /\ IsSolver(c2, d)
        /\ IsCommand(c3) /\ IsUtility(c3)
    BY CommandIsCommand, StagesOfUtilities DEF IsUtility, IsSolver
  <2>2. ParallelSteps(d, task) = IF SolverRuns(d) THEN s ELSE <<>>
    BY DEF ParallelSteps
  <2> HIDE DEF c1, c2, c3
  <2>3. DOMAIN s = 1..3 /\ s = [i \in 1..3 |-> s[i]] /\ s[1] = c1 /\ s[2] = c2 /\ s[3] = c3
    OBVIOUS
  <2>4. \A i \in 1..3 : s[i] \in {c1, c2, c3}
    BY <2>3
  <2> HIDE DEF s
  <2>5. ProperPlan(s, d)
    BY <2>1, <2>3, <2>4, IndexedIsProper
  <2> QED BY <1>2, <2>2, <2>5
<1>6. ASSUME SolverRuns(d) => Ranks(d) = 1
      PROVE  ProperPlan(SerialSteps(d, task), d)
  <2> DEFINE c == Command("solve", "solve", Solver(d), 1, Timeout(task, 7))
             s == <<c>>
  <2>1. IsCommand(c) /\ (SolverRuns(d) => IsSolver(c, d))
    BY <1>6, CommandIsCommand DEF IsSolver
  <2>2. SerialSteps(d, task) = IF SolverRuns(d) THEN s ELSE <<>>
    BY DEF SerialSteps
  <2> HIDE DEF c
  <2>3. DOMAIN s = 1..1 /\ s = [i \in 1..1 |-> s[i]] /\ s[1] = c
    OBVIOUS
  <2> HIDE DEF s
  <2>4. \A i \in 1..1 : s[i] = c
    BY <2>3
  <2>5. ASSUME SolverRuns(d)
        PROVE  ProperPlan(s, d)
    <3>1. \A i \in 1..1 : IsCommand(s[i]) /\ (IsUtility(s[i]) \/ IsSolver(s[i], d))
      BY <2>1, <2>4, <2>5
    <3>2. 1 \in Nat
      OBVIOUS
    <3> QED BY <2>3, <3>1, <3>2, IndexedIsProper
  <2> QED BY <1>2, <2>2, <2>5
<1> QED BY <1>2, <1>3, <1>4, <1>5, <1>6

\* Every compiled plan is proper, its solver on the ranks of the design.
LEMMA CompiledIsProper ==
    ASSUME NEW s \in Scenarios, NEW b, NEW d, IsFiniteSet(DOMAIN b.manifest.regions),
           Supported(d, s.task, s.environment)
    PROVE  ProperPlan(Compiled(b, d, s), d)
PROOF
<1> DEFINE mesh == IF "block-mesh" \in d.extensions THEN BlockMeshSteps(b, s.task) ELSE <<>>
           check == IF "provided" \in d.extensions THEN ProvidedMeshSteps(b, s.task) ELSE <<>>
           parallel == IF "parallel" \in d.extensions THEN ParallelSteps(d, s.task) ELSE <<>>
           serial == IF "serial" \in d.extensions THEN SerialSteps(d, s.task) ELSE <<>>
           steps == Contributed(b, d, s.task)
           posts == ObservationSteps(s.observed, d, s.task, steps)
<1>1. /\ ProperPlan(mesh, d) /\ ProperPlan(check, d)
      /\ ProperPlan(parallel, d) /\ ProperPlan(serial, d)
  BY StepsOfExtensions DEF Supported
<1>2. steps = mesh \o check \o parallel \o serial
  BY DEF Contributed
<1> HIDE DEF mesh, check, parallel, serial
<1>3. ProperPlan(steps, d)
  <2>1. ProperPlan(mesh \o check, d)
    BY <1>1, ConcatIsProper
  <2>2. ProperPlan((mesh \o check) \o parallel, d)
    BY <1>1, <2>1, ConcatIsProper
  <2>3. ProperPlan(((mesh \o check) \o parallel) \o serial, d)
    BY <1>1, <2>2, ConcatIsProper
  <2> QED BY <1>2, <2>3
<1>4. ProperPlan(posts, d)
  <2> DEFINE left == s.task.wall - Seconds(steps)
             p(n) == Command("observe-" \o ToString(n), "postprocess", "postProcess", 1,
                             Larger(1, left \div s.observed.posts))
             t == PostSteps(s.observed, s.task, left)
  <2>1. t = [n \in 1..s.observed.posts |-> p(n)]
    BY DEF PostSteps
  <2>2. \A n : IsCommand(p(n)) /\ IsUtility(p(n))
    BY CommandIsCommand, StagesOfUtilities DEF IsUtility
  <2>3. posts = IF SolverRuns(d) THEN t ELSE <<>>
    BY DEF ObservationSteps
  <2> HIDE DEF p, t
  <2>4. s.observed.posts \in Nat
    BY ScenariosAreScenarios
  <2>5. /\ DOMAIN t = 1..s.observed.posts
        /\ t = [n \in 1..s.observed.posts |-> t[n]]
        /\ \A n \in 1..s.observed.posts : IsCommand(t[n]) /\ IsUtility(t[n])
    BY <2>1, <2>2
  <2>6. ProperPlan(t, d)
    BY <2>4, <2>5, IndexedIsProper
  <2> QED BY <2>3, <2>6, StepsOfExtensions
<1>5. Compiled(b, d, s) = steps \o posts
  BY DEF Compiled
<1> HIDE DEF steps, posts
<1> QED BY <1>3, <1>4, <1>5, ConcatIsProper

\* Normalising a plan changes nothing in a plan that passes the inspection.
LEMMA InspectedIsNormal ==
    ASSUME NEW b, NEW d, NEW steps, NEW task, ProperPlan(steps, d),
           b.manifest.solver = Solver(d), CommandsInspected(b, Normalized(steps), task)
    PROVE  Normalized(steps) = steps
PROOF
<1> DEFINE normal == Normalized(steps)
<1>1. /\ DOMAIN normal = DOMAIN steps
      /\ \A i \in DOMAIN steps :
            normal[i] = IF steps[i].executable \in DOMAIN KnownStages
                        THEN [steps[i] EXCEPT !.stage = KnownStages[steps[i].executable]] ELSE steps[i]
      /\ normal = [i \in DOMAIN steps |-> normal[i]]
  BY DEF Normalized
<1>2. steps = [i \in DOMAIN steps |-> steps[i]]
  BY DEF ProperPlan, IsSequence
<1>3. ASSUME NEW i \in DOMAIN steps
      PROVE  normal[i] = steps[i]
  <2> DEFINE c == steps[i]
  <2>1. IsCommand(c) /\ (IsUtility(c) \/ IsSolver(c, d))
    BY DEF ProperPlan
  <2>2. CASE c.executable \notin DOMAIN KnownStages
    BY <1>1, <2>2
  <2>3. CASE c.executable \in DOMAIN KnownStages /\ IsUtility(c)
    <3>1. normal[i] = [c EXCEPT !.stage = c.stage]
      BY <1>1, <2>3 DEF IsUtility
    <3> QED BY <2>1, <3>1 DEF IsCommand, Command
  <2>4. CASE c.executable \in DOMAIN KnownStages /\ IsSolver(c, d)
    <3>1. normal[i] = [c EXCEPT !.stage = KnownStages[c.executable]]
      BY <1>1, <2>4
    <3>2. normal[i].executable = Solver(d) /\ normal[i].stage = KnownStages[c.executable]
      BY <2>1, <2>4, <3>1 DEF IsSolver, IsCommand, Command
    <3>3. normal[i].stage = "solve"
      BY <1>1, <3>2 DEF CommandsInspected
    <3> QED BY <2>4, <3>2, <3>3, StagesOfUtilities
  <2> QED BY <2>1, <2>2, <2>3, <2>4
<1> HIDE DEF normal
<1>4. normal = steps
  BY <1>1, <1>2, <1>3
<1> QED BY <1>4 DEF normal

\* What a plan is compiled from.
LEMMA CompiledFrom ==
    ASSUME NEW s, NEW b, NEW c, NEW d, NEW e, b.manifest = c.manifest, d.extensions = e.extensions,
           Solver(d) = Solver(e), Ranks(d) = Ranks(e), SolverRuns(d) = SolverRuns(e)
    PROVE  Compiled(b, d, s) = Compiled(c, e, s)
PROOF
<1>1. RegionsOf(b) = RegionsOf(c)
  BY DEF RegionsOf
<1>2. Contributed(b, d, s.task) = Contributed(c, e, s.task)
  BY <1>1
  DEF Contributed, BlockMeshSteps, ProvidedMeshSteps, ParallelSteps, SerialSteps
<1> QED BY <1>2 DEF Compiled, ObservationSteps

-----------------------------------------------------------------------------
(* The envelope and what a repair may do under it.                          *)

\* The facts an envelope may have a rule for.
Numerics == {"numerics.delta_t", "numerics.max_co"}

LEMMA EnvelopeRules ==
    ASSUME NEW d, NEW rule \in DefaultEnvelope(d)
    PROVE  /\ rule.fact \in Numerics
           /\ rule.fact \in DOMAIN d.facts
           /\ Entry[rule.fact] = <<Control, rule.keyword>>
           /\ rule.fact \in DOMAIN Entry
           /\ rule.minimum \in Nat /\ rule.maximum \in Nat
           /\ d.facts[rule.fact] \in rule.minimum..rule.maximum
           /\ \A other \in DefaultEnvelope(d) : other.fact = rule.fact => other = rule
PROOF
<1>1. Positive(d, "numerics.delta_t") \subseteq {Plain(d, "numerics.delta_t")} \cap (Nat \ {0})
  BY DEF Positive
<1>2. Positive(d, "numerics.max_co") \subseteq {Plain(d, "numerics.max_co")} \cap (Nat \ {0})
  BY DEF Positive
<1>3. \A other \in DefaultEnvelope(d) :
        \/ /\ Plain(d, "numerics.delta_t") \in Nat \ {0}
           /\ other = Rule("numerics.delta_t", "deltaT",
                           Plain(d, "numerics.delta_t") \div 100, Plain(d, "numerics.delta_t"))
        \/ /\ Plain(d, "numerics.max_co") \in Nat \ {0}
           /\ other = Rule("numerics.max_co", "maxCo",
                           Larger(Plain(d, "numerics.max_co") \div 10, 1), Plain(d, "numerics.max_co"))
  BY <1>1, <1>2 DEF DefaultEnvelope
<1>4. \A fact : Plain(d, fact) \in Nat \ {0} => fact \in DOMAIN d.facts /\ d.facts[fact] = Plain(d, fact)
  BY DEF Plain, FactOr, Knows
<1>5. \A other \in DefaultEnvelope(d) : other.fact = rule.fact => other = rule
  BY <1>3 DEF Rule
<1>6. CASE /\ Plain(d, "numerics.delta_t") \in Nat \ {0}
           /\ rule = Rule("numerics.delta_t", "deltaT",
                          Plain(d, "numerics.delta_t") \div 100, Plain(d, "numerics.delta_t"))
  BY <1>4, <1>5, <1>6 DEF Rule, Numerics, Entry
<1>7. CASE /\ Plain(d, "numerics.max_co") \in Nat \ {0}
           /\ rule = Rule("numerics.max_co", "maxCo",
                          Larger(Plain(d, "numerics.max_co") \div 10, 1), Plain(d, "numerics.max_co"))
  BY <1>4, <1>5, <1>7 DEF Rule, Numerics, Entry, Larger
<1> QED BY <1>3, <1>6, <1>7

\* Two contents have the same remainder if they differ in nothing but the entries taken out.
LEMMA SameRemainders ==
    ASSUME NEW c, NEW e, NEW keywords,
           c = Content(c.entries, c.traits), e = Content(e.entries, e.traits)
    PROVE  Remainder(c, keywords) = Remainder(e, keywords)
           <=> /\ c.traits = e.traits
               /\ DOMAIN c.entries \ keywords = DOMAIN e.entries \ keywords
               /\ \A k \in DOMAIN c.entries \ keywords : c.entries[k] = e.entries[k]
PROOF
<1> DEFINE rest(f) == [k \in DOMAIN f.entries \ keywords |-> f.entries[k]]
<1>1. /\ Remainder(c, keywords) = Content(rest(c), c.traits)
      /\ Remainder(e, keywords) = Content(rest(e), e.traits)
  BY DEF Remainder, Content
<1>2. Remainder(c, keywords) = Remainder(e, keywords) <=> rest(c) = rest(e) /\ c.traits = e.traits
  <2> HIDE DEF rest
  <2> QED BY <1>1 DEF Content
<1>3. rest(c) = rest(e)
      <=> /\ DOMAIN c.entries \ keywords = DOMAIN e.entries \ keywords
          /\ \A k \in DOMAIN c.entries \ keywords : c.entries[k] = e.entries[k]
  <2>1. DOMAIN rest(c) = DOMAIN c.entries \ keywords /\ DOMAIN rest(e) = DOMAIN e.entries \ keywords
    OBVIOUS
  <2>2. /\ \A k \in DOMAIN c.entries \ keywords : rest(c)[k] = c.entries[k]
        /\ \A k \in DOMAIN e.entries \ keywords : rest(e)[k] = e.entries[k]
    OBVIOUS
  <2> QED BY <2>1, <2>2
<1> QED BY <1>2, <1>3

IsDesign(d) == {"facts", "extensions", "envelope"} \subseteq DOMAIN d

Named(d) == {rule.keyword : rule \in d.envelope}

\* A keyword written once in the control dictionary, which the solver reads as
\* the conformance check does.
WrittenOnly(b, keyword) ==
    /\ Control \in DOMAIN b.files
    /\ keyword \in DOMAIN b.files[Control].entries
    /\ Len(b.files[Control].entries[keyword]) = 1

\* A later design and case against the first attempt.
DesignConfined(first, d) ==
    /\ d.envelope = first.design.envelope
    /\ d.extensions = first.design.extensions
    /\ DOMAIN d.facts = DOMAIN first.design.facts
    /\ \A rule \in d.envelope : d.facts[rule.fact] \in rule.minimum..rule.maximum
    /\ \A fact \in DOMAIN d.facts \ {rule.fact : rule \in d.envelope} :
        d.facts[fact] = first.design.facts[fact]

BundleConfined(first, d, b) ==
    /\ b.manifest = first.bundle.manifest
    /\ DOMAIN b.files = DOMAIN first.bundle.files
    /\ \A path \in DOMAIN b.files :
        IF path = Control
        THEN Remainder(b.files[path], Named(d)) = Remainder(first.bundle.files[path], Named(d))
        ELSE b.files[path] = first.bundle.files[path]
    /\ \A rule \in d.envelope :
        d.facts[rule.fact] # first.design.facts[rule.fact] => WrittenOnly(b, rule.keyword)

\* From one attempt to the next.
Shrunk(d, e) ==
    /\ \A rule \in d.envelope : e.facts[rule.fact] <= d.facts[rule.fact]
    /\ \E rule \in d.envelope : e.facts[rule.fact] < d.facts[rule.fact]

\* The designs of one run have the facts of the frozen one, and its envelope.
Envelops(d, f) ==
    /\ IsDesign(d)
    /\ d.envelope = DefaultEnvelope(f)
    /\ DOMAIN d.facts = DOMAIN f.facts

\* A rule and a change of the proposal that let a fact become smaller.
Allows(d, p, fact, value) ==
    \E rule \in d.envelope : \E change \in p.changes :
        /\ rule.fact = fact /\ change.fact = fact
        /\ value \in rule.minimum..rule.maximum
        /\ value < d.facts[fact]

LEMMA DerivedValues ==
    ASSUME NEW f, NEW d, NEW p, NEW task, Envelops(d, f), Authorized(p, d, task)
    PROVE  /\ Envelops(Derived(p, d), f)
           /\ Derived(p, d).extensions = d.extensions
           /\ \A fact \in DOMAIN d.facts :
                \/ Derived(p, d).facts[fact] = d.facts[fact]
                \/ Allows(d, p, fact, Derived(p, d).facts[fact])
           /\ \E change \in p.changes : \E rule \in d.envelope :
                /\ rule.fact = change.fact
                /\ Derived(p, d).facts[rule.fact] < d.facts[rule.fact]
PROOF
<1> DEFINE e == Derived(p, d)
           Touches(fact) == {change \in p.changes : change.fact = fact}
<1>1. /\ DOMAIN e = DOMAIN d
      /\ e.envelope = d.envelope /\ e.extensions = d.extensions
      /\ DOMAIN e.facts = DOMAIN d.facts
      /\ \A fact \in DOMAIN d.facts :
            e.facts[fact] = IF \E change \in p.changes : change.fact = fact
                            THEN (CHOOSE change \in p.changes : change.fact = fact).new ELSE d.facts[fact]
  BY DEF Derived, Envelops, IsDesign
<1>2. Envelops(e, f)
  BY <1>1 DEF Envelops, IsDesign
<1> HIDE DEF e
<1>3. ASSUME NEW fact \in DOMAIN d.facts, \E change \in p.changes : change.fact = fact
      PROVE  Allows(d, p, fact, e.facts[fact])
  <2> DEFINE change == CHOOSE other \in p.changes : other.fact = fact
  <2>1. change \in p.changes /\ change.fact = fact
    BY <1>3
  <2>2. e.facts[fact] = change.new
    BY <1>1, <1>3
  <2> HIDE DEF change
  <2>3. PICK rule \in d.envelope : Permits(rule, change, d)
    BY <2>1 DEF Authorized
  <2>4. /\ rule.fact = fact
        /\ change.new \in rule.minimum..rule.maximum
        /\ change.new < d.facts[fact]
    BY <2>1, <2>3 DEF Permits
  <2> QED BY <2>1, <2>2, <2>4 DEF Allows
<1>4. \E change \in p.changes : \E rule \in d.envelope :
        rule.fact = change.fact /\ e.facts[rule.fact] < d.facts[rule.fact]
  <2>1. PICK change \in p.changes : \E rule \in d.envelope : Permits(rule, change, d)
    BY DEF Authorized
  <2>2. change.fact \in DOMAIN d.facts
    BY <2>1 DEF Permits, Knows
  <2>3. PICK rule \in d.envelope : rule.fact = change.fact /\ e.facts[change.fact] < d.facts[change.fact]
    BY <1>3, <2>1, <2>2 DEF Allows
  <2> QED BY <2>3
<1>5. \A fact \in DOMAIN d.facts :
        e.facts[fact] = d.facts[fact] \/ Allows(d, p, fact, e.facts[fact])
  BY <1>1, <1>3
<1> QED BY <1>1, <1>2, <1>4, <1>5 DEF e

LEMMA DerivedIsConfined ==
    ASSUME NEW f, NEW first, NEW d, NEW p, NEW task, Envelops(d, f), Authorized(p, d, task),
           DesignConfined(first, d)
    PROVE  DesignConfined(first, Derived(p, d)) /\ Shrunk(d, Derived(p, d))
PROOF
<1> DEFINE e == Derived(p, d)
<1>1. /\ Envelops(e, f) /\ e.extensions = d.extensions
      /\ \A fact \in DOMAIN d.facts :
            \/ e.facts[fact] = d.facts[fact]
            \/ \E rule \in d.envelope :
                /\ rule.fact = fact
                /\ e.facts[fact] \in rule.minimum..rule.maximum
                /\ e.facts[fact] < d.facts[fact]
      /\ \E rule \in d.envelope : e.facts[rule.fact] < d.facts[rule.fact]
  <2>1. Envelops(e, f) /\ e.extensions = d.extensions
    BY DerivedValues
  <2>2. ASSUME NEW fact \in DOMAIN d.facts
        PROVE  \/ e.facts[fact] = d.facts[fact]
               \/ \E rule \in d.envelope :
                    /\ rule.fact = fact
                    /\ e.facts[fact] \in rule.minimum..rule.maximum
                    /\ e.facts[fact] < d.facts[fact]
    <3>1. e.facts[fact] = d.facts[fact] \/ Allows(d, p, fact, e.facts[fact])
      BY DerivedValues
    <3> HIDE DEF e
    <3> QED BY <3>1 DEF Allows
  <2>3. \E change \in p.changes : \E rule \in d.envelope :
            rule.fact = change.fact /\ e.facts[rule.fact] < d.facts[rule.fact]
    BY DerivedValues, Zenon
  <2> HIDE DEF e
  <2> QED BY <2>1, <2>2, <2>3
<1> HIDE DEF e
<1>2. e.envelope = d.envelope /\ DOMAIN e.facts = DOMAIN d.facts
  BY <1>1 DEF Envelops
<1>3. \A rule \in d.envelope :
        /\ rule.fact \in DOMAIN d.facts
        /\ rule.minimum \in Nat /\ rule.maximum \in Nat
        /\ \A other \in d.envelope : other.fact = rule.fact => other = rule
  BY EnvelopeRules DEF Envelops
<1>4. ASSUME NEW rule \in d.envelope
      PROVE  e.facts[rule.fact] \in rule.minimum..rule.maximum /\ e.facts[rule.fact] <= d.facts[rule.fact]
  <2>1. d.facts[rule.fact] \in rule.minimum..rule.maximum
    BY DEF DesignConfined
  <2>2. CASE e.facts[rule.fact] = d.facts[rule.fact]
    BY <1>3, <2>1, <2>2
  <2>3. CASE \E other \in d.envelope :
                /\ other.fact = rule.fact
                /\ e.facts[rule.fact] \in other.minimum..other.maximum
                /\ e.facts[rule.fact] < d.facts[rule.fact]
    BY <1>3, <2>1, <2>3
  <2> QED BY <1>1, <1>3, <2>2, <2>3
<1>5. \A fact \in DOMAIN e.facts \ {rule.fact : rule \in e.envelope} : e.facts[fact] = first.design.facts[fact]
  BY <1>1, <1>2 DEF DesignConfined
<1> QED BY <1>1, <1>2, <1>4, <1>5 DEF DesignConfined, Shrunk, e

\* A proposal that is applied rewrites the control dictionary, and it alone.
LEMMA RevisedFiles ==
    ASSUME NEW edit, NEW d, NEW b, NEW task, NEW p, p = Proposal(edit, d, b), IsBundle(b),
           Applicable(p, d, b, task), p.changes # {}
    PROVE  /\ IsBundle(Revised(p, b))
           /\ Revised(p, b).manifest = b.manifest
           /\ DOMAIN Revised(p, b).files = DOMAIN b.files
           /\ Control \in DOMAIN b.files
           /\ \A path \in DOMAIN b.files \ {Control} : Revised(p, b).files[path] = b.files[path]
           /\ SameRemainder(b.files[Control], Revised(p, b).files[Control], Keywords(p, d))
PROOF
<1> DEFINE r == Revised(p, b)
<1>1. /\ r = [manifest |-> r.manifest, files |-> r.files]
      /\ r.manifest = b.manifest
      /\ DOMAIN r.files = DOMAIN b.files
      /\ \A path \in DOMAIN b.files :
            r.files[path] = IF \E op \in p.operations : op.path = path
                            THEN (CHOOSE op \in p.operations : op.path = path).content ELSE b.files[path]
  BY DEF Revised, IsBundle
<1> HIDE DEF r
<1>2. {op.path : op \in p.operations} = {Control}
  BY DEF Applicable, AllowedFiles
<1>3. \A op \in p.operations :
        /\ op.path = Control
        /\ op.path \in DOMAIN b.files
        /\ SameRemainder(b.files[op.path], op.content, Keywords(p, d))
  BY <1>2 DEF Applicable
<1>4. \A op \in p.operations : op.content = Content(op.content.entries, op.content.traits)
  <2>1. \A op \in p.operations : \E path \in edit.paths :
            op = Operation(edit.operation, path,
                    IF path \in DOMAIN b.files THEN Tampered(b.files[path], edit) ELSE SystemContent(path))
    BY DEF Proposal
  <2>2. ASSUME NEW op \in p.operations
        PROVE  op.content = Content(op.content.entries, op.content.traits)
    <3>1. PICK path \in edit.paths :
            op = Operation(edit.operation, path,
                    IF path \in DOMAIN b.files THEN Tampered(b.files[path], edit) ELSE SystemContent(path))
      BY <2>1
    <3>2. op.path = path /\ path \in DOMAIN b.files
      BY <1>3, <3>1 DEF Operation
    <3>3. op.content = Tampered(b.files[path], edit)
      BY <3>1, <3>2 DEF Operation
    <3> QED BY <3>3 DEF Tampered, Content
  <2> QED BY <2>2
<1> DEFINE op == CHOOSE other \in p.operations : other.path = Control
<1>5. op \in p.operations
  BY <1>2
<1>6. r.files[Control] = op.content /\ Control \in DOMAIN b.files
  BY <1>1, <1>2, <1>3
<1> HIDE DEF op
<1>7. \A path \in DOMAIN b.files \ {Control} : r.files[path] = b.files[path]
  BY <1>1, <1>3
<1>8. IsBundle(r)
  <2>1. \A path \in DOMAIN r.files : r.files[path] = Content(r.files[path].entries, r.files[path].traits)
    BY <1>1, <1>4, <1>5, <1>6, <1>7 DEF IsBundle
  <2> QED BY <1>1, <2>1 DEF IsBundle
<1> QED BY <1>1, <1>3, <1>5, <1>6, <1>7, <1>8 DEF r

LEMMA RevisedIsConfined ==
    ASSUME NEW f, NEW first, NEW d, NEW b, NEW edit, NEW task, NEW p, p = Proposal(edit, d, b),
           Envelops(d, f), IsBundle(b), IsBundle(first.bundle), first.design.envelope = d.envelope,
           Authorized(p, d, task), Applicable(p, d, b, task), BundleConfined(first, d, b)
    PROVE  BundleConfined(first, Derived(p, d), Revised(p, b))
PROOF
<1> DEFINE e == Derived(p, d)
           r == Revised(p, b)
<1>1. /\ IsBundle(r) /\ r.manifest = b.manifest /\ DOMAIN r.files = DOMAIN b.files
      /\ Control \in DOMAIN b.files
      /\ \A path \in DOMAIN b.files \ {Control} : r.files[path] = b.files[path]
      /\ SameRemainder(b.files[Control], r.files[Control], Keywords(p, d))
  <2>1. p.changes # {}
    BY DEF Authorized
  <2> QED BY <2>1, RevisedFiles
<1>2. e.envelope = d.envelope /\ Named(e) = Named(d)
  <2>1. e.envelope = d.envelope
    BY DerivedValues DEF Envelops
  <2> QED BY <2>1 DEF Named
<1>3. \A fact \in DOMAIN d.facts :
        e.facts[fact] = d.facts[fact] \/ \E change \in p.changes : change.fact = fact
  <2>1. \A fact \in DOMAIN d.facts :
            e.facts[fact] = d.facts[fact] \/ Allows(d, p, fact, e.facts[fact])
    BY DerivedValues
  <2> HIDE DEF e
  <2> QED BY <2>1 DEF Allows
<1> HIDE DEF e, r
<1> DEFINE old == b.files[Control]
           new == r.files[Control]
           keywords == Keywords(p, d)
<1>4. keywords \subseteq Named(d)
  BY DEF Keywords, Named
<1>5. old = Content(old.entries, old.traits) /\ new = Content(new.entries, new.traits)
  BY <1>1 DEF IsBundle
<1>6. /\ new.traits = old.traits
      /\ DOMAIN new.entries \ keywords = DOMAIN old.entries \ keywords
      /\ \A k \in DOMAIN new.entries \ keywords : new.entries[k] = old.entries[k]
      /\ \A k \in keywords : k \in DOMAIN new.entries /\ Len(new.entries[k]) = 1
  <2>1. Remainder(old, keywords) = Remainder(new, keywords)
    BY <1>1 DEF SameRemainder
  <2>2. /\ old.traits = new.traits
        /\ DOMAIN old.entries \ keywords = DOMAIN new.entries \ keywords
        /\ \A k \in DOMAIN old.entries \ keywords : old.entries[k] = new.entries[k]
    BY <1>5, <2>1, SameRemainders
  <2>3. \A k \in keywords : k \in DOMAIN new.entries /\ Len(new.entries[k]) = 1
    BY <1>1 DEF SameRemainder, Unambiguous
  <2> HIDE DEF old, new, keywords
  <2> QED BY <2>2, <2>3
<1>7. Remainder(new, Named(d)) = Remainder(old, Named(d))
  <2>1. /\ new.traits = old.traits
        /\ DOMAIN new.entries \ Named(d) = DOMAIN old.entries \ Named(d)
        /\ \A k \in DOMAIN new.entries \ Named(d) : new.entries[k] = old.entries[k]
    <3> HIDE DEF new, old, keywords
    <3> QED BY <1>4, <1>6
  <2> HIDE DEF new, old
  <2> QED BY <1>5, <2>1, SameRemainders
<1>8. \A path \in DOMAIN r.files :
        IF path = Control
        THEN Remainder(r.files[path], Named(e)) = Remainder(first.bundle.files[path], Named(e))
        ELSE r.files[path] = first.bundle.files[path]
  BY <1>1, <1>2, <1>7 DEF BundleConfined
<1>9. ASSUME NEW rule \in e.envelope, e.facts[rule.fact] # first.design.facts[rule.fact]
      PROVE  WrittenOnly(r, rule.keyword)
  <2>1. rule.fact \in DOMAIN d.facts
    BY <1>2, EnvelopeRules DEF Envelops
  <2>2. CASE \E change \in p.changes : change.fact = rule.fact
    <3>1. rule.keyword \in keywords
      BY <1>2, <2>2 DEF Keywords
    <3> QED BY <1>1, <1>6, <3>1 DEF WrittenOnly
  <2>3. CASE ~\E change \in p.changes : change.fact = rule.fact
    <3>1. WrittenOnly(b, rule.keyword)
      BY <1>2, <1>3, <1>9, <2>1, <2>3 DEF BundleConfined
    <3>2. rule.keyword \in DOMAIN old.entries /\ Len(old.entries[rule.keyword]) = 1
      BY <3>1 DEF WrittenOnly
    <3>3. rule.keyword \in DOMAIN new.entries /\ Len(new.entries[rule.keyword]) = 1
      <4> HIDE DEF old, new, keywords
      <4> QED BY <1>6, <3>2
    <3> QED BY <1>1, <3>3 DEF WrittenOnly
  <2> QED BY <2>2, <2>3
<1>10. r.manifest = first.bundle.manifest /\ DOMAIN r.files = DOMAIN first.bundle.files
  BY <1>1 DEF BundleConfined
<1> QED BY <1>8, <1>9, <1>10 DEF BundleConfined, e, r

-----------------------------------------------------------------------------
(* What an attempt runs.                                                    *)

\* The properties, attempt by attempt.
FollowsDesign(first, run) ==
    /\ Spelled(run) /\ Whole(run) =>
        /\ WrittenOnce(run) =>
            /\ Effective(run.case, Control, "application", Solver(run.design))
            /\ \A fact \in DOMAIN Entry \cap DOMAIN run.design.facts :
                Effective(run.case, Entry[fact][1], Entry[fact][2], run.design.facts[fact])
            /\ HasMaterials(run.design) =>
                Effective(run.case, Physical, "nu", run.design.facts["materials.fluid.nu"].value)
        /\ \A fact \in DOMAIN Entry \cap DOMAIN run.design.facts :
            run.design.facts[fact] # first.design.facts[fact] =>
                Effective(run.case, Entry[fact][1], Entry[fact][2], run.design.facts[fact])
    /\ \A step \in Range(run.steps) :
        step.stage = "solve" => step.executable = Solver(run.design) /\ step.ranks = Ranks(run.design)

Intact(s, run) ==
    /\ \A path \in s.task.assets :
        \/ run.case[path] = UserContent(s.task)
        \/ path = Points /\ s.task.mesh # "provided"
    /\ \A path \in SystemFiles(s.observed) : run.case[path] = SystemContent(path)
    /\ s.observed.functions /\ Spelled(run) => "include" \in run.case[Control].traits

\* The directory an attempt starts in, without and with a mesh at hand.
Start(files, task) == Materialized(files, task)
Meshed(case_) == Over([path \in {Points} |-> MeshContent], case_)

\* How an attempt that runs has come about.
Admitted(s, run) ==
    /\ Conforms(run.bundle, run.design, s.task)
    /\ ValidPlan(run.bundle, run.plan, s.task, s.environment)
    /\ ProperPlan(run.plan, run.design)
    /\ \A i \in DOMAIN run.steps : i \in DOMAIN run.plan /\ run.steps[i] = run.plan[i]
    /\ \/ run.case = Start(run.bundle.files, s.task)
       \/ run.case = Meshed(Start(run.bundle.files, s.task)) /\ "mesh" \in Stages(run.plan)

\* Paths keep their file unless they are another spelling.
LEMMA Spellings ==
    ASSUME NEW path
    PROVE  /\ Canonical(path) \in {path, Control, Points}
           /\ path \notin Aliases => Canonical(path) = path
           /\ Control \notin Aliases /\ Points \notin Aliases /\ Physical \notin Aliases
           /\ Control # Points /\ Physical # Points /\ Physical # Control
PROOF
BY DEF Canonical, Aliases, Control, Points, Physical

LEMMA WrittenAsGiven ==
    ASSUME NEW files, NEW path \in DOMAIN files, Canonical(path) = path,
           \A other \in DOMAIN files : Canonical(other) = path => other = path
    PROVE  path \in DOMAIN Written(files) /\ Written(files)[path] = files[path]
PROOF
<1>1. path \in {Canonical(other) : other \in DOMAIN files}
  OBVIOUS
<1>2. (CHOOSE candidate \in DOMAIN files :
        /\ Canonical(candidate) = path
        /\ candidate = path => \A other \in DOMAIN files : Canonical(other) = path => other = candidate) = path
  OBVIOUS
<1> QED BY <1>1, <1>2 DEF Written

\* What of the bundle an attempt finds in its directory.
LEMMA GivenIsFound ==
    ASSUME NEW s, NEW run, Admitted(s, run), NEW path \in DOMAIN run.bundle.files, path # Points,
           Canonical(path) = path,
           \A other \in DOMAIN run.bundle.files : Canonical(other) = path => other = path
    PROVE  path \in DOMAIN run.case /\ run.case[path] = run.bundle.files[path]
PROOF
<1> DEFINE files == run.bundle.files
           start == Start(files, s.task)
<1>1. path \in DOMAIN Written(files) /\ Written(files)[path] = files[path]
  BY WrittenAsGiven
<1>2. path \in DOMAIN start /\ start[path] = files[path]
  BY <1>1 DEF Start, Materialized, Over
<1>3. run.case = start \/ run.case = Meshed(start)
  BY DEF Admitted
<1> HIDE DEF start
<1> QED BY <1>2, <1>3 DEF Meshed, Over

\* A file that includes none of the author's is read as it is written.
LEMMA FoundOnce ==
    ASSUME NEW s, NEW run, Admitted(s, run), Spelled(run), Whole(run),
           NEW path \in {Control, Physical}, NEW keyword,
           NEW value, Finds(run.bundle.files, path, keyword, value),
           Len(run.bundle.files[path].entries[keyword]) = 1
    PROVE  Effective(run.case, path, keyword, value)
PROOF
<1>1. path \in DOMAIN run.bundle.files /\ keyword \in DOMAIN run.bundle.files[path].entries
  BY DEF Finds, Values
<1>2. path \in DOMAIN run.case /\ run.case[path] = run.bundle.files[path]
  BY <1>1, GivenIsFound, Spellings DEF Spelled
<1>3. Reads(run.case, path) = {path}
  <2>1. "includes local" \notin run.bundle.files[path].traits
    BY <1>1 DEF Whole, Trait
  <2> QED BY <1>2, <2>1 DEF Reads
<1> DEFINE values == run.bundle.files[path].entries[keyword]
<1>4. values # <<>> /\ Head(values) = value
  BY <1>1 DEF Finds, Values
<1>5. Values(run.case, path, keyword) = values
  BY <1>1, <1>2 DEF Values
<1>6. Len(values) = 1
  OBVIOUS
<1> HIDE DEF values
<1>7. Last(values) = Head(values)
  BY <1>6 DEF Last
<1>8. {Values(run.case, q, keyword) : q \in Reads(run.case, path)} \ {<<>>} = {values}
  BY <1>3, <1>4, <1>5
<1> QED BY <1>4, <1>7, <1>8 DEF Effective

LEMMA AdmittedFollows ==
    ASSUME NEW s, NEW f, NEW first, NEW run, Admitted(s, run), Envelops(run.design, f),
           DesignConfined(first, run.design), BundleConfined(first, run.design, run.bundle)
    PROVE  FollowsDesign(first, run)
PROOF
<1> DEFINE d == run.design
           files == run.bundle.files
<1>1. /\ Finds(files, Control, "application", Solver(d))
      /\ \A fact \in DOMAIN d.facts \cap DOMAIN Entry :
            Finds(files, Entry[fact][1], Entry[fact][2], d.facts[fact])
      /\ HasMaterials(d) => Finds(files, Physical, "nu", d.facts["materials.fluid.nu"].value)
  BY DEF Admitted, Conforms, CommonConforms, NumbersConform, MaterialConforms
<1>2. \A path, keyword, value : Finds(files, path, keyword, value) =>
        path \in DOMAIN files /\ keyword \in DOMAIN files[path].entries
  BY DEF Finds, Values
<1>3. \A fact \in DOMAIN Entry : Entry[fact][1] = Control
  BY DEF Entry
<1>4. ASSUME Spelled(run), Whole(run), WrittenOnce(run), NEW path \in {Control, Physical}, NEW keyword, NEW value,
             Finds(files, path, keyword, value)
      PROVE  Effective(run.case, path, keyword, value)
  <2>1. Len(files[path].entries[keyword]) = 1
    BY <1>2, <1>4 DEF WrittenOnce
  <2> QED BY <1>4, <2>1, FoundOnce
<1>5. ASSUME Spelled(run), Whole(run), NEW fact \in DOMAIN Entry \cap DOMAIN d.facts,
             d.facts[fact] # first.design.facts[fact]
      PROVE  Effective(run.case, Entry[fact][1], Entry[fact][2], d.facts[fact])
  <2>1. PICK rule \in d.envelope : rule.fact = fact
    BY <1>5 DEF DesignConfined
  <2>2. Entry[fact] = <<Control, rule.keyword>>
    BY <2>1, EnvelopeRules DEF Envelops
  <2>3. WrittenOnly(run.bundle, rule.keyword)
    BY <1>5, <2>1 DEF BundleConfined
  <2>4. Finds(files, Control, rule.keyword, d.facts[fact])
    BY <1>1, <2>2
  <2>5. Effective(run.case, Control, rule.keyword, d.facts[fact])
    BY <1>5, <2>3, <2>4, FoundOnce DEF WrittenOnly
  <2> QED BY <2>2, <2>5
<1>6. ASSUME NEW step \in Range(run.steps), step.stage = "solve"
      PROVE  step.executable = Solver(d) /\ step.ranks = Ranks(d)
  <2>1. PICK i \in DOMAIN run.plan : step = run.plan[i]
    BY DEF Range, Admitted
  <2>2. IsUtility(step) \/ IsSolver(step, d)
    BY <2>1 DEF Admitted, ProperPlan
  <2> QED BY <1>6, <2>2, StagesOfUtilities DEF IsUtility, IsSolver
<1> HIDE DEF d, files
<1>7. ASSUME Spelled(run), Whole(run), WrittenOnce(run)
      PROVE  /\ Effective(run.case, Control, "application", Solver(d))
             /\ \A fact \in DOMAIN Entry \cap DOMAIN d.facts :
                    Effective(run.case, Entry[fact][1], Entry[fact][2], d.facts[fact])
             /\ HasMaterials(d) =>
                    Effective(run.case, Physical, "nu", d.facts["materials.fluid.nu"].value)
  BY <1>1, <1>3, <1>4, <1>7
<1> QED BY <1>5, <1>6, <1>7 DEF FollowsDesign, d

\* The files that are not the author's, as the admission leaves them in a bundle.
SystemKept(s, b) ==
    /\ \A path \in SystemFiles(s.observed) :
        path # Control /\ path \in DOMAIN b.files /\ b.files[path] = SystemContent(path)
    /\ s.observed.functions => Control \in DOMAIN b.files /\ "include" \in b.files[Control].traits

LEMMA AdmittedIsIntact ==
    ASSUME NEW s \in Scenarios, NEW run, Admitted(s, run), SystemKept(s, run.bundle)
    PROVE  Intact(s, run)
PROOF
<1> DEFINE files == run.bundle.files
           start == Start(files, s.task)
<1>1. Control \in DOMAIN files
  BY DEF Admitted, Conforms, CommonConforms, Finds, Values
<1>2. /\ \A path \in DOMAIN files : Canonical(path) # Points
      /\ \A path \in DOMAIN files : path \notin s.task.assets
  BY DEF Admitted, Conforms, MeshConforms, ValidPlan, Overlaps
<1>3. run.case = start \/ (run.case = Meshed(start) /\ "mesh" \in Stages(run.plan))
  BY DEF Admitted
<1>4. ASSUME NEW path \in s.task.assets
      PROVE  \/ run.case[path] = UserContent(s.task)
             \/ path = Points /\ s.task.mesh # "provided"
  <2>1. path \notin DOMAIN Written(files)
    <3>1. ASSUME NEW other \in DOMAIN files, Canonical(other) = path
          PROVE  FALSE
      BY <1>1, <1>2, <3>1, Spellings
    <3> QED BY <3>1 DEF Written
  <2>2. path \in DOMAIN start /\ start[path] = UserContent(s.task)
    BY <2>1 DEF Start, Materialized, Over, Staged
  <2>3. s.task.mesh = "provided" => "mesh" \notin Stages(run.plan)
    BY DEF Admitted, ValidPlan, Stages
  <2> HIDE DEF start
  <2> QED BY <1>3, <2>2, <2>3 DEF Meshed, Over
<1>5. ASSUME NEW path \in SystemFiles(s.observed)
      PROVE  run.case[path] = SystemContent(path)
  <2>1. path \in DOMAIN files /\ files[path] = SystemContent(path) /\ path # Control
    BY DEF SystemKept
  <2>2. path \notin Aliases
    BY SystemPathsAreCanonical
  <2>3. Canonical(path) = path /\ path # Points
    BY <1>2, <2>1, <2>2, Spellings
  <2>4. \A other \in DOMAIN files : Canonical(other) = path => other = path
    BY <2>1, <2>3, Spellings
  <2> QED BY <2>1, <2>3, <2>4, GivenIsFound
<1>6. ASSUME s.observed.functions, Spelled(run)
      PROVE  "include" \in run.case[Control].traits
  <2>1. Canonical(Control) = Control /\ Control # Points
    BY Spellings
  <2>2. run.case[Control] = files[Control]
    BY <1>1, <1>6, <2>1, GivenIsFound DEF Spelled
  <2> QED BY <1>6, <2>2 DEF SystemKept
<1> QED BY <1>4, <1>5, <1>6 DEF Intact

-----------------------------------------------------------------------------
(* The inductive invariant.                                                 *)

Frozen(d) == [d EXCEPT !.envelope = DefaultEnvelope(d)]

\* The commands compiled from what there is.
Now == Compiled(bundle, design, scenario)

\* Nothing has run, or one repair lies between the last attempt and what is at hand.
Advanced(d, b) ==
    executed # <<>> =>
        /\ DesignConfined(executed[1], d)
        /\ BundleConfined(executed[1], d, b)
        /\ Shrunk(executed[Len(executed)].design, d)

\* Where the solve stands.
AtHand ==
    phase \in {"compiled", "ready", "inspected", "repairing"} =>
        /\ Envelops(design, scenario.design)
        /\ IsBundle(bundle)
        /\ SystemKept(scenario, bundle)
        /\ bundle.manifest.solver = Solver(design)
        /\ ProperPlan(Now, design)

PlanAtHand ==
    /\ phase = "compiled" => plan = Now
    /\ phase = "ready" => plan = Now \/ (executed = <<>> /\ plan = Normalized(Now))
    /\ phase \in {"inspected", "repairing"} => plan = Now

Waiting ==
    /\ phase \in {"authoring", "compiled"} => executed = <<>>
    /\ phase \in {"ready", "inspected"} => Advanced(design, bundle)
    /\ phase = "repairing" =>
        /\ executed # <<>>
        /\ design = executed[Len(executed)].design
        /\ bundle = executed[Len(executed)].bundle

Inspection ==
    phase = "inspected" =>
        /\ case = Start(bundle.files, scenario.task)
        /\ Conforms(bundle, design, scenario.task)
        /\ ValidPlan(bundle, plan, scenario.task, scenario.environment)

\* What has run.
Ran(n) ==
    LET run == executed[n] IN
    /\ Admitted(scenario, run)
    /\ Envelops(run.design, scenario.design)
    /\ IsBundle(run.bundle)
    /\ SystemKept(scenario, run.bundle)
    /\ run.plan = Compiled(run.bundle, run.design, scenario)
    /\ DesignConfined(executed[1], run.design)
    /\ BundleConfined(executed[1], run.design, run.bundle)
    /\ n > 1 => Shrunk(executed[n - 1].design, run.design)

History ==
    /\ IsSequence(executed)
    /\ executed # <<>> => executed[1].design = Frozen(scenario.design)
    /\ \A n \in DOMAIN executed : Ran(n)

IInv ==
    /\ scenario \in Scenarios
    /\ phase \in {"authoring", "compiled", "ready", "inspected", "repairing", "ended"}
    /\ executed = <<>> => design = Frozen(scenario.design)
    /\ AtHand
    /\ PlanAtHand
    /\ Waiting
    /\ Inspection
    /\ History

LEMMA FrozenEnvelops ==
    ASSUME NEW s \in Scenarios
    PROVE  /\ Envelops(Frozen(s.design), s.design)
           /\ Frozen(s.design).facts = s.design.facts
PROOF
BY ScenariosAreScenarios DEF Frozen, Envelops, IsDesign

LEMMA InitIsSound == Init => IInv
PROOF
<1> SUFFICES ASSUME Init PROVE IInv
  OBVIOUS
<1>1. executed = <<>> /\ phase = "authoring" /\ scenario \in Scenarios /\ design = Frozen(scenario.design)
  BY DEF Init, Frozen
<1>2. History
  <2>1. IsSequence(executed) /\ DOMAIN executed = {}
    BY <1>1 DEF IsSequence, Range
  <2> QED BY <1>1, <2>1 DEF History
<1> QED BY <1>1, <1>2 DEF IInv, AtHand, PlanAtHand, Waiting, Inspection

\* The case author's answer, bound and given the system's files.
LEMMA InjectedBundle ==
    ASSUME NEW s \in Scenarios, NEW answer \in Bundles(s), NEW d,
           Injectable(BindFamilies(answer, d), s.observed),
           Control \in DOMAIN BindFamilies(answer, d).files
    PROVE  LET whole == Injected(BindFamilies(answer, d), s.observed) IN
           IsBundle(whole) /\ SystemKept(s, whole)
PROOF
<1> DEFINE bound == BindFamilies(answer, d)
           included == IF s.observed.functions
                       THEN [bound.files EXCEPT ![Control].traits = @ \cup {"names observations", "include"}]
                       ELSE bound.files
           own == [path \in SystemFiles(s.observed) |-> SystemContent(path)]
           whole == Injected(bound, s.observed)
<1>1. /\ answer = [manifest |-> answer.manifest, files |-> answer.files]
      /\ "regions" \in DOMAIN answer.manifest
      /\ IsFiniteSet(DOMAIN answer.manifest.regions)
      /\ \A path \in DOMAIN answer.files :
            answer.files[path] = Content(answer.files[path].entries, answer.files[path].traits)
  BY BundlesAreBundles DEF Content
<1>2. /\ bound = [manifest |-> bound.manifest, files |-> answer.files]
      /\ bound.manifest.regions = answer.manifest.regions
  <2>1. DOMAIN answer = {"manifest", "files"}
    BY <1>1, Zenon
  <2>2. DOMAIN bound = {"manifest", "files"}
    BY <2>1 DEF BindFamilies
  <2>3. bound.files = answer.files
    BY <2>1 DEF BindFamilies
  <2>4. bound.manifest.regions = answer.manifest.regions
    BY <1>1, <2>1 DEF BindFamilies
  <2>5. bound = [x \in DOMAIN bound |-> bound[x]]
    BY DEF BindFamilies
  <2> HIDE DEF bound
  <2> QED BY <2>2, <2>3, <2>4, <2>5
<1>3. /\ whole = [manifest |-> bound.manifest, files |-> whole.files]
      /\ whole.files = Over(included, own)
  <2> HIDE DEF bound
  <2>1. DOMAIN bound = {"manifest", "files"}
    BY <1>2, Zenon
  <2>2. DOMAIN whole = {"manifest", "files"} /\ whole = [x \in DOMAIN whole |-> whole[x]]
    BY <2>1 DEF Injected
  <2>3. whole.files = Over(included, own) /\ whole.manifest = bound.manifest
    BY <2>1 DEF Injected
  <2> HIDE DEF whole, included, own
  <2> QED BY <2>2, <2>3
<1>4. Control \in DOMAIN bound.files /\ DOMAIN bound.files \cap SystemFiles(s.observed) = {}
  BY DEF Injectable
<1>5. /\ DOMAIN included = DOMAIN bound.files
      /\ \A path \in DOMAIN bound.files :
            included[path] = Content(included[path].entries, included[path].traits)
      /\ s.observed.functions => "include" \in included[Control].traits
  <2>1. \A path \in DOMAIN bound.files :
            bound.files[path] = Content(bound.files[path].entries, bound.files[path].traits)
    BY <1>1, <1>2
  <2> HIDE DEF bound
  <2>2. CASE s.observed.functions
    <3> DEFINE c == bound.files[Control]
               more == c.traits \cup {"names observations", "include"}
    <3>0. included = [bound.files EXCEPT ![Control] = [c EXCEPT !.traits = more]]
      BY <2>2, Zenon
    <3>1. /\ DOMAIN included = DOMAIN bound.files
          /\ included[Control] = [c EXCEPT !.traits = more]
          /\ \A path \in DOMAIN bound.files \ {Control} : included[path] = bound.files[path]
      <4>1. Control \in DOMAIN bound.files
        BY <1>4
      <4> HIDE DEF c, more, included
      <4> QED BY <3>0, <4>1
    <3>2. [c EXCEPT !.traits = more] = Content(c.entries, more)
      <4>1. c = Content(c.entries, c.traits)
        BY <1>4, <2>1
      <4> HIDE DEF c, more
      <4>2. DOMAIN c = {"entries", "traits"}
        BY <4>1, Zenon DEF Content
      <4> QED BY <4>2 DEF Content
    <3>3. "include" \in more
      OBVIOUS
    <3> HIDE DEF c, more, included
    <3> QED BY <2>1, <3>1, <3>2, <3>3 DEF Content
  <2>3. CASE ~s.observed.functions
    BY <2>1, <2>3
  <2> QED BY <2>2, <2>3
<1>6. /\ DOMAIN own = SystemFiles(s.observed)
      /\ \A path \in DOMAIN own : own[path] = SystemContent(path)
      /\ \A path \in DOMAIN own : own[path] = Content(own[path].entries, own[path].traits)
  BY DEF SystemContent, Content
<1> HIDE DEF bound, included, own, whole
<1>7. /\ DOMAIN whole.files = DOMAIN bound.files \cup SystemFiles(s.observed)
      /\ \A path \in DOMAIN bound.files : whole.files[path] = included[path]
      /\ \A path \in SystemFiles(s.observed) : whole.files[path] = own[path]
  BY <1>3, <1>4, <1>5, <1>6 DEF Over
<1>8. IsBundle(whole)
  <2>1. \A path \in DOMAIN whole.files :
            whole.files[path] = Content(whole.files[path].entries, whole.files[path].traits)
    BY <1>5, <1>6, <1>7
  <2>2. whole = [manifest |-> whole.manifest, files |-> whole.files]
    BY <1>3
  <2>3. IsFiniteSet(DOMAIN whole.manifest.regions)
    BY <1>1, <1>2, <1>3
  <2> QED BY <2>1, <2>2, <2>3 DEF IsBundle
<1>9. SystemKept(s, whole)
  BY <1>4, <1>5, <1>6, <1>7 DEF SystemKept
<1> QED BY <1>8, <1>9 DEF whole, bound

LEMMA RevisedIsKept ==
    ASSUME NEW s, NEW edit, NEW d, NEW b, NEW task, NEW p, p = Proposal(edit, d, b), IsBundle(b),
           Applicable(p, d, b, task), p.changes # {}, SystemKept(s, b)
    PROVE  SystemKept(s, Revised(p, b))
PROOF
<1> DEFINE r == Revised(p, b)
<1>1. /\ IsBundle(r) /\ DOMAIN r.files = DOMAIN b.files
      /\ Control \in DOMAIN b.files
      /\ \A path \in DOMAIN b.files \ {Control} : r.files[path] = b.files[path]
      /\ SameRemainder(b.files[Control], r.files[Control], Keywords(p, d))
  BY RevisedFiles
<1> HIDE DEF r
<1>2. r.files[Control].traits = b.files[Control].traits
  <2> DEFINE old == b.files[Control]
             new == r.files[Control]
  <2>1. old = Content(old.entries, old.traits) /\ new = Content(new.entries, new.traits)
    BY <1>1 DEF IsBundle
  <2>2. Remainder(old, Keywords(p, d)) = Remainder(new, Keywords(p, d))
    BY <1>1 DEF SameRemainder
  <2> HIDE DEF old, new
  <2>3. old.traits = new.traits
    BY <2>1, <2>2, SameRemainders
  <2> QED BY <2>3 DEF old, new
<1> QED BY <1>1, <1>2 DEF SystemKept, r

LEMMA FirstIsConfined ==
    ASSUME NEW s \in Scenarios, NEW run, run.design = Frozen(s.design)
    PROVE  DesignConfined(run, run.design) /\ BundleConfined(run, run.design, run.bundle)
PROOF
<1>1. \A rule \in run.design.envelope : run.design.facts[rule.fact] \in rule.minimum..rule.maximum
  BY FrozenEnvelops, EnvelopeRules DEF Envelops
<1> QED BY <1>1 DEF DesignConfined, BundleConfined

LEMMA HistoryStays ==
    ASSUME History, UNCHANGED <<executed, scenario>>
    PROVE  History'
PROOF
BY DEF History, Ran

\* A step that ends the solve, or leaves everything as it is, keeps the invariant.
LEMMA EndStays ==
    ASSUME IInv, UNCHANGED <<executed, scenario, design>>, phase' = "ended"
    PROVE  IInv'
PROOF
<1>1. History'
  BY HistoryStays DEF IInv
<1> QED BY <1>1 DEF IInv, AtHand, PlanAtHand, Waiting, Inspection

LEMMA AuthorCaseStays == IInv /\ AuthorCase => IInv'
PROOF
<1> SUFFICES ASSUME IInv, AuthorCase PROVE IInv'
  OBVIOUS
<1>1. phase = "authoring" /\ executed = <<>> /\ scenario \in Scenarios /\ design = Frozen(scenario.design)
  BY DEF IInv, AuthorCase, Waiting
<1>2. UNCHANGED <<scenario, design, case, attempt, executed>>
  BY DEF AuthorCase
<1>3. CASE phase' = "ended"
  BY <1>2, <1>3, EndStays
<1>4. CASE phase' # "ended"
  <2>1. PICK answer \in Bundles(scenario) :
            LET bound == BindFamilies(answer, design)
                whole == Injected(bound, scenario.observed)
            IN  /\ ValidBundle(bound, design, scenario.task)
                /\ Injectable(bound, scenario.observed)
                /\ Compiles(whole, design, scenario)
                /\ bundle' = whole
                /\ plan' = Compiled(whole, design, scenario)
                /\ phase' = "compiled"
    BY <1>4 DEF AuthorCase, End
  <2> DEFINE bound == BindFamilies(answer, design)
  <2>2. Control \in DOMAIN bound.files
    BY <2>1 DEF ValidBundle, AuthorFiles
  <2>3. IsBundle(bundle') /\ SystemKept(scenario, bundle')
    BY <1>1, <2>1, <2>2, InjectedBundle
  <2>4. /\ bundle'.manifest.solver = Solver(design)
        /\ Supported(design, scenario.task, scenario.environment)
    BY <2>1 DEF Compiles, Composable
  <2>5. plan' = Compiled(bundle', design, scenario) /\ phase' = "compiled"
    BY <2>1
  <2>6. ProperPlan(Compiled(bundle', design, scenario), design)
    BY <1>1, <2>3, <2>4, CompiledIsProper DEF IsBundle
  <2>7. Envelops(design, scenario.design)
    BY <1>1, FrozenEnvelops
  <2>8. AtHand' /\ PlanAtHand'
    BY <1>2, <2>3, <2>4, <2>5, <2>6, <2>7 DEF AtHand, PlanAtHand, Now
  <2>9. History'
    BY <1>2, HistoryStays DEF IInv
  <2> QED BY <1>1, <1>2, <2>5, <2>8, <2>9 DEF IInv, Waiting, Inspection
<1> QED BY <1>3, <1>4

LEMMA AdmitPlanStays == IInv /\ AdmitPlan => IInv'
PROOF
<1> SUFFICES ASSUME IInv, AdmitPlan PROVE IInv'
  OBVIOUS
<1>1. /\ phase = "compiled" /\ plan' = Normalized(plan)
      /\ UNCHANGED <<scenario, design, bundle, case, attempt, executed>>
  BY DEF AdmitPlan
<1>2. phase' \in {"ended", "ready"}
  BY DEF AdmitPlan
<1>3. CASE phase' = "ended"
  BY <1>1, <1>3, EndStays
<1>4. CASE phase' = "ready"
  <2>1. executed = <<>> /\ plan = Now
    BY <1>1 DEF IInv, Waiting, PlanAtHand
  <2>2. AtHand'
    BY <1>1, <1>4 DEF IInv, AtHand, Now
  <2>3. PlanAtHand'
    BY <1>1, <1>4, <2>1 DEF PlanAtHand, Now
  <2>4. Waiting' /\ Inspection'
    BY <1>1, <1>4, <2>1 DEF Waiting, Advanced, Inspection
  <2>5. History'
    BY <1>1, HistoryStays DEF IInv
  <2> QED BY <1>1, <1>4, <2>2, <2>3, <2>4, <2>5 DEF IInv
<1> QED BY <1>2, <1>3, <1>4

LEMMA StartAttemptStays == IInv /\ StartAttempt => IInv'
PROOF
<1> SUFFICES ASSUME IInv, StartAttempt PROVE IInv'
  OBVIOUS
<1>1. /\ phase = "ready"
      /\ UNCHANGED <<scenario, design, bundle, plan, executed>>
      /\ phase' = IF status' = "none" THEN "inspected" ELSE "ended"
  BY DEF StartAttempt
<1>2. CASE status' # "none"
  BY <1>1, <1>2, EndStays
<1>3. CASE status' = "none"
  <2> DEFINE written == Materialized(bundle.files, scenario.task)
  <2>1. Refusal(written) = "none" /\ case' = written
    BY <1>3 DEF StartAttempt
  <2>2. /\ Conforms(bundle, design, scenario.task)
        /\ Inspected(written, bundle, plan, scenario)
    BY <2>1 DEF Refusal
  <2>3. /\ ValidPlan(bundle, plan, scenario.task, scenario.environment)
        /\ CommandsInspected(bundle, plan, scenario.task)
    BY <2>2 DEF Inspected
  <2>4. bundle.manifest.solver = Solver(design) /\ ProperPlan(Now, design)
    BY <1>1 DEF IInv, AtHand
  <2>5. plan = Now
    <3>1. plan = Now \/ plan = Normalized(Now)
      BY <1>1 DEF IInv, PlanAtHand
    <3>2. CASE plan = Normalized(Now)
      BY <2>3, <2>4, <3>2, InspectedIsNormal
    <3> QED BY <3>1, <3>2
  <2>6. phase' = "inspected" /\ case' = Start(bundle.files, scenario.task)
    BY <1>1, <1>3, <2>1 DEF Start
  <2>7. AtHand' /\ PlanAtHand'
    BY <1>1, <2>5, <2>6 DEF IInv, AtHand, PlanAtHand, Now
  <2>8. Waiting'
    BY <1>1, <2>6 DEF IInv, Waiting, Advanced
  <2>9. Inspection'
    BY <1>1, <2>2, <2>3, <2>6 DEF Inspection
  <2>10. History'
    BY <1>1, HistoryStays DEF IInv
  <2> QED BY <1>1, <2>6, <2>7, <2>8, <2>9, <2>10 DEF IInv
<1> QED BY <1>2, <1>3

\* One more attempt in the history.
LEMMA HistoryGrows ==
    ASSUME IInv, NEW run, executed' = Append(executed, run), UNCHANGED scenario,
           Admitted(scenario, run), Envelops(run.design, scenario.design), IsBundle(run.bundle),
           SystemKept(scenario, run.bundle), run.plan = Compiled(run.bundle, run.design, scenario),
           executed = <<>> => run.design = Frozen(scenario.design),
           Advanced(run.design, run.bundle)
    PROVE  /\ History'
           /\ executed' # <<>>
           /\ executed'[Len(executed')] = run
PROOF
<1>0. IsSequence(executed)
  BY DEF IInv, History
<1>1. PICK m \in Nat : m = Len(executed)
  BY <1>0, AppendKeeps
<1>2. /\ IsSequence(executed')
      /\ DOMAIN executed = 1..m
      /\ Len(executed') = m + 1
      /\ DOMAIN executed' = 1..m + 1
      /\ \A i \in 1..m : executed'[i] = executed[i]
      /\ executed'[m + 1] = run
  BY <1>0, <1>1, AppendKeeps
<1>3. executed = <<>> <=> m = 0
  BY <1>0, <1>1 DEF IsSequence
<1>4. executed'[1].design = Frozen(scenario.design)
  BY <1>2, <1>3 DEF IInv, History
<1>5. ASSUME NEW n \in 1..m
      PROVE  Ran(n)'
  <2>1. Ran(n)
    BY <1>2 DEF IInv, History
  <2>2. executed'[n] = executed[n] /\ executed'[1] = executed[1]
    BY <1>2
  <2>3. n > 1 => executed'[n - 1] = executed[n - 1]
    BY <1>2
  <2> QED BY <2>1, <2>2, <2>3 DEF Ran
<1>6. Ran(m + 1)'
  <2>1. DesignConfined(executed'[1], run.design) /\ BundleConfined(executed'[1], run.design, run.bundle)
    <3>1. CASE m = 0
      <4>1. executed'[1] = run
        BY <1>2, <3>1
      <4>2. run.design = Frozen(scenario.design) /\ scenario \in Scenarios
        BY <1>3, <3>1 DEF IInv
      <4> QED BY <4>1, <4>2, FirstIsConfined
    <3>2. CASE m # 0
      <4>1. executed'[1] = executed[1]
        BY <1>2, <3>2
      <4> QED BY <1>3, <3>2, <4>1 DEF Advanced
    <3> QED BY <3>1, <3>2
  <2>2. m + 1 > 1 => Shrunk(executed'[m + 1 - 1].design, run.design)
    <3>1. m + 1 > 1 => m # 0 /\ executed'[m + 1 - 1] = executed[m]
      BY <1>2
    <3>2. m # 0 => Shrunk(executed[m].design, run.design)
      BY <1>1, <1>3 DEF Advanced
    <3> QED BY <3>1, <3>2
  <2> QED BY <1>2, <2>1, <2>2 DEF Ran
<1>7. \A n \in DOMAIN executed' : Ran(n)'
  BY <1>2, <1>5, <1>6
<1>8. History'
  BY <1>2, <1>4, <1>7 DEF History
<1>9. executed' # <<>> /\ executed'[Len(executed')] = run
  BY <1>2
<1> QED BY <1>8, <1>9

LEMMA ExecuteStays == IInv /\ Execute => IInv'
PROOF
<1> SUFFICES ASSUME IInv, Execute PROVE IInv'
  OBVIOUS
<1>1. phase = "inspected" /\ UNCHANGED <<scenario, design, bundle, plan, attempt>>
  BY DEF Execute
<1>2. PICK probe \in Probes(scenario.runtime), spared \in SUBSET {"mesh"},
           result \in {"completed", "failed", "unstable"} :
        LET steps == Restrict(plan, {i \in DOMAIN plan : plan[i].stage \notin spared})
            files == IF spared = {} THEN case ELSE Over([path \in {Points} |-> MeshContent], case)
            level == Level(files, steps)
            backend == Backend(scenario.runtime, level, probe)
        IN  /\ spared \subseteq Stages(plan)
            /\ IF backend = "none"
               THEN phase' = "ended" /\ UNCHANGED executed
               ELSE /\ executed' = Append(executed,
                            [design |-> design, bundle |-> bundle, plan |-> plan, case |-> files,
                             steps |-> steps])
                    /\ phase' \in {"ended", "repairing"}
  BY DEF Execute, End
<1> DEFINE steps == Restrict(plan, {i \in DOMAIN plan : plan[i].stage \notin spared})
           files == IF spared = {} THEN case ELSE Over([path \in {Points} |-> MeshContent], case)
           backend == Backend(scenario.runtime, Level(files, steps), probe)
           run == [design |-> design, bundle |-> bundle, plan |-> plan, case |-> files,
                   steps |-> steps]
<1>3. CASE backend = "none"
  <2>1. phase' = "ended" /\ UNCHANGED executed
    BY <1>2, <1>3
  <2> QED BY <1>1, <2>1, EndStays
<1>4. CASE backend # "none"
  <2>1. executed' = Append(executed, run) /\ phase' \in {"ended", "repairing"}
    BY <1>2, <1>4
  <2>2. \A i \in DOMAIN steps : i \in DOMAIN plan /\ steps[i] = plan[i]
    BY DEF Restrict
  <2>3. files = case \/ (files = Meshed(case) /\ "mesh" \in Stages(plan))
    BY <1>2 DEF Meshed
  <2>4. /\ run.design = design /\ run.bundle = bundle /\ run.plan = plan /\ run.case = files
        /\ run.steps = steps
    OBVIOUS
  <2> HIDE DEF run, steps, files, backend
  <2>5. /\ case = Start(bundle.files, scenario.task)
        /\ Conforms(bundle, design, scenario.task)
        /\ ValidPlan(bundle, plan, scenario.task, scenario.environment)
        /\ plan = Now /\ ProperPlan(Now, design)
    BY <1>1 DEF IInv, Inspection, PlanAtHand, AtHand
  <2>6. Admitted(scenario, run)
    BY <2>2, <2>3, <2>4, <2>5 DEF Admitted
  <2>7. /\ Envelops(run.design, scenario.design) /\ IsBundle(run.bundle)
        /\ SystemKept(scenario, run.bundle)
        /\ run.plan = Compiled(run.bundle, run.design, scenario)
        /\ executed = <<>> => run.design = Frozen(scenario.design)
        /\ Advanced(run.design, run.bundle)
    BY <1>1, <2>4, <2>5 DEF IInv, AtHand, Now, Waiting
  <2>8. History' /\ executed' # <<>> /\ executed'[Len(executed')] = run
    BY <1>1, <2>1, <2>6, <2>7, HistoryGrows
  <2>9. AtHand' /\ PlanAtHand' /\ Waiting' /\ Inspection'
    <3>1. AtHand'
      BY <1>1, <2>1 DEF IInv, AtHand, Now
    <3>2. PlanAtHand'
      BY <1>1, <2>1, <2>5 DEF PlanAtHand, Now
    <3>3. Waiting'
      BY <1>1, <2>1, <2>4, <2>8 DEF Waiting
    <3>4. Inspection'
      BY <2>1 DEF Inspection
    <3> QED BY <3>1, <3>2, <3>3, <3>4
  <2> QED BY <1>1, <2>1, <2>8, <2>9 DEF IInv
<1> QED BY <1>3, <1>4

LEMMA RepairStays == IInv /\ Repair => IInv'
PROOF
<1> SUFFICES ASSUME IInv, Repair PROVE IInv'
  OBVIOUS
<1>1. phase = "repairing" /\ UNCHANGED <<scenario, case, attempt, executed>>
  BY DEF Repair
<1>2. PICK edit \in Edits :
        LET p == Proposal(edit, design, bundle)
            derived == Derived(p, design)
            revised == Revised(p, bundle)
        IN  \/ phase' = "ended" /\ UNCHANGED <<design, bundle, plan>>
            \/ /\ Authorized(p, design, scenario.task)
               /\ Applicable(p, design, bundle, scenario.task)
               /\ Compiles(revised, derived, scenario)
               /\ design' = derived
               /\ bundle' = revised
               /\ plan' = Compiled(revised, derived, scenario)
               /\ phase' = "ready"
  BY DEF Repair, End
<1> DEFINE p == Proposal(edit, design, bundle)
<1>3. CASE phase' = "ended" /\ UNCHANGED <<design, bundle, plan>>
  BY <1>1, <1>3, EndStays
<1>4. CASE /\ Authorized(p, design, scenario.task)
           /\ Applicable(p, design, bundle, scenario.task)
           /\ Compiles(Revised(p, bundle), Derived(p, design), scenario)
           /\ design' = Derived(p, design)
           /\ bundle' = Revised(p, bundle)
           /\ plan' = Compiled(Revised(p, bundle), Derived(p, design), scenario)
           /\ phase' = "ready"
  <2> DEFINE last == executed[Len(executed)]
             first == executed[1]
  <2>1. /\ Envelops(design, scenario.design) /\ IsBundle(bundle) /\ SystemKept(scenario, bundle)
        /\ executed # <<>> /\ design = last.design /\ bundle = last.bundle
    BY <1>1 DEF IInv, AtHand, Waiting
  <2>2. p.changes # {}
    BY <1>4 DEF Authorized
  <2>3. \A n \in DOMAIN executed : Ran(n)
    BY DEF IInv, History
  <2>4. 1 \in DOMAIN executed /\ Len(executed) \in DOMAIN executed
    <3>1. Len(executed) \in Nat /\ DOMAIN executed = 1..Len(executed)
      BY AppendKeeps DEF IInv, History
    <3>2. Len(executed) # 0
      BY <2>1 DEF IInv, History, IsSequence
    <3> QED BY <3>1, <3>2
  <2>5. DesignConfined(first, design) /\ BundleConfined(first, design, bundle) /\ IsBundle(first.bundle)
    BY <2>1, <2>3, <2>4 DEF Ran
  <2> HIDE DEF p, last, first
  <2>6. DesignConfined(first, design') /\ Shrunk(design, design')
    BY <1>4, <2>1, <2>5, DerivedIsConfined
  <2>7. Envelops(design', scenario.design)
    BY <1>4, <2>1, DerivedValues
  <2>8. BundleConfined(first, design', bundle')
    <3>1. first.design.envelope = design.envelope
      BY <2>5 DEF DesignConfined
    <3> QED BY <1>4, <2>1, <2>5, <3>1, RevisedIsConfined DEF p
  <2>9. IsBundle(bundle') /\ bundle'.manifest = bundle.manifest
    BY <1>4, <2>1, <2>2, RevisedFiles DEF p
  <2>10. SystemKept(scenario, bundle')
    BY <1>4, <2>1, <2>2, RevisedIsKept DEF p
  <2>11. /\ bundle'.manifest.solver = Solver(design')
         /\ Supported(design', scenario.task, scenario.environment)
    BY <1>4 DEF Compiles, Composable
  <2>12. plan' = Compiled(bundle', design', scenario)
    BY <1>4
  <2>13. ProperPlan(Compiled(bundle', design', scenario), design')
    BY <2>9, <2>11, CompiledIsProper DEF IInv, IsBundle
  <2>14. AtHand' /\ PlanAtHand'
    BY <1>1, <1>4, <2>7, <2>9, <2>10, <2>11, <2>12, <2>13
    DEF AtHand, PlanAtHand, Now
  <2>15. Waiting' /\ Inspection'
    <3>1. Advanced(design', bundle')
      BY <2>1, <2>6, <2>8 DEF Advanced, first, last
    <3>2. executed' = executed /\ phase' = "ready"
      BY <1>1, <1>4
    <3> QED BY <3>1, <3>2 DEF Waiting, Inspection, Advanced
  <2>16. History'
    BY <1>1, HistoryStays DEF IInv
  <2> QED BY <1>1, <1>4, <2>1, <2>14, <2>15, <2>16 DEF IInv
<1> QED BY <1>2, <1>3, <1>4

LEMMA Invariance == Spec => []IInv
PROOF
<1>1. Init => IInv
  BY InitIsSound
<1>2. IInv /\ [Next]_vars => IInv'
  <2> SUFFICES ASSUME IInv, [Next]_vars PROVE IInv'
    OBVIOUS
  <2>1. CASE AuthorCase
    BY <2>1, AuthorCaseStays
  <2>2. CASE AdmitPlan
    BY <2>2, AdmitPlanStays
  <2>3. CASE StartAttempt
    BY <2>3, StartAttemptStays
  <2>4. CASE Execute
    BY <2>4, ExecuteStays
  <2>5. CASE Repair
    BY <2>5, RepairStays
  <2>6. CASE UNCHANGED vars
    <3>1. History'
      BY <2>6, HistoryStays DEF IInv, vars
    <3> QED BY <2>6, <3>1 DEF IInv, AtHand, PlanAtHand, Waiting, Advanced, Inspection, Now, vars
  <2> QED BY <2>1, <2>2, <2>3, <2>4, <2>5, <2>6 DEF Next
<1> QED BY <1>1, <1>2, PTL DEF Spec

-----------------------------------------------------------------------------
(* The theorems.                                                            *)

LEMMA SamePlan ==
    ASSUME NEW s \in Scenarios, NEW first, NEW run, Admitted(s, first), Admitted(s, run),
           Envelops(run.design, s.design), first.design = Frozen(s.design),
           first.plan = Compiled(first.bundle, first.design, s),
           run.plan = Compiled(run.bundle, run.design, s),
           DesignConfined(first, run.design), BundleConfined(first, run.design, run.bundle)
    PROVE  run.plan = first.plan
PROOF
<1> DEFINE d == run.design
           e == first.design
<1>1. run.bundle.manifest = first.bundle.manifest
  BY DEF BundleConfined
<1>2. Solver(d) = Solver(e)
  BY <1>1 DEF Admitted, Conforms, CommonConforms, ManifestConforms
<1>3. \A rule \in d.envelope : rule.fact \in Numerics
  BY EnvelopeRules DEF Envelops
<1>4. \A fact \in DOMAIN d.facts \ Numerics : d.facts[fact] = e.facts[fact]
  BY <1>3 DEF DesignConfined
<1>5. DOMAIN d.facts = DOMAIN e.facts /\ d.extensions = e.extensions
  BY DEF DesignConfined
<1> HIDE DEF d, e
<1>6. Ranks(d) = Ranks(e) /\ SolverRuns(d) = SolverRuns(e)
  BY <1>4, <1>5 DEF Ranks, SolverRuns, FactOr, Knows, Numerics
<1> QED BY <1>1, <1>2, <1>5, <1>6, CompiledFrom DEF d, e

LEMMA RunsAreConfined == IInv => RepairIsConfined
PROOF
<1> SUFFICES ASSUME IInv, NEW n \in 2..Len(executed)
             PROVE  LET first == executed[1]
                        before == executed[n - 1]
                        run == executed[n]
                        named == {rule.keyword : rule \in first.design.envelope}
                    IN  /\ run.plan = first.plan
                        /\ [run.bundle EXCEPT !.files = <<>>] = [first.bundle EXCEPT !.files = <<>>]
                        /\ DOMAIN run.bundle.files = DOMAIN first.bundle.files
                        /\ \A path \in DOMAIN run.bundle.files :
                            IF path = Control
                            THEN Remainder(run.bundle.files[path], named)
                                 = Remainder(first.bundle.files[path], named)
                            ELSE run.bundle.files[path] = first.bundle.files[path]
                        /\ \A rule \in first.design.envelope :
                            /\ run.design.facts[rule.fact] \in rule.minimum..rule.maximum
                            /\ run.design.facts[rule.fact] <= before.design.facts[rule.fact]
                        /\ \E rule \in first.design.envelope :
                            run.design.facts[rule.fact] < before.design.facts[rule.fact]
                        /\ \A fact \in DOMAIN run.design.facts \ {rule.fact : rule \in first.design.envelope} :
                            run.design.facts[fact] = first.design.facts[fact]
  BY DEF RepairIsConfined
<1> DEFINE first == executed[1]
           before == executed[n - 1]
           run == executed[n]
<1>1. Len(executed) \in Nat /\ DOMAIN executed = 1..Len(executed)
  BY AppendKeeps DEF IInv, History
<1>2. executed # <<>> /\ 1 \in DOMAIN executed /\ n - 1 \in DOMAIN executed /\ n \in DOMAIN executed /\ n > 1
  BY <1>1
<1>3. /\ Ran(1) /\ Ran(n - 1) /\ Ran(n)
      /\ first.design = Frozen(scenario.design) /\ scenario \in Scenarios
  BY <1>2 DEF IInv, History
<1>4. /\ Admitted(scenario, first) /\ Admitted(scenario, run)
      /\ IsBundle(first.bundle) /\ IsBundle(run.bundle)
      /\ Envelops(run.design, scenario.design)
      /\ first.plan = Compiled(first.bundle, first.design, scenario)
      /\ run.plan = Compiled(run.bundle, run.design, scenario)
      /\ DesignConfined(first, run.design) /\ BundleConfined(first, run.design, run.bundle)
      /\ DesignConfined(first, before.design)
      /\ Shrunk(before.design, run.design)
  BY <1>2, <1>3 DEF Ran
<1> HIDE DEF first, before, run
<1>5. run.plan = first.plan
  BY <1>3, <1>4, SamePlan
<1>6. [run.bundle EXCEPT !.files = <<>>] = [first.bundle EXCEPT !.files = <<>>]
  <2>1. run.bundle.manifest = first.bundle.manifest
    BY <1>4 DEF BundleConfined
  <2>2. /\ run.bundle = [manifest |-> run.bundle.manifest, files |-> run.bundle.files]
        /\ first.bundle = [manifest |-> first.bundle.manifest, files |-> first.bundle.files]
    BY <1>4 DEF IsBundle
  <2>3. DOMAIN run.bundle = {"manifest", "files"} /\ DOMAIN first.bundle = {"manifest", "files"}
    BY <2>2, Zenon
  <2> QED BY <2>1, <2>3
<1>7. run.design.envelope = first.design.envelope /\ before.design.envelope = first.design.envelope
  BY <1>4 DEF DesignConfined
<1>8. /\ DOMAIN run.bundle.files = DOMAIN first.bundle.files
      /\ \A path \in DOMAIN run.bundle.files :
            IF path = Control
            THEN Remainder(run.bundle.files[path], Named(first.design))
                 = Remainder(first.bundle.files[path], Named(first.design))
            ELSE run.bundle.files[path] = first.bundle.files[path]
  BY <1>4, <1>7 DEF BundleConfined, Named
<1>9. /\ \A rule \in first.design.envelope :
            /\ run.design.facts[rule.fact] \in rule.minimum..rule.maximum
            /\ run.design.facts[rule.fact] <= before.design.facts[rule.fact]
      /\ \E rule \in first.design.envelope :
            run.design.facts[rule.fact] < before.design.facts[rule.fact]
      /\ \A fact \in DOMAIN run.design.facts \ {rule.fact : rule \in first.design.envelope} :
            run.design.facts[fact] = first.design.facts[fact]
  BY <1>4, <1>7 DEF DesignConfined, Shrunk
<1> QED BY <1>5, <1>6, <1>8, <1>9 DEF first, before, run, Named

\* A repair changes numbers of the frozen envelope, makes none larger and one
\* smaller, within its bounds, and leaves the plan, the manifest and every other
\* file as they were: for every design and task, whatever the repair model
\* proposes, and for any number of attempts.
THEOREM RepairConfined == Spec => []RepairIsConfined
PROOF
BY Invariance, RunsAreConfined, PTL

\* What the solver reads is the frozen design, in every attempt, and the user's
\* and the system's files are as they were given: CaseIsTheDesign, with the
\* exceptions it names, whatever is staged and whatever the author answers.
THEOREM DesignIsRun == Spec => []CaseIsTheDesign
PROOF
<1>1. IInv => CaseIsTheDesign
  <2> SUFFICES ASSUME IInv, NEW n \in DOMAIN executed
               PROVE  FollowsDesign(executed[1], executed[n]) /\ Intact(scenario, executed[n])
    BY
    DEF CaseIsTheDesign, FilesFollowDesign, OthersFilesAreIntact, FollowsDesign,
        Intact
  <2>1. Ran(n) /\ scenario \in Scenarios
    BY DEF IInv, History
  <2>2. FollowsDesign(executed[1], executed[n])
    BY <2>1, AdmittedFollows DEF Ran
  <2>3. Intact(scenario, executed[n])
    BY <2>1, AdmittedIsIntact DEF Ran
  <2> QED BY <2>2, <2>3
<1> QED BY <1>1, Invariance, PTL

-------------------------------------------------------------------------------
(*****************************************************************************)
(* SupervisedProcess, for every set of descendants and every number of       *)
(* calls. TypeOK is not inductive by itself: Reap is defined only when a     *)
(* reason for the termination was noted, and a group stays empty only        *)
(* while no leader runs that could fork. ProcessInv says so.                 *)
(*****************************************************************************)

\* A group is being terminated for a reason; the deadline never waits for the
\* grace period.
ReasonKnown ==
    /\ sup = "grace" => why \in {"cancel", "abort"}
    /\ sup = "drain" => why \in {"cancel", "abort", "timeout"}

\* Where the leader may be at each place of the call.
LeaderByPlace ==
    /\ sup \in {"idle", "checked"} => leader \in {"none", "reaped"}
    /\ sup = "finishing" => leader = "reaped"

\* From the SIGKILL of the deadline on nobody is left to fork.
DrainedByDeadline ==
    sup = "drain" /\ why = "timeout" => GroupKids = {} /\ leader # "running"

ProcessInv ==
    /\ TypeOK
    /\ ReasonKnown
    /\ LeaderByPlace
    /\ DrainedByDeadline
    /\ TimeoutLeavesNoGroup

\* A call reads pipes or redirects to files.
LEMMA CapturesAreBoolean == ASSUME NEW c \in Captures PROVE c \in BOOLEAN
BY SupervisedAssumption, Zenon DEF SupervisedAssumption

\* ProcessInv holds in the initial state.
LEMMA InitProcessInv == ProcessInit => ProcessInv
<1> SUFFICES ASSUME ProcessInit PROVE ProcessInv
  OBVIOUS
<1>1. pipes \in BOOLEAN
  BY CapturesAreBoolean, Zenon DEF ProcessInit
<1>2. kids \in [Kids -> KidStates]
  BY DEF ProcessInit, KidStates
<1>3. calls \in 0..MaxCalls
  BY SupervisedAssumption DEF ProcessInit, SupervisedAssumption
<1>4. TypeOK
  BY <1>1, <1>2, <1>3 DEF ProcessInit, TypeOK, SupStates, Outcomes
<1> QED
  BY <1>4
  DEF ProcessInit, ProcessInv, ReasonKnown, LeaderByPlace, DrainedByDeadline,
      TimeoutLeavesNoGroup, GroupKids

\* After SIGKILL to the group nobody in it is alive, and nobody is left to fork.
LEMMA KillEmptiesGroup ==
    ASSUME TypeOK, KillGroup
    PROVE  /\ leader' \in {"none", "zombie", "reaped"}
           /\ kids' \in [Kids -> KidStates]
           /\ misfired' \in BOOLEAN
           /\ {k \in Kids : kids'[k] \in {"group", "quiet"}} = {}
BY DEF TypeOK, KillGroup, KidStates, Misfire, GroupKids

\* Starting a termination keeps the invariant: it says why, and moves on.
LEMMA TerminateKeepsIInv ==
    ASSUME ProcessInv, NEW reason \in {"cancel", "abort"}, Terminate(reason),
           UNCHANGED cancel
    PROVE  ProcessInv'
BY DEF ProcessInv, TypeOK, SupStates, Outcomes, KidStates, ReasonKnown,
       LeaderByPlace, DrainedByDeadline, TimeoutLeavesNoGroup, GroupKids,
       Terminate, Misfire

\* Reaping keeps the invariant: the outcome is the reason's.
LEMMA ReapKeepsIInv ==
    ASSUME ProcessInv, sup \in {"grace", "drain"}, CommunicateReturns, Reap,
           UNCHANGED cancel
    PROVE  ProcessInv'
<1>1. why \in {"cancel", "abort", "timeout"}
  BY DEF ProcessInv, ReasonKnown
<1>2. CASE why = "abort"
  BY <1>2 DEF ProcessInv, TypeOK, SupStates, Outcomes, KidStates, ReasonKnown,
      LeaderByPlace, DrainedByDeadline, TimeoutLeavesNoGroup, GroupKids,
      CommunicateReturns, Reap
<1>3. CASE why = "cancel"
  BY <1>3 DEF ProcessInv, TypeOK, SupStates, Outcomes, KidStates, ReasonKnown,
      LeaderByPlace, DrainedByDeadline, TimeoutLeavesNoGroup, GroupKids,
      CommunicateReturns, Reap
<1>4. CASE why = "timeout"
  BY <1>4 DEF ProcessInv, TypeOK, SupStates, Outcomes, KidStates, ReasonKnown,
      LeaderByPlace, DrainedByDeadline, TimeoutLeavesNoGroup, GroupKids,
      CommunicateReturns, Reap
<1> QED BY <1>1, <1>2, <1>3, <1>4

\* ProcessInv is inductive.
LEMMA NextProcessInv == ProcessInv /\ [ProcessNext]_processVars => ProcessInv'
<1> SUFFICES ASSUME ProcessInv, [ProcessNext]_processVars PROVE ProcessInv'
  OBVIOUS
<1> USE SupervisedAssumption
    DEF SupervisedAssumption, ProcessInv, TypeOK, SupStates, Outcomes, KidStates,
        ReasonKnown, LeaderByPlace, DrainedByDeadline, TimeoutLeavesNoGroup,
        GroupKids
<1>1. CASE UNCHANGED processVars
  BY <1>1 DEF processVars, callVars
<1>2. CASE RequestCancel
  BY <1>2 DEF RequestCancel, callVars
<1>3. ASSUME UNCHANGED cancel PROVE Call => ProcessInv'
  <2> SUFFICES ASSUME Call PROVE ProcessInv'
    OBVIOUS
  <2>1. pipes' \in BOOLEAN
    BY CapturesAreBoolean, Zenon DEF Call
  <2>2. kids' \in [Kids -> KidStates]
    BY DEF Call
  <2>3. calls' \in 0..MaxCalls
    BY DEF Call
  <2>4. CASE cancel
    BY <1>3, <2>1, <2>2, <2>3, <2>4 DEF Call
  <2>5. CASE ~cancel
    BY <1>3, <2>1, <2>2, <2>3, <2>5 DEF Call
  <2> QED BY <2>4, <2>5
<1>4. ASSUME UNCHANGED cancel PROVE Launch \/ LaunchFails => ProcessInv'
  BY <1>4 DEF Launch, LaunchFails
<1>5. ASSUME UNCHANGED cancel, NEW raised \in BOOLEAN
      PROVE  EmitStarted(raised) \/ EmitFinal(raised) => ProcessInv'
  <2>1. CASE raised
    BY <1>5, <2>1, TerminateKeepsIInv DEF EmitStarted, EmitFinal
  <2>2. CASE ~raised
    BY <1>5, <2>2 DEF EmitStarted, EmitFinal
  <2> QED BY <2>1, <2>2
<1>6. ASSUME UNCHANGED cancel PROVE PollCancel \/ TickRaises => ProcessInv'
  BY <1>6, TerminateKeepsIInv DEF PollCancel, TickRaises
<1>7. ASSUME UNCHANGED cancel PROVE PollTimeout => ProcessInv'
  BY <1>7, KillEmptiesGroup DEF PollTimeout
<1>8. ASSUME UNCHANGED cancel PROVE PollExit => ProcessInv'
  BY <1>8 DEF PollExit
<1>9. ASSUME UNCHANGED cancel PROVE GraceReap \/ DrainReap => ProcessInv'
  BY <1>9, ReapKeepsIInv DEF GraceReap, DrainReap
<1>10. ASSUME UNCHANGED cancel PROVE GraceExpires => ProcessInv'
  BY <1>10, KillEmptiesGroup DEF GraceExpires
<1>11. ASSUME UNCHANGED cancel PROVE SupervisorDies \/ DeadlinePasses => ProcessInv'
  BY <1>11 DEF SupervisorDies, DeadlinePasses
<1>12. ASSUME UNCHANGED cancel PROVE LeaderExits \/ GroupIdRecycled => ProcessInv'
  BY <1>12 DEF LeaderExits, GroupIdRecycled
<1>13. ASSUME UNCHANGED cancel, NEW k \in Kids
       PROVE  KidForks(k) \/ KidEscapes(k) \/ KidRedirects(k) \/ KidExits(k)
                => ProcessInv'
  <2>1. KidForks(k) => ProcessInv'
    BY <1>13 DEF KidForks
  <2>2. KidEscapes(k) => ProcessInv'
    BY <1>13 DEF KidEscapes
  <2>3. KidRedirects(k) \/ KidExits(k) => ProcessInv'
    BY <1>13 DEF KidRedirects, KidExits, Holders
  <2> QED BY <2>1, <2>2, <2>3
<1> QED
  BY <1>1, <1>2, <1>3, <1>4, <1>5, <1>6, <1>7, <1>8, <1>9, <1>10, <1>11,
     <1>12, <1>13 DEF ProcessNext, Supervise, Progress, Processes

\* Every behaviour of a supervised call keeps the inductive invariant.
THEOREM ProcessInvariant == Safe => []ProcessInv
<1>1. ProcessInit => ProcessInv
  BY InitProcessInv
<1>2. ProcessInv /\ [ProcessNext]_processVars => ProcessInv'
  BY NextProcessInv
<1> QED BY <1>1, <1>2, PTL DEF Safe

\* The state of a call (process.py: run_supervised_process) is always well typed.
THEOREM TypeCorrect == Safe => []TypeOK
<1>1. ProcessInv => TypeOK
  BY DEF ProcessInv
<1> QED BY <1>1, ProcessInvariant, PTL

\* "always reap the child": between two calls no leader is running or a zombie,
\* whichever events raised and however the last call ended.
THEOREM LeaderReaped == Safe => []ReapedBetweenCalls
<1>1. ProcessInv => ReapedBetweenCalls
  BY DEF ProcessInv, LeaderByPlace, ReapedBetweenCalls
<1> QED BY <1>1, ProcessInvariant, PTL

\* A call that reports a timeout leaves nobody alive in the leader's group.
THEOREM TimeoutEmptiesGroup == Safe => []TimeoutLeavesNoGroup
<1>1. ProcessInv => TimeoutLeavesNoGroup
  BY DEF ProcessInv
<1> QED BY <1>1, ProcessInvariant, PTL

\* How far a call is from its end, by the place of its thread. After a failed
\* emission nothing is emitted any more.
Ahead ==
    CASE sup \in {"idle", "gone"} -> 0
      [] sup = "drain" /\ why = "abort" -> 1
      [] sup = "grace" /\ why = "abort" -> 2
      [] sup = "finishing" -> 3
      [] sup = "drain" /\ why # "abort" -> 4
      [] sup = "grace" /\ why # "abort" -> 5
      [] sup = "polling" -> 6
      [] sup = "launched" -> 7
      [] sup = "checked" -> 8

\* A call is at most eight steps of its thread from its end.
LEMMA AheadBounded == ASSUME TypeOK PROVE Ahead \in 0..8
BY DEF Ahead, TypeOK, SupStates

\* Each step of the thread brings the end of the call nearer.
LEMMA SuperviseDescends == ASSUME ProcessInv, Supervise PROVE Ahead' < Ahead
<1> USE DEF ProcessInv, TypeOK, SupStates, ReasonKnown
<1>1. ASSUME NEW raised \in BOOLEAN, EmitStarted(raised) \/ EmitFinal(raised)
      PROVE  Ahead' < Ahead
  BY <1>1 DEF EmitStarted, EmitFinal, Terminate, Ahead
<1>2. CASE PollCancel \/ TickRaises
  BY <1>2 DEF PollCancel, TickRaises, Terminate, Ahead
<1>3. CASE PollTimeout \/ PollExit
  BY <1>3 DEF PollTimeout, PollExit, Ahead
<1>4. CASE GraceReap \/ DrainReap
  <2>1. sup \in {"grace", "drain"} /\ why \in {"abort", "cancel", "timeout"} /\ why' = why
    BY <1>4 DEF GraceReap, DrainReap, Reap
  <2>2. sup' = (IF why = "abort" THEN "idle" ELSE "finishing")
    <3>1. CASE why = "abort"
      BY <1>4, <3>1 DEF GraceReap, DrainReap, Reap
    <3>2. CASE why = "cancel"
      BY <1>4, <3>2 DEF GraceReap, DrainReap, Reap
    <3>3. CASE why = "timeout"
      BY <1>4, <3>3 DEF GraceReap, DrainReap, Reap
    <3> QED BY <2>1, <3>1, <3>2, <3>3
  <2> QED BY <2>1, <2>2 DEF Ahead
<1>5. CASE GraceExpires
  BY <1>5 DEF GraceExpires, Ahead
<1> QED BY <1>1, <1>2, <1>3, <1>4, <1>5 DEF Supervise, Progress

\* Whatever the child does, a call comes to its end in eight steps of its thread at
\* most, and nothing but the next call takes it back: what remains of CallReturns is
\* that the thread keeps running, that time passes and that pipes are let go
\* (run_supervised_process, 89-297).
THEOREM CallDescends ==
    Safe => [][(Supervise => Ahead' < Ahead) /\ (sup # "idle" => Ahead' <= Ahead)]_processVars
<1>1. ASSUME ProcessInv, ProcessNext
      PROVE  (Supervise => Ahead' < Ahead) /\ (sup # "idle" => Ahead' <= Ahead)
  <2>1. Ahead \in 0..8
    BY <1>1, AheadBounded DEF ProcessInv
  <2>2. CASE Supervise
    <3>1. Ahead' \in 0..8
      BY <1>1, NextProcessInv DEF ProcessInv, Ahead, TypeOK, SupStates
    <3> QED BY <1>1, <2>1, <2>2, <3>1, SuperviseDescends
  <2>3. CASE ~Supervise
    <3>1. CASE UNCHANGED <<sup, why>>
      <4>1. sup \in SupStates /\ sup' = sup /\ why' = why
        BY <1>1, <3>1 DEF ProcessInv, TypeOK
      <4>2. Ahead' = Ahead
        BY <4>1 DEF Ahead, SupStates
      <4> QED BY <2>1, <2>3, <4>2
    <3>2. CASE Call \/ Launch \/ LaunchFails \/ SupervisorDies
      BY <1>1, <2>3, <3>2 DEF Call, Launch, LaunchFails, SupervisorDies, Ahead,
         ProcessInv, TypeOK, SupStates
    <3> QED
      BY <1>1, <2>3, <3>1, <3>2 DEF ProcessNext, RequestCancel, callVars, DeadlinePasses,
         Processes, LeaderExits, GroupIdRecycled, KidForks, KidEscapes,
         KidRedirects, KidExits
  <2> QED BY <2>2, <2>3
<1>2. ProcessInv /\ [ProcessNext]_processVars =>
        [(Supervise => Ahead' < Ahead) /\ (sup # "idle" => Ahead' <= Ahead)]_processVars
  BY <1>1
<1> QED BY <1>2, ProcessInvariant, PTL DEF Safe
===============================================================================
