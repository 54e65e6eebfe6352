--------------------------- MODULE NativeSolveProofs ---------------------------
(***************************************************************************)
(* Proofs about NativeSolve, for any limits of attempts and of transport,  *)
(* any designs and failures, and lineages of any length.  The recursive    *)
(* sums over a lineage are followed along the behaviour: a run that is     *)
(* frozen extends them by one.                                             *)
(***************************************************************************)
EXTENDS NativeSolve, TLAPS

Generation == "MODEL_GENERATION_STARTED"
Repairing == "MODEL_REPAIR_STARTED"

Attempting == {"attempt", "execute", "assess", "evaluate", "classify"}
Sourced == {"source", "source-again", "ready", "repair"} \cup Attempting

\* How a run came to be: a fresh run continues nothing, a continuation of a
\* repair has copied the evidence of an attempt and no other has.
Origin(r) ==
  /\ r.before + r.used <= TransportLimit
  /\ r.relation = "fresh" => r.parent = 0 /\ r.before = 0
  /\ r.relation # "resume" => r.from = "none"
  /\ r.mode # "live" => r.relation = "fresh"
  /\ r.from # "none" => r.parent # 0
  /\ r.from = "none" => \A s \in Stages : r.counts[s] = 0
  /\ r.from = Repairing => r.counts[Repairing] >= 1 /\ r.evidence # 0
  /\ r.from # Repairing => r.counts[Repairing] = 0 /\ r.evidence = 0

NoRepetition(prints) == \A k \in 1..Len(prints) - 1 : prints[k] # prints[k + 1]

\* Logical requests of a run and of those it continues, and what they are for:
\* two for the design, one that was answered with a case or a repair, one for
\* each attempt and one for each continuation.
Calls(r) == r.callsBefore + r.calls
Spent(r) == r.counts[Generation] + r.counts[Repairing] + Len(r.attempts)

Counted(r, place) ==
  /\ r.relation = "fresh" /\ place \in {"preflight", "routing", "intent"} => Calls(r) = 0
  /\ place = "design" => Calls(r) <= 1
  /\ Calls(r) <= (IF place \in {"ready"} \cup Attempting THEN 3 ELSE 2) + Spent(r)

\* The files of a run are those of the attempts it has made.
UpTo(r, name, n) == \A k \in 0..MaxAttempts + 1 : Has(r, name, k) => k <= n

\* The last attempt of which some file may be there.
Latest(r, place, places) ==
  IF place \in places THEN Len(r.attempts) + 1 ELSE Len(r.attempts)

Filed(r, place) ==
  /\ UpTo(r, "active-plan", Latest(r, place, Attempting))
  /\ UpTo(r, "attempt", Latest(r, place, Attempting \ {"attempt"}))
  /\ UpTo(r, "run-assessment", Latest(r, place, {"evaluate", "classify"}))
  /\ UpTo(r, "derived-metrics", Latest(r, place, {"classify"}))
  /\ UpTo(r, "repair-evidence", IF place = "repair" THEN Len(r.attempts) - 1
                                 ELSE Len(r.attempts))
  /\ place \in Sourced => Has(r, "resume-compatibility", 0)
  /\ place \in {"contracts"} \cup Sourced => Has(r, "case-design", 0)
  /\ place \notin {"ready", "repair"} \cup Attempting => ~Has(r, "case-authored", 0)
  /\ place \in {"assess", "evaluate", "classify"} =>
       Has(r, "run-facts", Len(r.attempts) + 1)
  /\ place = "repair" => Has(r, "run-facts", Len(r.attempts))

\* Which attempts a run has behind it.
Counting(r, place) ==
  /\ Len(r.attempts) <= MaxAttempts - 1 /\ NoRepetition(r.attempts)
  /\ r.from = Repairing \/ place = "repair" => Len(r.attempts) >= 1
  /\ r.from # Repairing /\ place \notin {"repair"} \cup Attempting => r.attempts = <<>>
  /\ place \in {"design", "gate"} => r.relation = "fresh"
  /\ place = "source-again" => r.from = Repairing

\* A second continuation of a repair finds no design where it looks for one.
FirstRepair(r, place) ==
  /\ r.from = Repairing /\ runs[r.parent].evidence = 0 => r.counts[Repairing] = 1
  /\ /\ r.from = Repairing /\ runs[r.parent].evidence = 0
     /\ place \notin {"ready", "repair"} \cup Attempting
     => r.evidence = Len(r.attempts)
  /\ r.from = Repairing /\ place \notin {"preflight", "routing", "intent"} =>
       runs[r.parent].evidence = 0

\* The run of a solve in progress, at a place of the code.
Working(r, place) ==
  /\ Counting(r, place) /\ FirstRepair(r, place) /\ Counted(r, place) /\ Filed(r, place)
  /\ r.outcome = "open" /\ r.code = "none" /\ r.offer = "none"

\* What a frozen run offers can be taken up.
Offering(r) ==
  /\ r.offer \in Stages =>
       /\ Has(r, "resume-compatibility", 0) /\ r.before + r.used < TransportLimit
       /\ r.counts[r.offer] < ContinuationLimit
  /\ r.offer = Generation => /\ r.from # Repairing /\ Has(r, "case-design", 0)
                             /\ Calls(r) <= 3 + r.counts[Generation]
  /\ r.offer = Repairing =>
       /\ Calls(r) <= 3 + Spent(r) /\ NoRepetition(r.attempts)
       /\ Len(r.attempts) \in 1..MaxAttempts - 1
       /\ r.evidence # 0 \/ Has(r, "run-facts", Len(r.attempts))

Frozen(r) ==
  /\ Offering(r)
  /\ r.code # "AGENT_STATUS"
  /\ r.outcome = "UNSEALED" => r.code = "UNHANDLED"
  /\ r.code = "CONFIRMATION_REQUIRED" =>
       /\ r.relation = "fresh" /\ Calls(r) <= 2
       /\ EvaluateDesignRisk(r.draft, TRUE) = "CONFIRMATION_REQUIRED"
  /\ r.relation = "confirmation" =>
       Has(r, "case-design", 0) /\ r.used = 0 /\ r.calls = 0 /\ r.callsBefore <= 2
  /\ \A k \in 1..Len(r.attempts) - 2 : r.attempts[k] # r.attempts[k + 1]

\* The runs of a lineage are in the order they were made.
History ==
  /\ \A p \in 1..Len(runs) :
       runs[p].parent \in 0..p - 1 /\ Origin(runs[p]) /\ Frozen(runs[p])
  /\ at # "idle" => /\ Len(runs) < MaxRuns /\ run.parent \in 0..Len(runs)
                    /\ Origin(run) /\ Working(run, at)
                    /\ run.relation # "confirmation"

\* The sums over a lineage.
IsUsed(f, rs) ==
  f = [p \in 0..Len(rs) |-> IF p = 0 THEN 0 ELSE rs[p].used + f[rs[p].parent]]
IsBack(b, rs) ==
  b = [q \in 0..Len(rs) |-> IF q = 0 THEN {} ELSE {q} \cup b[rs[q].parent]]

\* What a run says its lineage has used covers what it has used.
Covers(r, f, b, rs) ==
  (\A q \in b[r.parent] : rs[q].outcome # "INTERRUPTED") => f[r.parent] <= r.before
Covered(r, rs) ==
  \A f, b : IsUsed(f, rs) /\ IsBack(b, rs) => Covers(r, f, b, rs)

Sums ==
  /\ \E f : IsUsed(f, runs)
  /\ \E b : IsBack(b, runs)
  /\ \A f : IsUsed(f, runs) => \A p \in 0..Len(runs) : f[p] \in Nat
  /\ \A b : IsBack(b, runs) => \A p \in 0..Len(runs) : b[p] \subseteq 1..Len(runs)
  /\ \A p \in 1..Len(runs) : Covered(runs[p], runs)
  /\ at # "idle" => Covered(run, runs)

\* The inductive invariant.
IInv == TypeOK /\ History /\ Sums
-------------------------------------------------------------------------------
(* The sums over a lineage, when a run is added.                            *)

LEMMA Appended ==
  ASSUME NEW rs \in Seq(RunRecords), NEW r \in RunRecords
  PROVE  /\ Append(rs, r) \in Seq(RunRecords) /\ Len(Append(rs, r)) = Len(rs) + 1
         /\ \A p \in 1..Len(rs) : Append(rs, r)[p] = rs[p]
         /\ Append(rs, r)[Len(rs) + 1] = r
         /\ Len(rs) \in Nat
OBVIOUS

LEMMA UsedGrows ==
  ASSUME NEW rs \in Seq(RunRecords),
         \A p \in 1..Len(rs) : rs[p].parent \in 0..p - 1,
         NEW r \in RunRecords, r.parent \in 0..Len(rs),
         NEW f, IsUsed(f, Append(rs, r))
  PROVE  \E g : /\ IsUsed(g, rs) /\ \A p \in 0..Len(rs) : f[p] = g[p]
                /\ f[Len(rs) + 1] = r.used + g[r.parent]
<1> DEFINE n == Len(rs)
           ss == Append(rs, r)
           g == [p \in 0..n |-> f[p]]
<1>1. /\ Len(ss) = n + 1 /\ n \in Nat /\ ss[n + 1] = r
      /\ \A p \in 1..n : ss[p] = rs[p]
  BY Appended
<1>2. f = [p \in 0..Len(ss) |-> IF p = 0 THEN 0 ELSE ss[p].used + f[ss[p].parent]]
  BY DEF IsUsed
<1> HIDE DEF n, ss
<1>3. /\ f[0] = 0 /\ f[n + 1] = r.used + f[r.parent]
      /\ \A p \in 1..n : f[p] = rs[p].used + f[rs[p].parent]
  <2>1. 0 \in 0..(n + 1) /\ n + 1 \in 0..(n + 1) /\ 1..n \subseteq 0..(n + 1) /\ n + 1 # 0
    BY <1>1
  <2>2. \A p \in 0..(n + 1) : f[p] = IF p = 0 THEN 0 ELSE ss[p].used + f[ss[p].parent]
    BY <1>1, <1>2
  <2> QED BY <1>1, <2>1, <2>2
<1>4. \A p \in 1..n : rs[p].parent \in 0..n /\ p \in 0..n /\ p # 0
  BY <1>1 DEF n
<1>5. \A p \in 1..n : g[p] = rs[p].used + g[rs[p].parent]
  BY <1>3, <1>4
<1>6. g[0] = 0 /\ g[r.parent] = f[r.parent] /\ \A p \in 0..n : f[p] = g[p]
  BY <1>1, <1>3 DEF n
<1>7. g = [p \in 0..n |-> IF p = 0 THEN 0 ELSE rs[p].used + g[rs[p].parent]]
  <2> DEFINE h == [p \in 0..n |-> IF p = 0 THEN 0 ELSE rs[p].used + g[rs[p].parent]]
  <2>1. \A p \in 0..n : p = 0 \/ p \in 1..n
    BY <1>1
  <2>2. \A p \in 0..n : g[p] = h[p]
    BY <1>5, <1>6, <2>1
  <2> QED BY <2>2
<1> QED BY <1>3, <1>6, <1>7 DEF IsUsed, n

LEMMA BackGrows ==
  ASSUME NEW rs \in Seq(RunRecords),
         \A p \in 1..Len(rs) : rs[p].parent \in 0..p - 1,
         NEW r \in RunRecords, r.parent \in 0..Len(rs),
         NEW b, IsBack(b, Append(rs, r))
  PROVE  \E c : /\ IsBack(c, rs) /\ \A p \in 0..Len(rs) : b[p] = c[p]
                /\ b[Len(rs) + 1] = {Len(rs) + 1} \cup c[r.parent]
<1> DEFINE n == Len(rs)
           ss == Append(rs, r)
           c == [p \in 0..n |-> b[p]]
<1>1. /\ Len(ss) = n + 1 /\ n \in Nat /\ ss[n + 1] = r
      /\ \A p \in 1..n : ss[p] = rs[p]
  BY Appended
<1>2. b = [p \in 0..Len(ss) |-> IF p = 0 THEN {} ELSE {p} \cup b[ss[p].parent]]
  BY DEF IsBack
<1> HIDE DEF n, ss
<1>3. /\ b[0] = {} /\ b[n + 1] = {n + 1} \cup b[r.parent]
      /\ \A p \in 1..n : b[p] = {p} \cup b[rs[p].parent]
  <2>1. 0 \in 0..(n + 1) /\ n + 1 \in 0..(n + 1) /\ 1..n \subseteq 0..(n + 1) /\ n + 1 # 0
    BY <1>1
  <2>2. \A p \in 0..(n + 1) : b[p] = IF p = 0 THEN {} ELSE {p} \cup b[ss[p].parent]
    BY <1>1, <1>2
  <2>3. b[0] = {}
    BY <2>1, <2>2
  <2>4. b[n + 1] = {n + 1} \cup b[ss[n + 1].parent]
    BY <2>1, <2>2
  <2>5. \A p \in 1..n : p \in 0..(n + 1) /\ p # 0 /\ ss[p].parent = rs[p].parent
    BY <1>1, <2>1
  <2>6. \A p \in 1..n : b[p] = {p} \cup b[rs[p].parent]
    BY <2>2, <2>5
  <2> QED BY <1>1, <2>3, <2>4, <2>6
<1>4. \A p \in 1..n : rs[p].parent \in 0..n /\ p \in 0..n /\ p # 0
  BY <1>1 DEF n
<1>5. \A p \in 1..n : c[p] = {p} \cup c[rs[p].parent]
  BY <1>3, <1>4
<1>6. c[0] = {} /\ c[r.parent] = b[r.parent] /\ \A p \in 0..n : b[p] = c[p]
  BY <1>1, <1>3 DEF n
<1>7. c = [p \in 0..n |-> IF p = 0 THEN {} ELSE {p} \cup c[rs[p].parent]]
  <2> DEFINE h == [p \in 0..n |-> IF p = 0 THEN {} ELSE {p} \cup c[rs[p].parent]]
  <2>1. \A p \in 0..n : p = 0 \/ p \in 1..n
    BY <1>1
  <2>2. \A p \in 0..n : c[p] = h[p]
    BY <1>5, <1>6, <2>1
  <2> QED BY <2>2
<1> QED BY <1>3, <1>6, <1>7 DEF IsBack, n

\* The sums exist for the longer lineage too.
LEMMA SumsExist ==
  ASSUME NEW rs \in Seq(RunRecords),
         \A p \in 1..Len(rs) : rs[p].parent \in 0..p - 1,
         NEW r \in RunRecords, r.parent \in 0..Len(rs),
         \E g : IsUsed(g, rs), \E c : IsBack(c, rs)
  PROVE  (\E f : IsUsed(f, Append(rs, r))) /\ (\E b : IsBack(b, Append(rs, r)))
<1> DEFINE n == Len(rs)
           ss == Append(rs, r)
<1>1. /\ Len(ss) = n + 1 /\ n \in Nat /\ ss[n + 1] = r
      /\ \A p \in 1..n : ss[p] = rs[p]
  BY Appended
<1>2. \A p \in 1..n : rs[p].parent \in 0..n /\ p \in 0..n /\ p # 0
  BY <1>1
<1>3. \A p \in 0..(n + 1) : (p = 0 /\ p \in 0..n) \/ p \in 1..n \/ (p = n + 1 /\ p \notin 0..n /\ p # 0)
  BY <1>1
<1>4. r.parent \in 0..n
  OBVIOUS
<1>5. \E f : IsUsed(f, ss)
  <2>1. PICK g : g = [p \in 0..n |-> IF p = 0 THEN 0 ELSE rs[p].used + g[rs[p].parent]]
    BY DEF IsUsed
  <2> DEFINE f == [p \in 0..(n + 1) |-> IF p \in 0..n THEN g[p] ELSE r.used + g[r.parent]]
             h == [p \in 0..(n + 1) |-> IF p = 0 THEN 0 ELSE ss[p].used + f[ss[p].parent]]
  <2> HIDE DEF n, ss
  <2>2. \A p \in 0..n : p \in 0..(n + 1) /\ f[p] = g[p]
    BY <1>1
  <2>3. g[0] = 0 /\ \A p \in 1..n : g[p] = rs[p].used + g[rs[p].parent]
    BY <1>1, <1>2, <2>1
  <2>4. \A p \in 0..(n + 1) : f[p] = h[p]
    BY <1>1, <1>2, <1>3, <1>4, <2>2, <2>3
  <2>5. f = h
    BY <2>4
  <2> QED BY <1>1, <2>5 DEF IsUsed
<1>6. \E b : IsBack(b, ss)
  <2>1. PICK c : c = [p \in 0..n |-> IF p = 0 THEN {} ELSE {p} \cup c[rs[p].parent]]
    BY DEF IsBack
  <2> DEFINE b == [p \in 0..(n + 1) |-> IF p \in 0..n THEN c[p] ELSE {p} \cup c[r.parent]]
             h == [p \in 0..(n + 1) |-> IF p = 0 THEN {} ELSE {p} \cup b[ss[p].parent]]
  <2> HIDE DEF n, ss
  <2>2. \A p \in 0..n : p \in 0..(n + 1) /\ b[p] = c[p]
    BY <1>1
  <2>3. c[0] = {} /\ \A p \in 1..n : c[p] = {p} \cup c[rs[p].parent]
    BY <1>1, <1>2, <2>1
  <2>4. \A p \in 0..(n + 1) : b[p] = h[p]
    BY <1>1, <1>2, <1>3, <1>4, <2>2, <2>3
  <2>5. b = h
    BY <2>4
  <2> QED BY <1>1, <2>5 DEF IsBack
<1> QED BY <1>5, <1>6

\* What covered the lineage of a run still does.
LEMMA StillCovered ==
  ASSUME NEW rs \in Seq(RunRecords),
         \A p \in 1..Len(rs) : rs[p].parent \in 0..p - 1,
         NEW r \in RunRecords, r.parent \in 0..Len(rs),
         \A b : IsBack(b, rs) => \A p \in 0..Len(rs) : b[p] \subseteq 1..Len(rs),
         NEW q, q.parent \in 0..Len(rs), Covered(q, rs)
  PROVE  Covered(q, Append(rs, r))
<1> DEFINE ss == Append(rs, r)
<1>1. \A p \in 1..Len(rs) : ss[p] = rs[p]
  BY Appended
<1> HIDE DEF ss
<1>2. SUFFICES ASSUME NEW f, NEW b, IsUsed(f, ss), IsBack(b, ss),
                      \A x \in b[q.parent] : ss[x].outcome # "INTERRUPTED"
               PROVE  f[q.parent] <= q.before
  BY DEF Covered, Covers, ss
<1>3. PICK g : IsUsed(g, rs) /\ \A p \in 0..Len(rs) : f[p] = g[p]
  BY <1>2, UsedGrows DEF ss
<1>4. PICK c : IsBack(c, rs) /\ \A p \in 0..Len(rs) : b[p] = c[p]
  BY <1>2, BackGrows DEF ss
<1>5. \A x \in c[q.parent] : rs[x].outcome # "INTERRUPTED"
  BY <1>1, <1>2, <1>4
<1>6. g[q.parent] <= q.before
  BY <1>3, <1>4, <1>5 DEF Covered, Covers
<1> QED BY <1>3, <1>6

LEMMA SumsGrow ==
  ASSUME TypeOK, \A p \in 1..Len(runs) : runs[p].parent \in 0..p - 1, Sums,
         NEW r \in RunRecords, r.parent \in 0..Len(runs), Covered(r, runs),
         runs' = Append(runs, r), at' = "idle"
  PROVE  Sums'
<1> DEFINE n == Len(runs)
<1>1. /\ runs \in Seq(RunRecords) /\ Len(runs') = n + 1 /\ n \in Nat
      /\ runs'[n + 1] = r /\ \A p \in 1..n : runs'[p] = runs[p]
  BY Appended DEF TypeOK
<1>2. (\E f : IsUsed(f, runs')) /\ (\E b : IsBack(b, runs'))
  BY <1>1, SumsExist DEF Sums
<1>3. \A p \in 0..(n + 1) : p \in 0..n \/ p = n + 1
  BY <1>1
<1>4. ASSUME NEW f, IsUsed(f, runs'), NEW p \in 0..(n + 1) PROVE f[p] \in Nat
  <2>1. PICK g : /\ IsUsed(g, runs) /\ \A x \in 0..n : f[x] = g[x]
                 /\ f[n + 1] = r.used + g[r.parent]
    BY <1>1, <1>4, UsedGrows
  <2>2. \A x \in 0..n : g[x] \in Nat
    BY <2>1 DEF Sums
  <2>3. r.used \in Nat
    BY DEF RunRecords
  <2> QED BY <1>3, <2>1, <2>2, <2>3
<1>5. ASSUME NEW b, IsBack(b, runs'), NEW p \in 0..(n + 1) PROVE b[p] \subseteq 1..(n + 1)
  <2>1. PICK c : /\ IsBack(c, runs) /\ \A x \in 0..n : b[x] = c[x]
                 /\ b[n + 1] = {n + 1} \cup c[r.parent]
    BY <1>1, <1>5, BackGrows
  <2>2. \A x \in 0..n : c[x] \subseteq 1..n
    BY <2>1 DEF Sums
  <2>3. 1..n \subseteq 1..(n + 1) /\ n + 1 \in 1..(n + 1)
    BY <1>1
  <2>4. CASE p \in 0..n
    BY <2>1, <2>2, <2>3, <2>4
  <2>5. CASE p = n + 1
    BY <2>1, <2>2, <2>3, <2>5
  <2> QED BY <1>3, <2>4, <2>5
<1>6. \A p \in 1..n : Covered(runs[p], runs) /\ runs[p].parent \in 0..n
  BY <1>1 DEF Sums
<1>7. \A b : IsBack(b, runs) => \A p \in 0..n : b[p] \subseteq 1..n
  BY DEF Sums
<1>8. \A p \in 1..n : Covered(runs[p], runs')
  BY <1>1, <1>6, <1>7, StillCovered
<1>9. Covered(r, runs')
  BY <1>1, <1>7, StillCovered
<1>10. \A p \in 1..(n + 1) : Covered(runs'[p], runs')
  <2>1. \A p \in 1..(n + 1) : p \in 1..n \/ p = n + 1
    BY <1>1
  <2> QED BY <1>1, <1>8, <1>9, <2>1
<1> QED BY <1>1, <1>2, <1>4, <1>5, <1>10 DEF Sums
-------------------------------------------------------------------------------
(* A step of a solve goes to another place with a run that works there, or  *)
(* freezes a run.                                                           *)

\* What a run keeps from its start to its end.
Born(q) ==
  /\ q.parent = run.parent /\ q.relation = run.relation /\ q.mode = run.mode
  /\ q.from = run.from /\ q.counts = run.counts /\ q.before = run.before
  /\ q.callsBefore = run.callsBefore /\ q.evidence = run.evidence

Kept(q) ==
  /\ q \in RunRecords /\ Born(q) /\ q.before + q.used <= TransportLimit
  /\ \A k \in 1..Len(q.attempts) - 2 : q.attempts[k] # q.attempts[k + 1]
  /\ q.offer = "none" /\ q.outcome = "open" /\ q.code = "none"

Moved(q, place) ==
  /\ q \in RunRecords /\ Born(q) /\ q.before + q.used <= TransportLimit
  /\ place \in Places \ {"idle"} /\ Working(q, place) /\ Goto(place, q)

Ended(q) ==
  /\ q \in RunRecords /\ Born(q) /\ q.before + q.used <= TransportLimit
  /\ Frozen(q) /\ End(q)

Proceeds == (\E q, place : Moved(q, place)) \/ (\E q : Ended(q))

LEMMA StagesAre ==
  Stages = {Generation, Repairing} /\ Generation # Repairing /\ "none" \notin Stages
BY DEF Stages, Generation, Repairing

LEMMA NewRunTyped ==
  /\ NewRun \in RunRecords /\ NewRun.parent = 0 /\ NewRun.relation = "fresh"
  /\ NewRun.mode = "live" /\ NewRun.from = "none" /\ NewRun.before = 0
  /\ NewRun.used = 0 /\ NewRun.callsBefore = 0 /\ NewRun.calls = 0
  /\ NewRun.files = {} /\ NewRun.evidence = 0 /\ NewRun.attempts = <<>>
  /\ NewRun.outcome = "open" /\ NewRun.code = "none" /\ NewRun.offer = "none"
  /\ \A s \in Stages : NewRun.counts[s] = 0
<1>1. NoDraft \in [Fields -> FieldStates]
  BY DEF NoDraft, FieldStates, Kinds
<1>2. [s \in Stages |-> 0] \in [Stages -> 0..ContinuationLimit]
  BY DEF ContinuationLimit
<1>3. 0 \in 0..MaxRuns /\ 0 \in 0..TransportLimit /\ 0 \in 0..MaxAttempts
  BY SolveAssumption DEF SolveAssumption
<1>4. "open" \in Outcomes /\ "none" \in Codes /\ <<>> \in Seq(Prints \cup {NoPrint})
  BY DEF Outcomes, Codes
<1> DEFINE counts == [s \in Stages |-> 0]
<1>5. \A s \in Stages : counts[s] = 0
  OBVIOUS
<1> HIDE DEF counts
<1>6. NewRun = [parent |-> 0, relation |-> "fresh", mode |-> "live", from |-> "none",
           counts |-> counts, before |-> 0, used |-> 0,
           callsBefore |-> 0, calls |-> 0, files |-> {}, evidence |-> 0,
           draft |-> NoDraft, envelope |-> FALSE, attempts |-> <<>>,
           outcome |-> "open", code |-> "none", offer |-> "none"]
  BY DEF NewRun, counts
<1>7. counts \in [Stages -> 0..ContinuationLimit]
  BY <1>2 DEF counts
<1> QED BY <1>1, <1>3, <1>4, <1>5, <1>6, <1>7 DEF RunRecords

LEMMA OriginKept ==
  ASSUME IInv, at # "idle", NEW q \in RunRecords, Born(q),
         q.before + q.used <= TransportLimit
  PROVE  Origin(q) /\ q.parent \in 0..Len(runs) /\ Covered(q, runs)
<1>1. Origin(q) /\ q.parent \in 0..Len(runs)
  BY DEF IInv, History, Origin, Born
<1>2. Covered(q, runs)
  BY DEF IInv, Sums, Covered, Covers, Born
<1> QED BY <1>1, <1>2

LEMMA MoveKeeps ==
  ASSUME IInv, at # "idle", NEW q, NEW place, Moved(q, place)
  PROVE  IInv'
<1>1. /\ q \in RunRecords /\ at' = place /\ run' = q /\ UNCHANGED <<runs, cancel>>
      /\ place \in Places \ {"idle"} /\ Working(q, place) /\ q.relation = run.relation
  BY DEF Moved, Goto, Born
<1>2. Origin(q) /\ q.parent \in 0..Len(runs) /\ Covered(q, runs)
  BY OriginKept DEF Moved
<1>3. TypeOK'
  BY <1>1 DEF IInv, TypeOK
<1>4. Working(q, place)'
  BY <1>1 DEF Working, FirstRepair
<1>5. History'
  BY <1>1, <1>2, <1>4 DEF IInv, History
<1>6. Sums'
  BY <1>1, <1>2 DEF IInv, Sums
<1> QED BY <1>3, <1>5, <1>6 DEF IInv

\* What later commands read of a directory stays.
LEMMA SealedFiles ==
  ASSUME NEW q \in RunRecords, Frozen(q)
  PROVE  LET sealed == [q EXCEPT !.files = {f \in @ : f[1] \in ReadLater}]
         IN  /\ sealed \in RunRecords /\ Frozen(sealed) /\ sealed.parent = q.parent
             /\ sealed.before = q.before /\ (Origin(q) => Origin(sealed))
             /\ sealed.relation = q.relation
<1> DEFINE files == {f \in q.files : f[1] \in ReadLater}
           s == [q EXCEPT !.files = files]
<1>1. /\ files \subseteq q.files
      /\ \A n : <<"case-design", n>> \in q.files => <<"case-design", n>> \in files
      /\ \A n : <<"resume-compatibility", n>> \in q.files =>
                  <<"resume-compatibility", n>> \in files
      /\ \A n : <<"run-facts", n>> \in q.files => <<"run-facts", n>> \in files
  BY DEF ReadLater
<1> HIDE DEF files
<1>2. /\ s \in RunRecords /\ s.parent = q.parent /\ s.relation = q.relation
      /\ s.mode = q.mode /\ s.from = q.from /\ s.counts = q.counts
      /\ s.before = q.before /\ s.used = q.used /\ s.callsBefore = q.callsBefore
      /\ s.calls = q.calls /\ s.files = files /\ s.evidence = q.evidence
      /\ s.draft = q.draft /\ s.attempts = q.attempts /\ s.outcome = q.outcome
      /\ s.code = q.code /\ s.offer = q.offer
  BY <1>1 DEF RunRecords
<1> HIDE DEF s
<1>3. Offering(s)
  BY <1>1, <1>2 DEF Frozen, Offering, Has, Calls, Spent
<1>4. Frozen(s)
  BY <1>1, <1>2, <1>3 DEF Frozen, Has, Calls
<1>5. Origin(q) => Origin(s)
  BY <1>2 DEF Origin
<1> QED BY <1>2, <1>4, <1>5 DEF s, files

\* A run is frozen: at the end of a solve, or as the record of a confirmation.
LEMMA FrozenIsAdded ==
  ASSUME IInv, NEW r \in RunRecords, Frozen(r), Origin(r), r.parent \in 0..Len(runs),
         Covered(r, runs), Len(runs) < MaxRuns, runs' = Append(runs, r), at' = "idle",
         run' \in RunRecords, cancel' \in BOOLEAN
  PROVE  IInv'
<1>1. runs \in Seq(RunRecords)
      /\ \A p \in 1..Len(runs) : runs[p].parent \in 0..p - 1
  BY DEF IInv, TypeOK, History
<1>2. Sums'
  BY <1>1, SumsGrow DEF IInv
<1>3. TypeOK'
  <2>1. Append(runs, r) \in Seq(RunRecords) /\ Len(Append(runs, r)) <= MaxRuns
    BY <1>1, Appended, SolveAssumption DEF SolveAssumption
  <2> QED BY <2>1 DEF TypeOK, Places
<1>4. History'
  <2>1. ASSUME NEW p \in 1..(Len(runs) + 1)
        PROVE  /\ runs'[p].parent \in 0..p - 1 /\ Origin(runs'[p])
               /\ Frozen(runs'[p])
    <3>1. CASE p \in 1..Len(runs)
      BY <1>1, <3>1, Appended DEF IInv, History
    <3>2. CASE p = Len(runs) + 1
      <4>1. runs'[p] = r /\ 0..Len(runs) = 0..p - 1
        BY <1>1, <3>2, Appended
      <4> QED BY <4>1
    <3>3. p \in 1..Len(runs) \/ p = Len(runs) + 1
      BY <1>1, Appended
    <3> QED BY <3>1, <3>2, <3>3
  <2>2. Len(runs') = Len(runs) + 1
    BY <1>1, Appended
  <2> QED BY <2>1, <2>2 DEF History
<1> QED BY <1>2, <1>3, <1>4 DEF IInv

LEMMA EndKeeps ==
  ASSUME IInv, at # "idle", NEW q, Ended(q)
  PROVE  IInv'
<1>1. q \in RunRecords /\ Frozen(q) /\ Origin(q) /\ q.parent \in 0..Len(runs)
      /\ Covered(q, runs)
  BY OriginKept DEF Ended
<1>2. PICK r : r = [q EXCEPT !.files = {f \in @ : f[1] \in ReadLater}]
  OBVIOUS
<1>3. /\ r \in RunRecords /\ Frozen(r) /\ Origin(r)
      /\ r.parent \in 0..Len(runs) /\ Covered(r, runs)
  BY <1>1, <1>2, SealedFiles DEF Covered, Covers
<1>4. /\ runs' = Append(runs, r) /\ at' = "idle" /\ run' \in RunRecords
      /\ cancel' \in BOOLEAN
  BY <1>2, NewRunTyped DEF Ended, End
<1>5. Len(runs) < MaxRuns
  BY DEF IInv, History
<1> QED BY <1>3, <1>4, <1>5, FrozenIsAdded
-------------------------------------------------------------------------------
(* What the steps make of a run.                                            *)

LEMMA RunKept ==
  ASSUME IInv, at # "idle"
  PROVE  /\ Kept(run) /\ Origin(run) /\ Working(run, at) /\ run.relation # "confirmation"
         /\ Len(run.attempts) \in Nat /\ Len(run.attempts) <= MaxAttempts - 1
<1>1. /\ run \in RunRecords /\ Origin(run) /\ Working(run, at)
      /\ run.relation # "confirmation"
  BY DEF IInv, TypeOK, History
<1>2. run.attempts \in Seq(Prints \cup {NoPrint}) /\ Len(run.attempts) \in Nat
  BY <1>1 DEF RunRecords
<1>3. \A k \in 1..Len(run.attempts) - 2 : run.attempts[k] # run.attempts[k + 1]
  <2>1. NoRepetition(run.attempts)
    BY <1>1 DEF Working, Counting
  <2>2. 1..Len(run.attempts) - 2 \subseteq 1..Len(run.attempts) - 1
    BY <1>2
  <2> QED BY <2>1, <2>2 DEF NoRepetition
<1>4. Kept(run)
  BY <1>1, <1>3 DEF Kept, Born, Working, Origin
<1> QED BY <1>1, <1>2, <1>4 DEF Working, Counting

\* A logical request, or only the transport of one.
LEMMA AskedKept ==
  ASSUME NEW r, Kept(r), NEW t \in Attempts(r)
  PROVE  /\ Kept(Asked(r, t)) /\ Asked(r, t).files = r.files
         /\ Asked(r, t).attempts = r.attempts /\ Asked(r, t).draft = r.draft
         /\ Asked(r, t).calls = r.calls + 1
<1> DEFINE used == r.used + t
           calls == r.calls + 1
           q == Asked(r, t)
<1>1. /\ r \in RunRecords /\ r.used \in Nat /\ r.before \in Nat /\ r.calls \in Nat
      /\ TransportLimit \in Nat
  BY SolveAssumption DEF Kept, RunRecords, SolveAssumption
<1>2. t \in Nat /\ r.before + r.used + t <= TransportLimit
  BY <1>1, SolveAssumption DEF Attempts, SolveAssumption
<1>3. used \in 0..TransportLimit /\ r.before + used <= TransportLimit /\ calls \in Nat
  BY <1>1, <1>2
<1>4. q = [r EXCEPT !.used = used, !.calls = calls]
  BY DEF Asked
<1> HIDE DEF used, calls, q
<1>5. /\ q \in RunRecords /\ q.files = r.files /\ q.attempts = r.attempts
      /\ q.draft = r.draft /\ q.calls = calls /\ q.used = used /\ q.before = r.before
      /\ q.parent = r.parent /\ q.relation = r.relation /\ q.mode = r.mode
      /\ q.from = r.from /\ q.counts = r.counts /\ q.callsBefore = r.callsBefore
      /\ q.evidence = r.evidence /\ q.offer = r.offer /\ q.outcome = r.outcome
      /\ q.code = r.code
  BY <1>1, <1>3, <1>4 DEF RunRecords
<1>6. Kept(q)
  BY <1>3, <1>5 DEF Kept, Born
<1> QED BY <1>5, <1>6 DEF q, calls

LEMMA WithKept ==
  ASSUME NEW r, Kept(r), NEW name \in FileNames, NEW n \in 0..MaxAttempts + 1
  PROVE  /\ Kept(With(r, name, n)) /\ With(r, name, n).attempts = r.attempts
         /\ With(r, name, n).calls = r.calls /\ With(r, name, n).draft = r.draft
         /\ With(r, name, n).files = r.files \cup {<<name, n>>}
<1> DEFINE files == r.files \cup {<<name, n>>}
           q == With(r, name, n)
<1>1. r \in RunRecords /\ r.files \subseteq FileNames \X (0..MaxAttempts + 1)
  BY DEF Kept, RunRecords
<1>2. files \in SUBSET (FileNames \X (0..MaxAttempts + 1))
  BY <1>1
<1>3. q = [r EXCEPT !.files = files]
  BY DEF With
<1> HIDE DEF files, q
<1>4. /\ q \in RunRecords /\ q.files = files /\ q.attempts = r.attempts
      /\ q.draft = r.draft /\ q.calls = r.calls /\ q.used = r.used
      /\ q.before = r.before
      /\ q.parent = r.parent /\ q.relation = r.relation /\ q.mode = r.mode
      /\ q.from = r.from /\ q.counts = r.counts /\ q.callsBefore = r.callsBefore
      /\ q.evidence = r.evidence /\ q.offer = r.offer /\ q.outcome = r.outcome
      /\ q.code = r.code
  BY <1>1, <1>2, <1>3 DEF RunRecords
<1>5. Kept(q)
  BY <1>4 DEF Kept, Born
<1> QED BY <1>4, <1>5 DEF q, files

LEMMA SummarisedKept ==
  ASSUME NEW r, Kept(r), NoRepetition(r.attempts), NEW print \in Prints \cup {NoPrint}
  PROVE  /\ Kept(Summarised(r, print)) /\ Summarised(r, print).files = r.files
         /\ Summarised(r, print).calls = r.calls
         /\ Summarised(r, print).attempts = Append(r.attempts, print)
         /\ Len(Append(r.attempts, print)) = Len(r.attempts) + 1
         /\ Len(r.attempts) \in Nat
<1> DEFINE prints == Append(r.attempts, print)
           n == Len(r.attempts)
           q == Summarised(r, print)
<1>1. r \in RunRecords /\ r.attempts \in Seq(Prints \cup {NoPrint})
  BY DEF Kept, RunRecords
<1>2. /\ prints \in Seq(Prints \cup {NoPrint}) /\ Len(prints) = n + 1 /\ n \in Nat
      /\ \A k \in 1..n : prints[k] = r.attempts[k]
  BY <1>1
<1>3. \A k \in 1..Len(prints) - 2 : prints[k] # prints[k + 1]
  <2> SUFFICES ASSUME NEW k \in 1..n - 1 PROVE prints[k] # prints[k + 1]
    BY <1>2
  <2>1. k \in 1..n /\ k + 1 \in 1..n
    BY <1>2
  <2> QED BY <1>2, <2>1 DEF NoRepetition
<1>4. q = [r EXCEPT !.attempts = prints]
  BY DEF Summarised
<1> HIDE DEF prints, q
<1>5. /\ q \in RunRecords /\ q.files = r.files /\ q.attempts = prints
      /\ q.draft = r.draft /\ q.calls = r.calls /\ q.used = r.used
      /\ q.before = r.before
      /\ q.parent = r.parent /\ q.relation = r.relation /\ q.mode = r.mode
      /\ q.from = r.from /\ q.counts = r.counts /\ q.callsBefore = r.callsBefore
      /\ q.evidence = r.evidence /\ q.offer = r.offer /\ q.outcome = r.outcome
      /\ q.code = r.code
  BY <1>1, <1>2, <1>4 DEF RunRecords
<1>6. Kept(q)
  BY <1>3, <1>5 DEF Kept, Born
<1> QED BY <1>2, <1>5, <1>6 DEF q, prints

\* A run that ends and offers nothing.
LEMMA FinishEnds ==
  ASSUME IInv, at # "idle", NEW r, Kept(r), NEW outcome \in Outcomes,
         NEW code \in Codes \ {"AGENT_STATUS", "CONFIRMATION_REQUIRED"},
         outcome = "UNSEALED" => code = "UNHANDLED",
         Finish(r, outcome, code)
  PROVE  Proceeds
<1> DEFINE q == [r EXCEPT !.outcome = outcome, !.code = code]
<1>1. /\ q \in RunRecords /\ q.outcome = outcome /\ q.code = code /\ q.used = r.used
      /\ q.before = r.before /\ q.attempts = r.attempts
      /\ q.parent = r.parent /\ q.relation = r.relation /\ q.mode = r.mode
      /\ q.from = r.from /\ q.counts = r.counts /\ q.callsBefore = r.callsBefore
      /\ q.evidence = r.evidence /\ q.offer = r.offer
  BY DEF Kept, RunRecords
<1>2. End(q)
  BY DEF Finish
<1> HIDE DEF q
<1>3. Born(q) /\ q.before + q.used <= TransportLimit /\ q.relation # "confirmation"
  BY <1>1, RunKept DEF Kept, Born
<1>4. Offering(q)
  BY <1>1, StagesAre DEF Kept, Offering
<1>5. Frozen(q)
  BY <1>1, <1>3, <1>4 DEF Kept, Born, Frozen
<1>6. Ended(q)
  BY <1>1, <1>2, <1>3, <1>5 DEF Ended
<1> QED BY <1>6 DEF Proceeds

LEMMA FailsEnds ==
  ASSUME IInv, at # "idle", NEW r, Kept(r), Fails(r)
  PROVE  Proceeds
BY FinishEnds DEF Fails, Outcomes, Codes

LEMMA UnhandledEnds ==
  ASSUME IInv, at # "idle", NEW r, Kept(r), Unhandled(r)
  PROVE  Proceeds
BY FinishEnds DEF Unhandled, Outcomes, Codes

\* A continuation of r at this stage would be accepted.
Continuable(r, stage) ==
  /\ Has(r, "resume-compatibility", 0)
  /\ stage = Generation => /\ r.from # Repairing /\ Has(r, "case-design", 0)
                           /\ Calls(r) <= 3 + r.counts[Generation]
  /\ stage = Repairing =>
       /\ Calls(r) <= 3 + Spent(r) /\ NoRepetition(r.attempts)
       /\ Len(r.attempts) \in 1..MaxAttempts - 1
       /\ r.evidence # 0 \/ Has(r, "run-facts", Len(r.attempts))

LEMMA DefersEnds ==
  ASSUME IInv, at # "idle", NEW r, Kept(r), NEW stage \in Stages,
         NEW retryable \in BOOLEAN, Continuable(r, stage), Defers(r, stage, retryable)
  PROVE  Proceeds
<1> DEFINE offered == /\ retryable
                      /\ ContinuationIndex(r) < ContinuationLimit
                      /\ r.before + r.used < TransportLimit
           offer == IF offered THEN stage ELSE "none"
           q == [r EXCEPT !.outcome = "DEFERRED", !.offer = offer]
<1>1. End(q)
  BY DEF Defers
<1>2. offer \in Stages \cup {"none", "AUTHORING_CASE"}
  OBVIOUS
<1>3. offer # "none" => /\ offer = stage /\ ContinuationIndex(r) < ContinuationLimit
                        /\ r.before + r.used < TransportLimit
  OBVIOUS
<1> HIDE DEF offer
<1>4. /\ q \in RunRecords /\ q.outcome = "DEFERRED" /\ q.code = "none" /\ q.used = r.used
      /\ q.before = r.before /\ q.attempts = r.attempts /\ q.calls = r.calls
      /\ q.parent = r.parent /\ q.relation = r.relation /\ q.mode = r.mode
      /\ q.from = r.from /\ q.counts = r.counts /\ q.callsBefore = r.callsBefore
      /\ q.evidence = r.evidence /\ q.offer = offer /\ q.files = r.files
  BY <1>2 DEF Kept, RunRecords, Outcomes
<1> HIDE DEF q
<1>5. /\ Born(q) /\ q.before + q.used <= TransportLimit /\ q.relation # "confirmation"
      /\ Origin(q)
  <2>1. Born(q) /\ q.before + q.used <= TransportLimit
    BY <1>4 DEF Kept, Born
  <2> QED BY <1>4, <2>1, RunKept, OriginKept DEF Born
<1>6. offer # "none" => q.counts[stage] < ContinuationLimit
  BY <1>3, <1>4, <1>5, StagesAre
  DEF ContinuationIndex, ContinuationLimit, Origin, Continuable, RunRecords
<1>7. Offering(q)
  BY <1>3, <1>4, <1>6, StagesAre DEF Offering, Continuable, Has, Calls, Spent
<1>8. Frozen(q)
  BY <1>4, <1>5, <1>7 DEF Kept, Frozen
<1>9. Ended(q)
  BY <1>1, <1>4, <1>5, <1>8 DEF Ended
<1> QED BY <1>9 DEF Proceeds

LEMMA RequestFailsEnds ==
  ASSUME IInv, at # "idle", NEW r, Kept(r), NEW stage \in Stages,
         Continuable(r, stage), RequestFails(r, stage)
  PROVE  Proceeds
<1>1. CASE \E retryable \in BOOLEAN : Defers(r, stage, retryable)
  BY <1>1, DefersEnds
<1>2. CASE Fails(r)
  BY <1>2, FailsEnds
<1>3. CASE Finish(r, "CANCELLED", "none")
  BY <1>3, FinishEnds DEF Outcomes, Codes
<1> QED BY <1>1, <1>2, <1>3 DEF RequestFails

LEMMA GotoMoves ==
  ASSUME NEW q, Kept(q), NEW place \in Places \ {"idle"}, Goto(place, q),
         Counting(q, place), FirstRepair(q, place), Counted(q, place), Filed(q, place)
  PROVE  Proceeds
<1>1. Moved(q, place)
  BY DEF Kept, Moved, Working
<1> QED BY <1>1 DEF Proceeds
-------------------------------------------------------------------------------
(* The steps from the task to a ready plan.                                 *)

LEMMA PreflightProceeds ==
  ASSUME IInv, Preflight
  PROVE  Proceeds
<1>1. at = "preflight" /\ at # "idle" /\ Kept(run) /\ Working(run, "preflight")
  BY RunKept DEF Preflight
<1>2. CASE Fails(run)
  BY <1>1, <1>2, FailsEnds
<1>3. CASE Unhandled(run)
  BY <1>1, <1>3, UnhandledEnds
<1>4. ASSUME NEW place \in {"intent", "routing"}, Goto(place, run)
      PROVE  Proceeds
  <2>1. place \in Places \ {"idle"}
    BY DEF Places
  <2>2. /\ Counting(run, place) /\ FirstRepair(run, place) /\ Counted(run, place)
        /\ Filed(run, place)
    BY <1>1
    DEF Working, Counting, FirstRepair, Counted, Filed, Attempting, Sourced, Latest
  <2> QED BY <1>1, <1>4, <2>1, <2>2, GotoMoves
<1> QED BY <1>2, <1>3, <1>4 DEF Preflight

LEMMA RouteProceeds ==
  ASSUME IInv, Route
  PROVE  Proceeds
<1>1. at = "routing" /\ at # "idle" /\ Kept(run) /\ Working(run, "routing")
  BY RunKept DEF Route
<1>2. PICK t \in Attempts(run) :
        LET r == [run EXCEPT !.used = @ + t] IN
        \/ Goto("intent", r)
        \/ Fails(r)
        \/ Fails(Asked(run, t))
        \/ Finish(Asked(run, t), "DEFERRED", "none")
        \/ cancel /\ Finish(r, "CANCELLED", "none")
  BY DEF Route
<1> DEFINE used == run.used + t
           r == [run EXCEPT !.used = used]
<1>3. Kept(Asked(run, t))
  BY <1>1, AskedKept
\* The transport of a route that was answered.
<1>4. /\ Kept(r) /\ r.files = run.files /\ r.attempts = run.attempts
      /\ r.calls = run.calls
  <2>1. /\ run \in RunRecords /\ run.used \in Nat /\ run.before \in Nat
        /\ TransportLimit \in Nat
    BY <1>1, SolveAssumption DEF Kept, RunRecords, SolveAssumption
  <2>2. t \in Nat /\ run.before + run.used + t <= TransportLimit
    BY <2>1, SolveAssumption DEF Attempts, SolveAssumption
  <2>3. used \in 0..TransportLimit /\ run.before + used <= TransportLimit
    BY <2>1, <2>2
  <2> HIDE DEF used
  <2> DEFINE q == r
  <2>4. /\ q \in RunRecords /\ q.files = run.files /\ q.attempts = run.attempts
        /\ q.calls = run.calls /\ q.used = used /\ q.before = run.before
        /\ q.parent = run.parent /\ q.relation = run.relation /\ q.mode = run.mode
        /\ q.from = run.from /\ q.counts = run.counts
        /\ q.callsBefore = run.callsBefore
        /\ q.evidence = run.evidence /\ q.offer = run.offer
        /\ q.outcome = run.outcome /\ q.code = run.code
    BY <2>1, <2>3 DEF RunRecords
  <2> HIDE DEF q
  <2>5. Kept(q)
    BY <1>1, <2>3, <2>4 DEF Kept, Born
  <2> QED BY <2>4, <2>5 DEF q
<1>5. r = [run EXCEPT !.used = @ + t]
  BY <1>1 DEF Kept, RunRecords
<1> HIDE DEF r
<1>6. CASE Fails(r) \/ Fails(Asked(run, t))
  BY <1>1, <1>3, <1>4, <1>6, FailsEnds
<1>7. CASE Finish(r, "CANCELLED", "none") \/ Finish(Asked(run, t), "DEFERRED", "none")
  BY <1>1, <1>3, <1>4, <1>7, FinishEnds DEF Outcomes, Codes
<1>8. CASE Goto("intent", r)
  <2>1. Born(r)
    BY <1>4 DEF Kept
  <2>2. /\ Counting(r, "intent") /\ FirstRepair(r, "intent") /\ Counted(r, "intent")
        /\ Filed(r, "intent")
    BY <1>1, <1>4, <2>1
    DEF Working, Counting, FirstRepair, Counted, Filed, Attempting, Sourced, Latest,
        Born, Calls, Spent, UpTo, Has
  <2> QED BY <1>4, <1>8, <2>2, GotoMoves DEF Places
<1> QED BY <1>2, <1>5, <1>6, <1>7, <1>8

\* The design is frozen: what follows does not depend on where it comes from.
LEMMA DesignFrozen ==
  ASSUME IInv, at \in {"intent", "gate"}, NEW r, Kept(r), r.attempts = run.attempts,
         r.calls = run.calls, r.files = run.files \cup {<<"case-design", 0>>},
         run.from = Repairing => runs[run.parent].evidence = 0, Goto("contracts", r)
  PROVE  Proceeds
<1>1. at # "idle" /\ Working(run, at) /\ Born(r)
  BY RunKept DEF Kept
<1>2. \A other, k : other # "case-design" => (Has(r, other, k) <=> Has(run, other, k))
  BY DEF Has
<1>3. /\ Counting(r, "contracts") /\ FirstRepair(r, "contracts")
  BY <1>1 DEF Working, Counting, FirstRepair, Attempting, Born
<1>4. Counted(r, "contracts")
  BY <1>1 DEF Working, Counted, Attempting, Born, Calls, Spent
<1>5. Has(r, "case-design", 0)
  BY DEF Has
<1>6. Filed(r, "contracts")
  BY <1>1, <1>2, <1>5 DEF Working, Filed, Attempting, Sourced, Latest, UpTo
<1> QED BY <1>3, <1>4, <1>6, GotoMoves DEF Places

LEMMA FrozenDesignProceeds ==
  ASSUME IInv, FrozenDesign \/ LoadDesign
  PROVE  Proceeds
<1>1. at = "intent" /\ at # "idle" /\ Kept(run) /\ Origin(run)
  BY RunKept DEF FrozenDesign, LoadDesign
<1>2. "case-design" \in FileNames /\ 0 \in 0..MaxAttempts + 1
  BY SolveAssumption DEF FileNames, SolveAssumption
<1> DEFINE r == With(run, "case-design", 0)
<1>3. /\ Kept(r) /\ r.attempts = run.attempts /\ r.calls = run.calls
      /\ r.files = run.files \cup {<<"case-design", 0>>}
  BY <1>1, <1>2, WithKept
<1> HIDE DEF r
<1>4. CASE FrozenDesign
  <2>2. Goto("contracts", r)
    BY <1>4 DEF FrozenDesign, r
  <2>3. run.from # Repairing
    BY <1>1, <1>4 DEF FrozenDesign, Origin, Repairing
  <2> QED BY <1>1, <1>3, <2>2, <2>3, DesignFrozen
<1>5. CASE LoadDesign
  <2>1. CASE DesignIsThere(run.parent)
    <3> DEFINE envelope == runs[run.parent].envelope
               q == [r EXCEPT !.envelope = envelope]
    <3>1. Goto("contracts", q)
      BY <1>5, <2>1 DEF LoadDesign, r
    <3>2. envelope \in BOOLEAN
      <4>1. run.parent \in 1..Len(runs)
        BY <1>1, <1>5 DEF IInv, History, LoadDesign, Origin
      <4>2. runs[run.parent] \in RunRecords
        BY <4>1 DEF IInv, TypeOK
      <4> QED BY <4>2 DEF RunRecords
    <3> HIDE DEF envelope
    <3>3. /\ q \in RunRecords /\ q.files = r.files /\ q.attempts = r.attempts
          /\ q.calls = r.calls /\ q.used = r.used /\ q.before = r.before
          /\ q.parent = r.parent /\ q.relation = r.relation /\ q.mode = r.mode
          /\ q.from = r.from /\ q.counts = r.counts
          /\ q.callsBefore = r.callsBefore
          /\ q.evidence = r.evidence /\ q.offer = r.offer
          /\ q.outcome = r.outcome /\ q.code = r.code
      BY <1>3, <3>2 DEF Kept, RunRecords
    <3> HIDE DEF q
    <3>4. Kept(q)
      BY <1>3, <3>3 DEF Kept, Born
    <3>5. run.from = Repairing => runs[run.parent].evidence = 0
      BY <2>1 DEF DesignIsThere, Repairing
    <3> QED BY <1>1, <1>3, <3>1, <3>3, <3>4, <3>5, DesignFrozen
  <2>2. CASE ~DesignIsThere(run.parent)
    <3>1. Finish(run, "FAILED", "CASE_DESIGN_CHECKPOINT_MISSING")
      BY <1>5, <2>2 DEF LoadDesign
    <3> QED BY <1>1, <3>1, FinishEnds DEF Outcomes, Codes
  <2> QED BY <2>1, <2>2
<1> QED BY <1>4, <1>5

LEMMA InterpretProceeds ==
  ASSUME IInv, Interpret
  PROVE  Proceeds
<1>1. at = "intent" /\ at # "idle" /\ Kept(run) /\ Working(run, "intent")
      /\ run.relation = "fresh" /\ Origin(run)
  BY RunKept DEF Interpret, FreshDesign
<1>2. PICK t \in Attempts(run) : Goto("design", Asked(run, t))
                                 \/ DesignRequestFails(Asked(run, t))
  BY DEF Interpret
<1> DEFINE r == Asked(run, t)
<1>3. /\ Kept(r) /\ r.files = run.files /\ r.attempts = run.attempts
      /\ r.calls = run.calls + 1
  BY <1>1, AskedKept
<1> HIDE DEF r
<1>4. CASE Fails(r)
  BY <1>1, <1>3, <1>4, FailsEnds
<1>5. CASE Finish(r, "DEFERRED", "none") \/ Finish(r, "CANCELLED", "none")
  BY <1>1, <1>3, <1>5, FinishEnds DEF Outcomes, Codes
<1>6. CASE Goto("design", r)
  <2>1. Born(r) /\ run.calls \in Nat /\ run.callsBefore \in Nat
    BY <1>1, <1>3 DEF Kept, RunRecords
  <2>2. Counting(r, "design") /\ FirstRepair(r, "design")
    BY <1>1, <1>3, <2>1
    DEF Working, Counting, FirstRepair, Attempting, Born, Origin,
       Repairing
  <2>3. Counted(r, "design")
    <3>1. Calls(run) = 0 /\ Calls(r) = 1
      BY <1>1, <1>3, <2>1 DEF Working, Counted, Calls, Born
    <3>2. Spent(r) \in Nat
      <4>1. r.counts \in [Stages -> 0..ContinuationLimit] /\ Len(r.attempts) \in Nat
        BY <1>3 DEF Kept, RunRecords
      <4>2. r.counts[Generation] \in Nat /\ r.counts[Repairing] \in Nat
        BY <4>1, StagesAre DEF ContinuationLimit
      <4> QED BY <4>1, <4>2 DEF Spent
    <3> QED BY <3>1, <3>2 DEF Counted, Attempting
  <2>4. Filed(r, "design")
    BY <1>1, <1>3 DEF Working, Filed, Attempting, Sourced, Latest, UpTo, Has
  <2> QED BY <1>3, <1>6, <2>2, <2>3, <2>4, GotoMoves DEF Places
<1> QED BY <1>2, <1>4, <1>5, <1>6 DEF DesignRequestFails, r

LEMMA ProposeProceeds ==
  ASSUME IInv, Propose
  PROVE  Proceeds
<1>1. at = "design" /\ at # "idle" /\ Kept(run) /\ Working(run, "design")
      /\ run.relation = "fresh" /\ Origin(run)
  BY RunKept DEF Propose, Working, Counting
<1>2. PICK t \in Attempts(run) :
        \/ \E draft \in Drafts : Goto("gate", [Asked(run, t) EXCEPT !.draft = draft])
        \/ DesignRequestFails(Asked(run, t))
  BY DEF Propose
<1> DEFINE r == Asked(run, t)
<1>3. /\ Kept(r) /\ r.files = run.files /\ r.attempts = run.attempts
      /\ r.calls = run.calls + 1
  BY <1>1, AskedKept
<1> HIDE DEF r
<1>4. CASE Fails(r)
  BY <1>1, <1>3, <1>4, FailsEnds
<1>5. CASE Finish(r, "DEFERRED", "none") \/ Finish(r, "CANCELLED", "none")
  BY <1>1, <1>3, <1>5, FinishEnds DEF Outcomes, Codes
<1>6. ASSUME NEW draft \in Drafts, Goto("gate", [r EXCEPT !.draft = draft])
      PROVE  Proceeds
  <2> DEFINE q == [r EXCEPT !.draft = draft]
  <2>1. draft \in [Fields -> FieldStates]
    BY SolveAssumption DEF SolveAssumption
  <2>2. /\ q \in RunRecords /\ q.files = r.files /\ q.attempts = r.attempts
        /\ q.calls = r.calls /\ q.used = r.used /\ q.before = r.before
        /\ q.parent = r.parent /\ q.relation = r.relation /\ q.mode = r.mode
        /\ q.from = r.from /\ q.counts = r.counts
        /\ q.callsBefore = r.callsBefore
        /\ q.evidence = r.evidence /\ q.offer = r.offer
        /\ q.outcome = r.outcome /\ q.code = r.code
    BY <1>3, <2>1 DEF Kept, RunRecords
  <2>3. Goto("gate", q)
    BY <1>6
  <2> HIDE DEF q
  <2>4. Kept(q) /\ Born(q) /\ run.calls \in Nat /\ run.callsBefore \in Nat
    BY <1>1, <1>3, <2>2 DEF Kept, Born, RunRecords
  <2>5. Counting(q, "gate") /\ FirstRepair(q, "gate")
    BY <1>1, <1>3, <2>2, <2>4 DEF Working, Counting, FirstRepair, Attempting, Born,
       Origin, Repairing
  <2>6. Counted(q, "gate")
    <3>1. Calls(run) <= 1 /\ Calls(q) = Calls(run) + 1 /\ Calls(run) \in Nat
      BY <1>1, <1>3, <2>2, <2>4 DEF Working, Counted, Calls, Born
    <3>2. Spent(q) \in Nat
      <4>1. q.counts \in [Stages -> 0..ContinuationLimit] /\ Len(q.attempts) \in Nat
        BY <2>2 DEF RunRecords
      <4>2. q.counts[Generation] \in Nat /\ q.counts[Repairing] \in Nat
        BY <4>1, StagesAre DEF ContinuationLimit
      <4> QED BY <4>1, <4>2 DEF Spent
    <3> QED BY <3>1, <3>2 DEF Counted, Attempting
  <2>7. Filed(q, "gate")
    BY <1>1, <1>3, <2>2 DEF Working, Filed, Attempting, Sourced, Latest, UpTo, Has
  <2> QED BY <2>3, <2>4, <2>5, <2>6, <2>7, GotoMoves DEF Places
<1> QED BY <1>2, <1>4, <1>5, <1>6 DEF DesignRequestFails, r

\* A run that waits for a confirmation has only made the requests of its design.
LEMMA ConfirmationAsked ==
  ASSUME IInv, at = "gate", NEW outcome \in {"DEFERRED", "INTERRUPTED"},
         EvaluateDesignRisk(run.draft, TRUE) = "CONFIRMATION_REQUIRED",
         Finish(run, outcome, "CONFIRMATION_REQUIRED")
  PROVE  Proceeds
<1>1. Kept(run) /\ Working(run, "gate") /\ run.relation = "fresh" /\ Origin(run)
  BY RunKept DEF Working, Counting
<1>2. Calls(run) <= 2
  <2>1. Len(run.attempts) = 0
    BY <1>1 DEF Working, Counting, Attempting, Origin, Repairing
  <2>2. Spent(run) = 0
    BY <1>1, <2>1, StagesAre DEF Origin, Spent
  <2>3. Calls(run) \in Nat
    BY <1>1 DEF Kept, RunRecords, Calls
  <2> QED BY <1>1, <2>2, <2>3 DEF Working, Counted, Attempting
<1> DEFINE q == [run EXCEPT !.outcome = outcome, !.code = "CONFIRMATION_REQUIRED"]
<1>3. /\ q \in RunRecords /\ q.outcome = outcome /\ q.code = "CONFIRMATION_REQUIRED"
      /\ q.before = run.before /\ q.attempts = run.attempts /\ q.used = run.used
      /\ q.parent = run.parent /\ q.relation = run.relation /\ q.mode = run.mode
      /\ q.from = run.from /\ q.counts = run.counts /\ q.offer = run.offer
      /\ q.callsBefore = run.callsBefore /\ q.evidence = run.evidence
      /\ q.calls = run.calls /\ q.draft = run.draft
  BY <1>1 DEF Kept, RunRecords, Outcomes, Codes
<1>4. End(q)
  BY DEF Finish
<1> HIDE DEF q
<1>5. Born(q) /\ q.before + q.used <= TransportLimit /\ q.relation = "fresh"
  BY <1>1, <1>3 DEF Kept, Born
<1>6. Offering(q)
  BY <1>1, <1>3, StagesAre DEF Kept, Offering
<1>7. Frozen(q)
  BY <1>1, <1>2, <1>3, <1>5, <1>6 DEF Kept, Frozen, Calls
<1>8. Ended(q)
  BY <1>3, <1>4, <1>5, <1>7 DEF Ended
<1> QED BY <1>8 DEF Proceeds

LEMMA GateProceeds ==
  ASSUME IInv, Gate
  PROVE  Proceeds
<1>1. at = "gate" /\ at # "idle" /\ Kept(run) /\ Origin(run) /\ run.relation = "fresh"
  BY RunKept DEF Gate, Working, Counting
<1>2. PICK capable \in BOOLEAN, envelope \in BOOLEAN :
        LET decision == EvaluateDesignRisk(run.draft, capable) IN
         IF decision = "READY_TO_AUTHOR"
         THEN \/ Goto("contracts", [With(run, "case-design", 0) EXCEPT !.envelope = envelope])
              \/ Fails(run)
         ELSE Finish(run, "DEFERRED",
                     IF decision = "CONFIRMATION_REQUIRED" THEN decision ELSE "none")
  BY DEF Gate
<1>3. CASE Fails(run)
  BY <1>1, <1>3, FailsEnds
<1>4. CASE Finish(run, "DEFERRED", "none")
  BY <1>1, <1>4, FinishEnds DEF Outcomes, Codes
<1>5. CASE /\ EvaluateDesignRisk(run.draft, capable) = "CONFIRMATION_REQUIRED"
           /\ Finish(run, "DEFERRED", "CONFIRMATION_REQUIRED")
  <2>1. capable = TRUE
    BY <1>5 DEF EvaluateDesignRisk
  <2> QED BY <1>1, <1>5, <2>1, ConfirmationAsked
<1>6. CASE Goto("contracts", [With(run, "case-design", 0) EXCEPT !.envelope = envelope])
  <2> DEFINE r == With(run, "case-design", 0)
             q == [r EXCEPT !.envelope = envelope]
  <2>1. "case-design" \in FileNames /\ 0 \in 0..MaxAttempts + 1
    BY SolveAssumption DEF FileNames, SolveAssumption
  <2>2. /\ Kept(r) /\ r.attempts = run.attempts /\ r.calls = run.calls
        /\ r.files = run.files \cup {<<"case-design", 0>>}
    BY <1>1, <2>1, WithKept
  <2> HIDE DEF r
  <2>3. /\ q \in RunRecords /\ q.files = r.files /\ q.attempts = r.attempts
        /\ q.calls = r.calls /\ q.used = r.used /\ q.before = r.before
        /\ q.parent = r.parent /\ q.relation = r.relation /\ q.mode = r.mode
        /\ q.from = r.from /\ q.counts = r.counts
        /\ q.callsBefore = r.callsBefore
        /\ q.evidence = r.evidence /\ q.offer = r.offer
        /\ q.outcome = r.outcome /\ q.code = r.code
    BY <2>2 DEF Kept, RunRecords
  <2>4. Goto("contracts", q)
    BY <1>6 DEF r
  <2> HIDE DEF q
  <2>5. Kept(q)
    BY <2>2, <2>3 DEF Kept, Born
  <2>6. run.from # Repairing
    BY <1>1 DEF Origin, Repairing
  <2> QED BY <1>1, <2>2, <2>3, <2>4, <2>5, <2>6, DesignFrozen
<1> QED BY <1>2, <1>3, <1>4, <1>5, <1>6

LEMMA ContractsProceeds ==
  ASSUME IInv, Contracts
  PROVE  Proceeds
<1>1. at = "contracts" /\ at # "idle" /\ Kept(run) /\ Working(run, "contracts")
  BY RunKept DEF Contracts
<1>2. CASE Fails(run)
  BY <1>1, <1>2, FailsEnds
<1>3. CASE Finish(run, "CANCELLED", "USER_CANCELLED")
  BY <1>1, <1>3, FinishEnds DEF Outcomes, Codes
<1>4. CASE Goto("source", With(run, "resume-compatibility", 0))
  <2> DEFINE r == With(run, "resume-compatibility", 0)
  <2>1. "resume-compatibility" \in FileNames /\ 0 \in 0..MaxAttempts + 1
    BY SolveAssumption DEF FileNames, SolveAssumption
  <2>2. /\ Kept(r) /\ r.attempts = run.attempts /\ r.calls = run.calls
        /\ r.files = run.files \cup {<<"resume-compatibility", 0>>}
    BY <1>1, <2>1, WithKept
  <2> HIDE DEF r
  <2>3. Born(r) /\ Has(r, "resume-compatibility", 0)
        /\ \A other, k : other # "resume-compatibility" =>
             (Has(r, other, k) <=> Has(run, other, k))
    BY <2>2 DEF Kept, Has
  <2>4. Counting(r, "source") /\ FirstRepair(r, "source")
    BY <1>1, <2>2, <2>3 DEF Working, Counting, FirstRepair, Attempting, Born
  <2>5. Counted(r, "source")
    BY <1>1, <2>2, <2>3 DEF Working, Counted, Attempting, Born, Calls, Spent
  <2>6. Filed(r, "source")
    BY <1>1, <2>2, <2>3 DEF Working, Filed, Attempting, Sourced, Latest, UpTo
  <2> QED BY <1>4, <2>2, <2>4, <2>5, <2>6, GotoMoves DEF Places, r
<1> QED BY <1>2, <1>3, <1>4 DEF Contracts

LEMMA RunNumbers ==
  ASSUME IInv, at # "idle"
  PROVE  /\ run.counts[Generation] \in 0..2 /\ run.counts[Repairing] \in 0..2
         /\ Len(run.attempts) \in Nat /\ run.calls \in Nat /\ run.callsBefore \in Nat
         /\ MaxAttempts \in Nat /\ MaxAttempts >= 1
         /\ run.from # Repairing => run.counts[Repairing] = 0
         /\ Calls(run) \in Nat /\ Spent(run) \in Nat
<1>1. run \in RunRecords /\ Origin(run)
  BY RunKept DEF Kept
<1>2. run.counts \in [Stages -> 0..2]
  BY <1>1 DEF RunRecords, ContinuationLimit
<1>3. run.counts[Generation] \in 0..2 /\ run.counts[Repairing] \in 0..2
  BY <1>2, StagesAre
<1>4. Len(run.attempts) \in Nat /\ run.calls \in Nat /\ run.callsBefore \in Nat
  BY <1>1 DEF RunRecords
<1>5. run.from # Repairing => run.counts[Repairing] = 0
  BY <1>1 DEF Origin
<1>6. MaxAttempts \in Nat /\ MaxAttempts >= 1
  BY SolveAssumption DEF SolveAssumption
<1>7. Calls(run) \in Nat /\ Spent(run) \in Nat
  BY <1>3, <1>4 DEF Calls, Spent
<1> QED BY <1>3, <1>4, <1>5, <1>6, <1>7

\* The files of an attempt and of the next one.
LEMMA FileIsNamed ==
  ASSUME IInv, at # "idle"
  PROVE  /\ Len(run.attempts) \in 0..MaxAttempts + 1
         /\ Len(run.attempts) + 1 \in 0..MaxAttempts + 1 /\ 0 \in 0..MaxAttempts + 1
         /\ "case-authored" \in FileNames /\ "active-plan" \in FileNames
         /\ "attempt" \in FileNames /\ "run-facts" \in FileNames
         /\ "run-assessment" \in FileNames /\ "derived-metrics" \in FileNames
         /\ "classification" \in FileNames /\ "repair-evidence" \in FileNames
<1>1. MaxAttempts \in Nat /\ Len(run.attempts) \in Nat /\ Len(run.attempts) <= MaxAttempts
  BY RunKept, SolveAssumption DEF SolveAssumption
<1> QED BY <1>1 DEF FileNames

LEMMA WarmPlanProceeds ==
  ASSUME IInv, WarmPlan
  PROVE  Proceeds
<1>1. /\ at = "source" /\ at # "idle" /\ Kept(run) /\ Working(run, "source") /\ Origin(run)
      /\ run.mode = "warm"
  BY RunKept DEF WarmPlan
<1>2. CASE Unhandled(run)
  BY <1>1, <1>2, UnhandledEnds
<1>3. CASE Goto("ready", With(run, "case-authored", 0))
  <2> DEFINE r == With(run, "case-authored", 0)
  <2>0. "case-authored" \in FileNames /\ 0 \in 0..MaxAttempts + 1
    BY <1>1, FileIsNamed
  <2>1. /\ Kept(r) /\ r.attempts = run.attempts /\ r.calls = run.calls
        /\ r.files = run.files \cup {<<"case-authored", 0>>}
    BY <1>1, <2>0, WithKept
  <2> HIDE DEF r
  <2>2. /\ Born(r) /\ run.from # Repairing
        /\ \A other, k : other # "case-authored" =>
             (Has(r, other, k) <=> Has(run, other, k))
    BY <1>1, <2>1 DEF Kept, Has, Origin, Repairing
  <2>3. Counting(r, "ready") /\ FirstRepair(r, "ready")
    BY <1>1, <2>1, <2>2 DEF Working, Counting, FirstRepair, Attempting, Born
  <2>4. Counted(r, "ready")
    <3>1. Calls(r) = Calls(run) /\ Spent(r) = Spent(run)
      BY <2>1, <2>2 DEF Born, Calls, Spent
    <3>2. Calls(run) \in Nat /\ Spent(run) \in Nat
      BY <1>1, RunNumbers DEF Calls, Spent
    <3>3. Calls(run) <= 2 + Spent(run)
      BY <1>1 DEF Working, Counted, Attempting
    <3> QED BY <3>1, <3>2, <3>3 DEF Counted, Attempting
  <2>5. Filed(r, "ready")
    BY <1>1, <2>1, <2>2 DEF Working, Filed, Attempting, Sourced, Latest, UpTo
  <2> QED BY <1>3, <2>1, <2>3, <2>4, <2>5, GotoMoves DEF Places, r
\* Nothing was authored before.
<1>4. ~Has(run, "case-authored", 0)
  BY <1>1 DEF Working, Filed, Attempting
<1> QED BY <1>2, <1>3, <1>4 DEF WarmPlan, Create

LEMMA AuthorProceeds ==
  ASSUME IInv, Author
  PROVE  Proceeds
<1>1. /\ at = "source" /\ at # "idle" /\ Kept(run) /\ Working(run, "source")
      /\ run.from # Repairing
  BY RunKept DEF Author, Repairing
<1>2. run.attempts = <<>> /\ Len(run.attempts) = 0 /\ run.counts[Repairing] = 0
  BY <1>1, RunNumbers DEF Working, Counting, Attempting
\* The status given to the model always holds.
<1>3. Calls(run) <= 2 + run.counts[Generation] /\ Calls(run) \in Nat
  BY <1>1, <1>2, RunNumbers DEF Working, Counted, Attempting, Spent, Calls
<1>4. StatusHolds(1)
  BY <1>1, <1>3, RunNumbers DEF StatusHolds, LogicalLimit, Calls
<1>5. PICK t \in Attempts(run) :
        \/ Fails(Asked(run, t))
        \/ Goto("ready", With(Asked(run, t), "case-authored", 0))
        \/ RequestFails(Asked(run, t), Generation)
  BY <1>4 DEF Author, Generation
<1> DEFINE r == Asked(run, t)
<1>6. /\ Kept(r) /\ r.files = run.files /\ r.attempts = run.attempts
      /\ r.calls = run.calls + 1
  BY <1>1, AskedKept
<1> HIDE DEF r
<1>7. Born(r) /\ Calls(r) = Calls(run) + 1 /\ Spent(r) = Spent(run)
  BY <1>1, <1>6, RunNumbers DEF Kept, Born, Calls, Spent
<1>8. CASE Fails(r)
  BY <1>1, <1>6, <1>8, FailsEnds
<1>9. CASE RequestFails(r, Generation)
  <2>1. Has(r, "resume-compatibility", 0) /\ Has(r, "case-design", 0)
    BY <1>1, <1>6 DEF Working, Filed, Sourced, Has
  <2>2. Continuable(r, Generation)
    BY <1>1, <1>3, <1>7, <2>1, StagesAre, RunNumbers DEF Continuable, Born
  <2> QED BY <1>1, <1>6, <1>9, <2>2, StagesAre, RequestFailsEnds
<1>10. CASE Goto("ready", With(r, "case-authored", 0))
  <2> DEFINE q == With(r, "case-authored", 0)
  <2>0. "case-authored" \in FileNames /\ 0 \in 0..MaxAttempts + 1
    BY <1>1, FileIsNamed
  <2>1. /\ Kept(q) /\ q.attempts = run.attempts /\ q.calls = run.calls + 1
        /\ q.files = run.files \cup {<<"case-authored", 0>>}
    BY <1>6, <2>0, WithKept
  <2> HIDE DEF q
  <2>2. /\ Born(q)
        /\ \A other, k : other # "case-authored" =>
             (Has(q, other, k) <=> Has(run, other, k))
    BY <2>1 DEF Kept, Has
  <2>3. Counting(q, "ready") /\ FirstRepair(q, "ready")
    BY <1>1, <2>1, <2>2 DEF Working, Counting, FirstRepair, Attempting, Born
  <2>4. Counted(q, "ready")
    <3>1. Calls(q) = Calls(run) + 1 /\ Spent(q) = run.counts[Generation]
          /\ run.counts[Generation] \in Nat
      <4>1. /\ run.calls \in Nat /\ run.callsBefore \in Nat
            /\ run.counts[Generation] \in Nat
        BY <1>1, RunNumbers
      <4>2. q.counts = run.counts /\ q.callsBefore = run.callsBefore
        BY <2>2 DEF Born
      <4> QED BY <1>2, <2>1, <4>1, <4>2 DEF Calls, Spent
    <3> QED BY <1>3, <3>1 DEF Counted, Attempting
  <2>5. Filed(q, "ready")
    BY <1>1, <2>1, <2>2 DEF Working, Filed, Attempting, Sourced, Latest, UpTo
  <2> QED BY <1>10, <2>1, <2>3, <2>4, <2>5, GotoMoves DEF Places, q
<1> QED BY <1>5, <1>8, <1>9, <1>10 DEF r

LEMMA ReclassifyProceeds ==
  ASSUME IInv, Reclassify
  PROVE  Proceeds
<1>1. /\ at = "source" /\ at # "idle" /\ Kept(run) /\ Working(run, "source")
      /\ run.from = Repairing
  BY RunKept DEF Reclassify, Repairing
<1> DEFINE n == Len(run.attempts)
           r == With(run, "classification", n)
<1>0. "classification" \in FileNames /\ n \in 0..MaxAttempts + 1
  BY <1>1, FileIsNamed
<1>2. /\ Kept(r) /\ r.attempts = run.attempts /\ r.calls = run.calls
      /\ r.files = run.files \cup {<<"classification", n>>}
  BY <1>1, <1>0, WithKept
<1>3. Fails(run) \/ Fails(r) \/ Goto("source-again", r)
  BY DEF Reclassify, LastAttempt
<1> HIDE DEF r, n
<1>4. CASE Fails(run) \/ Fails(r)
  BY <1>1, <1>2, <1>4, FailsEnds
<1>5. CASE Goto("source-again", r)
  <2>2. /\ Born(r)
        /\ \A other, k : other # "classification" =>
             (Has(r, other, k) <=> Has(run, other, k))
    BY <1>2 DEF Kept, Has
  <2>3. Counting(r, "source-again") /\ FirstRepair(r, "source-again")
    BY <1>1, <1>2, <2>2 DEF Working, Counting, FirstRepair, Attempting, Born
  <2>4. Counted(r, "source-again")
    BY <1>1, <1>2, <2>2, RunNumbers
    DEF Working, Counted, Attempting, Born, Calls, Spent
  <2>5. Filed(r, "source-again")
    BY <1>1, <1>2, <2>2 DEF Working, Filed, Attempting, Sourced, Latest, UpTo
  <2> QED BY <1>2, <1>5, <2>3, <2>4, <2>5, GotoMoves DEF Places
<1> QED BY <1>3, <1>4, <1>5

\* A repair is asked for within the logical requests the status allows.
LEMMA RepairIsWithinStatus ==
  ASSUME IInv, at \in {"source-again", "repair"}
  PROVE  /\ StatusHolds(LastAttempt(run)) /\ Calls(run) <= 2 + Spent(run)
         /\ Calls(run) \in Nat /\ Spent(run) \in Nat
         /\ Len(run.attempts) \in 1..MaxAttempts - 1
<1>1. Working(run, at) /\ Kept(run) /\ at # "idle" /\ Origin(run)
  BY RunKept
<1>2. run.counts[Repairing] \in {0, 1}
  <2>1. CASE run.from = Repairing
    <3>1. FirstRepair(run, at) /\ at \notin {"preflight", "routing", "intent"}
      BY <1>1 DEF Working
    <3>2. run.counts[Repairing] = 1
      BY <2>1, <3>1 DEF FirstRepair
    <3> QED BY <3>2
  <2>2. CASE run.from # Repairing
    BY <1>1, <2>2, RunNumbers
  <2> QED BY <2>1, <2>2
<1>3. Calls(run) <= 2 + Spent(run)
  BY <1>1 DEF Working, Counted, Attempting
<1>4. Len(run.attempts) \in 1..MaxAttempts - 1
  <2>1. Counting(run, at)
    BY <1>1 DEF Working
  <2>2. Len(run.attempts) >= 1 /\ Len(run.attempts) <= MaxAttempts - 1
    BY <2>1 DEF Counting
  <2>3. Len(run.attempts) \in Nat /\ MaxAttempts \in Nat
    BY <1>1, RunNumbers
  <2> QED BY <2>2, <2>3
<1>5. Calls(run) \in Nat /\ Spent(run) \in Nat
      /\ Spent(run) <= 3 + Len(run.attempts)
  <2>1. /\ run.counts[Generation] \in 0..2 /\ Len(run.attempts) \in Nat
        /\ run.calls \in Nat /\ run.callsBefore \in Nat
    BY <1>1, RunNumbers
  <2> QED BY <1>2, <2>1 DEF Calls, Spent
<1>6. StatusHolds(LastAttempt(run))
  BY <1>1, <1>3, <1>4, <1>5, RunNumbers
  DEF StatusHolds, LastAttempt, LogicalLimit, Calls
<1> QED BY <1>3, <1>4, <1>5, <1>6

LEMMA RepairAgainProceeds ==
  ASSUME IInv, RepairAgain
  PROVE  Proceeds
<1>1. /\ at = "source-again" /\ at # "idle" /\ Kept(run) /\ Working(run, "source-again")
      /\ run.from = Repairing /\ Origin(run)
  BY RunKept DEF RepairAgain, Working, Counting
<1>2. /\ StatusHolds(LastAttempt(run)) /\ Calls(run) <= 2 + Spent(run)
      /\ Calls(run) \in Nat /\ Spent(run) \in Nat
      /\ Len(run.attempts) \in 1..MaxAttempts - 1
  BY <1>1, RepairIsWithinStatus
<1>3. PICK t \in Attempts(run) :
        Goto("ready", Asked(run, t)) \/ RequestFails(Asked(run, t), Repairing)
  BY <1>2 DEF RepairAgain, Repairing
<1> DEFINE r == Asked(run, t)
<1>4. /\ Kept(r) /\ r.files = run.files /\ r.attempts = run.attempts
      /\ r.calls = run.calls + 1
  BY <1>1, AskedKept
<1> HIDE DEF r
<1>5. Born(r) /\ Calls(r) = Calls(run) + 1 /\ Spent(r) = Spent(run)
  <2>1. Born(r) /\ run.calls \in Nat /\ run.callsBefore \in Nat
    BY <1>1, <1>4, RunNumbers DEF Kept
  <2> QED BY <1>4, <2>1 DEF Born, Calls, Spent
<1>6. CASE RequestFails(r, Repairing)
  <2>1. Has(r, "resume-compatibility", 0)
    BY <1>1, <1>4 DEF Working, Filed, Sourced, Has
  <2>2. r.evidence # 0 /\ NoRepetition(r.attempts)
    BY <1>1, <1>4, <1>5 DEF Origin, Born, Working, Counting
  <2>3. Continuable(r, Repairing)
    BY <1>2, <1>4, <1>5, <2>1, <2>2, StagesAre DEF Continuable
  <2> QED BY <1>1, <1>4, <1>6, <2>3, StagesAre, RequestFailsEnds
<1>7. CASE Goto("ready", r)
  <2>1. Counting(r, "ready") /\ FirstRepair(r, "ready")
    BY <1>1, <1>4, <1>5 DEF Working, Counting, FirstRepair, Attempting, Born
  <2>2. Counted(r, "ready")
    BY <1>2, <1>5 DEF Counted, Attempting
  <2>3. Filed(r, "ready")
    BY <1>1, <1>4 DEF Working, Filed, Attempting, Sourced, Latest, UpTo, Has
  <2> QED BY <1>4, <1>7, <2>1, <2>2, <2>3, GotoMoves DEF Places
<1> QED BY <1>3, <1>6, <1>7 DEF r

LEMMA PlanReadyProceeds ==
  ASSUME IInv, PlanReady
  PROVE  Proceeds
<1>1. /\ at = "ready" /\ at # "idle" /\ Kept(run) /\ Working(run, "ready")
  BY RunKept DEF PlanReady
<1> DEFINE n == Len(run.attempts)
           r == With(run, "active-plan", n + 1)
<1>2. n \in Nat /\ "active-plan" \in FileNames /\ n + 1 \in 0..MaxAttempts + 1
  BY <1>1, FileIsNamed, RunNumbers
<1>3. /\ Kept(r) /\ r.attempts = run.attempts /\ r.calls = run.calls
      /\ r.files = run.files \cup {<<"active-plan", n + 1>>}
  BY <1>1, <1>2, WithKept
\* The plan of the next attempt is not there.
<1>4. ~Has(run, "active-plan", n + 1)
  <2>1. \A k \in 0..MaxAttempts + 1 : Has(run, "active-plan", k) => k <= n
    BY <1>1 DEF Working, Filed, UpTo, Latest, Attempting
  <2> QED BY <1>2, <2>1
<1>5. Goto("attempt", r) \/ Fails(r) \/ Finish(r, "COMPLETED", "none")
  BY <1>4 DEF PlanReady, Create, LastAttempt
<1> HIDE DEF r
<1>6. CASE Fails(r)
  BY <1>1, <1>3, <1>6, FailsEnds
<1>7. CASE Finish(r, "COMPLETED", "none")
  BY <1>1, <1>3, <1>7, FinishEnds DEF Outcomes, Codes
<1>8. CASE Goto("attempt", r)
  <2>1. /\ Born(r)
        /\ \A other, k : other # "active-plan" =>
             (Has(r, other, k) <=> Has(run, other, k))
        /\ \A k : Has(r, "active-plan", k) =>
             Has(run, "active-plan", k) \/ k = n + 1
    BY <1>3 DEF Kept, Has
  <2>2. Counting(r, "attempt") /\ FirstRepair(r, "attempt")
    BY <1>1, <1>3, <2>1 DEF Working, Counting, FirstRepair, Attempting, Born
  <2>3. Counted(r, "attempt")
    BY <1>1, <1>3, <2>1 DEF Working, Counted, Attempting, Born, Calls, Spent
  <2>4. UpTo(r, "active-plan", n + 1)
    BY <1>1, <1>2, <2>1 DEF Working, Filed, UpTo, Latest, Attempting
  <2>5. Filed(r, "attempt")
    BY <1>1, <1>3, <2>1, <2>4 DEF Working, Filed, Attempting, Sourced, Latest, UpTo
  <2> QED BY <1>3, <1>8, <2>2, <2>3, <2>5, GotoMoves DEF Places
<1> QED BY <1>5, <1>6, <1>7, <1>8
-------------------------------------------------------------------------------
(* The steps of the attempts.                                               *)

LEMMA MaterialiseProceeds ==
  ASSUME IInv, Materialise
  PROVE  Proceeds
<1>1. /\ at = "attempt" /\ at # "idle" /\ Kept(run) /\ Working(run, "attempt")
      /\ Len(run.attempts) <= MaxAttempts - 1
  BY RunKept DEF Materialise
<1> DEFINE n == Len(run.attempts)
           r == With(run, "attempt", n + 1)
<1>2. n \in Nat /\ "attempt" \in FileNames /\ n + 1 \in 0..MaxAttempts + 1
  BY <1>1, FileIsNamed, RunNumbers
<1>3. /\ Kept(r) /\ r.attempts = run.attempts /\ r.calls = run.calls
      /\ r.files = run.files \cup {<<"attempt", n + 1>>}
  BY <1>1, <1>2, WithKept
\* The loop has not come to its end, and the directory is not there.
<1>4. ~(n + 1 > MaxAttempts)
  BY <1>1, <1>2, RunNumbers
<1>5. ~Has(run, "attempt", n + 1)
  <2>1. \A k \in 0..MaxAttempts + 1 : Has(run, "attempt", k) => k <= n
    BY <1>1 DEF Working, Filed, UpTo, Latest, Attempting
  <2> QED BY <1>2, <2>1
<1>6. Goto("execute", r) \/ Fails(r)
  BY <1>4, <1>5 DEF Materialise, Create, LastAttempt, Current
<1> HIDE DEF r
<1>7. CASE Fails(r)
  BY <1>1, <1>3, <1>7, FailsEnds
<1>8. CASE Goto("execute", r)
  <2>1. /\ Born(r)
        /\ \A other, k : other # "attempt" => (Has(r, other, k) <=> Has(run, other, k))
        /\ \A k : Has(r, "attempt", k) => Has(run, "attempt", k) \/ k = n + 1
    BY <1>3 DEF Kept, Has
  <2>2. Counting(r, "execute") /\ FirstRepair(r, "execute")
    BY <1>1, <1>3, <2>1 DEF Working, Counting, FirstRepair, Attempting, Born
  <2>3. Counted(r, "execute")
    BY <1>1, <1>3, <2>1 DEF Working, Counted, Attempting, Born, Calls, Spent
  <2>4. UpTo(r, "attempt", n + 1)
    BY <1>1, <1>2, <2>1 DEF Working, Filed, UpTo, Latest, Attempting
  <2>5. Filed(r, "execute")
    BY <1>1, <1>3, <2>1, <2>4 DEF Working, Filed, Attempting, Sourced, Latest, UpTo
  <2> QED BY <1>3, <1>8, <2>2, <2>3, <2>5, GotoMoves DEF Places
<1> QED BY <1>6, <1>7, <1>8

\* An attempt is summarised without a fingerprint, or with one.
LEMMA AttemptSummarised ==
  ASSUME IInv, at \in {"execute", "classify"}, NEW print \in Prints \cup {NoPrint}
  PROVE  /\ Kept(Summarised(run, print)) /\ Summarised(run, print).files = run.files
         /\ Summarised(run, print).calls = run.calls
         /\ Summarised(run, print).attempts = Append(run.attempts, print)
         /\ Len(Append(run.attempts, print)) = Len(run.attempts) + 1
         /\ Len(run.attempts) \in Nat
<1>1. Kept(run) /\ NoRepetition(run.attempts)
  BY RunKept DEF Working, Counting
<1> QED BY <1>1, SummarisedKept

LEMMA ExecuteProceeds ==
  ASSUME IInv, Execute
  PROVE  Proceeds
<1>1. /\ at = "execute" /\ at # "idle" /\ Kept(run) /\ Working(run, "execute")
  BY RunKept DEF Execute
<1> DEFINE n == Len(run.attempts)
           r == With(run, "run-facts", n + 1)
           q == Summarised(run, NoPrint)
<1>2. n \in Nat /\ "run-facts" \in FileNames /\ n + 1 \in 0..MaxAttempts + 1
  BY <1>1, FileIsNamed, RunNumbers
<1>3. /\ Kept(r) /\ r.attempts = run.attempts /\ r.calls = run.calls
      /\ r.files = run.files \cup {<<"run-facts", n + 1>>}
  BY <1>1, <1>2, WithKept
<1>4. Kept(q)
  BY <1>1, AttemptSummarised
<1>5. Goto("assess", r) \/ Unhandled(run) \/ Fails(q) \/ Finish(q, "CANCELLED", "none")
  BY DEF Execute, Current, LastAttempt
<1> HIDE DEF r, q
<1>6. CASE Fails(q)
  BY <1>1, <1>4, <1>6, FailsEnds
<1>7. CASE Finish(q, "CANCELLED", "none")
  BY <1>1, <1>4, <1>7, FinishEnds DEF Outcomes, Codes
<1>8. CASE Goto("assess", r)
  <2>1. /\ Born(r) /\ Has(r, "run-facts", n + 1)
        /\ \A other, k : other # "run-facts" => (Has(r, other, k) <=> Has(run, other, k))
    BY <1>3 DEF Kept, Has
  <2>2. Counting(r, "assess") /\ FirstRepair(r, "assess")
    BY <1>1, <1>3, <2>1 DEF Working, Counting, FirstRepair, Attempting, Born
  <2>3. Counted(r, "assess")
    BY <1>1, <1>3, <2>1 DEF Working, Counted, Attempting, Born, Calls, Spent
  <2>4. Filed(r, "assess")
    BY <1>1, <1>3, <2>1 DEF Working, Filed, Attempting, Sourced, Latest, UpTo
  <2> QED BY <1>3, <1>8, <2>2, <2>3, <2>4, GotoMoves DEF Places
<1>9. CASE Unhandled(run)
  BY <1>1, <1>9, UnhandledEnds
<1> QED BY <1>5, <1>6, <1>7, <1>8, <1>9

LEMMA AssessProceeds ==
  ASSUME IInv, Assess
  PROVE  Proceeds
<1>1. /\ at = "assess" /\ at # "idle" /\ Kept(run) /\ Working(run, "assess")
  BY RunKept DEF Assess
<1> DEFINE n == Len(run.attempts)
           r == With(run, "run-assessment", n + 1)
<1>2. n \in Nat /\ "run-assessment" \in FileNames /\ n + 1 \in 0..MaxAttempts + 1
  BY <1>1, FileIsNamed, RunNumbers
<1>3. /\ Kept(r) /\ r.attempts = run.attempts /\ r.calls = run.calls
      /\ r.files = run.files \cup {<<"run-assessment", n + 1>>}
  BY <1>1, <1>2, WithKept
<1>4. ~Has(run, "run-assessment", n + 1)
  <2>1. \A k \in 0..MaxAttempts + 1 : Has(run, "run-assessment", k) => k <= n
    BY <1>1 DEF Working, Filed, UpTo, Latest, Attempting
  <2> QED BY <1>2, <2>1
<1>5. Goto("evaluate", r)
  BY <1>4 DEF Assess, Create, LastAttempt, Current
<1> HIDE DEF r
<1>6. /\ Born(r)
      /\ \A other, k : other # "run-assessment" =>
           (Has(r, other, k) <=> Has(run, other, k))
      /\ \A k : Has(r, "run-assessment", k) =>
           Has(run, "run-assessment", k) \/ k = n + 1
  BY <1>3 DEF Kept, Has
<1>7. Counting(r, "evaluate") /\ FirstRepair(r, "evaluate")
  BY <1>1, <1>3, <1>6 DEF Working, Counting, FirstRepair, Attempting, Born
<1>8. Counted(r, "evaluate")
  BY <1>1, <1>3, <1>6 DEF Working, Counted, Attempting, Born, Calls, Spent
<1>9. UpTo(r, "run-assessment", n + 1)
  BY <1>1, <1>2, <1>6 DEF Working, Filed, UpTo, Latest, Attempting
<1>10. Filed(r, "evaluate")
  BY <1>1, <1>3, <1>6, <1>9 DEF Working, Filed, Attempting, Sourced, Latest, UpTo
<1> QED BY <1>3, <1>5, <1>7, <1>8, <1>10, GotoMoves DEF Places

LEMMA EvaluateProceeds ==
  ASSUME IInv, Evaluate
  PROVE  Proceeds
<1>1. /\ at = "evaluate" /\ at # "idle" /\ Kept(run) /\ Working(run, "evaluate")
  BY RunKept DEF Evaluate
<1> DEFINE n == Len(run.attempts)
           r == With(run, "derived-metrics", n + 1)
<1>2. n \in Nat /\ "derived-metrics" \in FileNames /\ n + 1 \in 0..MaxAttempts + 1
  BY <1>1, FileIsNamed, RunNumbers
<1>3. /\ Kept(r) /\ r.attempts = run.attempts /\ r.calls = run.calls
      /\ r.files = run.files \cup {<<"derived-metrics", n + 1>>}
  BY <1>1, <1>2, WithKept
<1>4. ~Has(run, "derived-metrics", n + 1)
  <2>1. \A k \in 0..MaxAttempts + 1 : Has(run, "derived-metrics", k) => k <= n
    BY <1>1 DEF Working, Filed, UpTo, Latest, Attempting
  <2> QED BY <1>2, <2>1
<1>5. Goto("classify", r) \/ Fails(run) \/ Finish(run, "FAILED", "USER_CANCELLED")
  BY <1>4 DEF Evaluate, Create, LastAttempt, Current
<1> HIDE DEF r
<1>6. CASE Fails(run)
  BY <1>1, <1>6, FailsEnds
<1>7. CASE Finish(run, "FAILED", "USER_CANCELLED")
  BY <1>1, <1>7, FinishEnds DEF Outcomes, Codes
<1>8. CASE Goto("classify", r)
  <2>1. /\ Born(r)
        /\ \A other, k : other # "derived-metrics" =>
             (Has(r, other, k) <=> Has(run, other, k))
        /\ \A k : Has(r, "derived-metrics", k) =>
             Has(run, "derived-metrics", k) \/ k = n + 1
    BY <1>3 DEF Kept, Has
  <2>2. Counting(r, "classify") /\ FirstRepair(r, "classify")
    BY <1>1, <1>3, <2>1 DEF Working, Counting, FirstRepair, Attempting, Born
  <2>3. Counted(r, "classify")
    BY <1>1, <1>3, <2>1 DEF Working, Counted, Attempting, Born, Calls, Spent
  <2>4. UpTo(r, "derived-metrics", n + 1)
    BY <1>1, <1>2, <2>1 DEF Working, Filed, UpTo, Latest, Attempting
  <2>5. Filed(r, "classify")
    BY <1>1, <1>3, <2>1, <2>4 DEF Working, Filed, Attempting, Sourced, Latest, UpTo
  <2> QED BY <1>3, <1>8, <2>2, <2>3, <2>5, GotoMoves DEF Places
<1> QED BY <1>5, <1>6, <1>7, <1>8

LEMMA ConcludeProceeds ==
  ASSUME IInv, Conclude
  PROVE  Proceeds
<1>1. at = "classify" /\ at # "idle"
  BY DEF Conclude
<1>2. Kept(Summarised(run, NoPrint))
  BY <1>1, AttemptSummarised
<1>3. CASE Fails(Summarised(run, NoPrint))
  BY <1>1, <1>2, <1>3, FailsEnds
<1>4. CASE Finish(Summarised(run, NoPrint), "COMPLETED", "none")
  BY <1>1, <1>2, <1>4, FinishEnds DEF Outcomes, Codes
<1> QED BY <1>3, <1>4 DEF Conclude

\* The failure of the attempt is a new one, and there is another attempt.
LEMMA NotRepeated ==
  ASSUME IInv, at = "classify", NEW print \in Prints,
         ~ShouldStop(Append(run.attempts, print))
  PROVE  /\ NoRepetition(Append(run.attempts, print))
         /\ Len(run.attempts) + 1 <= MaxAttempts - 1
<1>1. /\ run.attempts \in Seq(Prints \cup {NoPrint}) /\ NoRepetition(run.attempts)
      /\ Len(run.attempts) \in Nat /\ MaxAttempts \in Nat
  BY RunKept, RunNumbers DEF Kept, RunRecords, Working, Counting
<1> DEFINE prints == Append(run.attempts, print)
           n == Len(run.attempts)
<1>2. /\ Len(prints) = n + 1 /\ n \in Nat
      /\ \A k \in 1..n : prints[k] = run.attempts[k]
  BY <1>1
<1> HIDE DEF prints
<1>3. ~(n + 1 >= MaxAttempts) /\ (n + 1 >= 2 => prints[n + 1] # prints[n])
  <2>1. n + 1 - 1 = n
    BY <1>1
  <2> QED BY <1>2, <2>1 DEF ShouldStop, LastAttempt, prints
<1>4. ASSUME NEW k \in 1..n PROVE prints[k] # prints[k + 1]
  <2>1. CASE k = n
    BY <1>1, <1>3, <2>1
  <2>2. CASE k # n
    <3>1. k \in 1..n - 1 /\ k + 1 \in 1..n
      BY <1>1, <2>2
    <3> QED BY <1>1, <1>2, <3>1 DEF NoRepetition
  <2> QED BY <2>1, <2>2
<1>5. NoRepetition(prints)
  <2>1. 1..Len(prints) - 1 = 1..n
    BY <1>2
  <2> QED BY <1>4, <2>1 DEF NoRepetition
<1> QED BY <1>1, <1>3, <1>5 DEF prints

LEMMA ClassifyProceeds ==
  ASSUME IInv, Classify
  PROVE  Proceeds
<1>1. /\ at = "classify" /\ at # "idle" /\ Kept(run) /\ Working(run, "classify")
  BY RunKept DEF Classify
<1>2. PICK print \in Prints :
         LET r == Summarised(run, print)
             classified == With(r, "classification", Current) IN
         \/ Fails(r)
         \/ Fails(classified)
         \/ ~ShouldStop(r.attempts) /\ Goto("repair", classified)
  BY DEF Classify
<1> DEFINE n == Len(run.attempts)
           r == Summarised(run, print)
           q == With(r, "classification", n + 1)
<1>3. /\ Kept(r) /\ r.files = run.files /\ r.calls = run.calls
      /\ r.attempts = Append(run.attempts, print)
      /\ Len(Append(run.attempts, print)) = n + 1 /\ n \in Nat
  BY <1>1, AttemptSummarised
<1> HIDE DEF r
<1>4. "classification" \in FileNames /\ n + 1 \in 0..MaxAttempts + 1
  BY <1>1, FileIsNamed
<1>5. /\ Kept(q) /\ q.attempts = r.attempts /\ q.calls = run.calls
      /\ q.files = run.files \cup {<<"classification", n + 1>>}
  BY <1>3, <1>4, WithKept
<1> HIDE DEF q
<1>6. CASE Fails(r) \/ Fails(q)
  BY <1>1, <1>3, <1>5, <1>6, FailsEnds
<1>7. CASE ~ShouldStop(r.attempts) /\ Goto("repair", q)
  <2>1. NoRepetition(q.attempts) /\ n + 1 <= MaxAttempts - 1 /\ Len(q.attempts) = n + 1
    BY <1>1, <1>3, <1>5, <1>7, NotRepeated
  <2>2. /\ Born(q)
        /\ \A other, k : other # "classification" =>
             (Has(q, other, k) <=> Has(run, other, k))
    BY <1>5 DEF Kept, Has
  <2>3. Counting(q, "repair")
    BY <1>1, <1>3, <2>1, <2>2 DEF Working, Counting, Attempting, Born
  <2>4. FirstRepair(q, "repair")
    BY <1>1, <2>2 DEF Working, FirstRepair, Attempting, Born
  <2>5. Counted(q, "repair")
    <3>1. Calls(q) = Calls(run) /\ Spent(q) = Spent(run) + 1
      <4>1. /\ run.counts[Generation] \in Nat /\ run.counts[Repairing] \in Nat
            /\ n \in Nat
        BY <1>1, RunNumbers
      <4>2. q.counts = run.counts /\ q.callsBefore = run.callsBefore
        BY <2>2 DEF Born
      <4>3. Calls(q) = Calls(run)
        BY <1>5, <4>2 DEF Calls
      <4>4. Spent(q) = run.counts[Generation] + run.counts[Repairing] + (n + 1)
        BY <2>1, <4>2 DEF Spent
      <4> QED BY <4>1, <4>3, <4>4 DEF Spent
    <3>2. Calls(run) <= 3 + Spent(run) /\ Calls(run) \in Nat /\ Spent(run) \in Nat
      BY <1>1, RunNumbers DEF Working, Counted, Attempting
    <3> QED BY <3>1, <3>2 DEF Counted, Attempting
  <2>6. Filed(q, "repair")
    <3>1. /\ UpTo(run, "active-plan", n + 1) /\ UpTo(run, "attempt", n + 1)
          /\ UpTo(run, "run-assessment", n + 1) /\ UpTo(run, "derived-metrics", n + 1)
          /\ UpTo(run, "repair-evidence", n) /\ Has(run, "resume-compatibility", 0)
          /\ Has(run, "case-design", 0) /\ Has(run, "run-facts", n + 1)
      BY <1>1 DEF Working, Filed, Attempting, Sourced, Latest
    <3>2. /\ UpTo(q, "active-plan", n + 1) /\ UpTo(q, "attempt", n + 1)
          /\ UpTo(q, "run-assessment", n + 1) /\ UpTo(q, "derived-metrics", n + 1)
          /\ UpTo(q, "repair-evidence", n) /\ Has(q, "resume-compatibility", 0)
          /\ Has(q, "case-design", 0) /\ Has(q, "run-facts", n + 1)
      BY <2>2, <3>1 DEF UpTo
    <3>3. n + 1 - 1 = n
      BY <1>3
    <3> QED BY <2>1, <3>2, <3>3 DEF Filed, Latest, Attempting, Sourced
  <2> QED BY <1>5, <1>7, <2>3, <2>4, <2>5, <2>6, GotoMoves DEF Places
<1> QED BY <1>2, <1>6, <1>7 DEF Current, LastAttempt, r, q

LEMMA RepairProceeds ==
  ASSUME IInv, Repair
  PROVE  Proceeds
<1>1. /\ at = "repair" /\ at # "idle" /\ Kept(run) /\ Working(run, "repair")
  BY RunKept DEF Repair
<1>2. /\ StatusHolds(LastAttempt(run)) /\ Calls(run) <= 2 + Spent(run)
      /\ Calls(run) \in Nat /\ Spent(run) \in Nat
      /\ Len(run.attempts) \in 1..MaxAttempts - 1
  BY <1>1, RepairIsWithinStatus
<1> DEFINE n == Len(run.attempts)
           s == With(run, "repair-evidence", n)
<1>3. /\ "repair-evidence" \in FileNames /\ n \in 0..MaxAttempts + 1
      /\ "active-plan" \in FileNames /\ n + 1 \in 0..MaxAttempts + 1 /\ n \in Nat
  BY <1>1, FileIsNamed, RunNumbers
<1>4. /\ Kept(s) /\ s.attempts = run.attempts /\ s.calls = run.calls
      /\ s.files = run.files \cup {<<"repair-evidence", n>>}
  BY <1>1, <1>3, WithKept
\* The plan of the next attempt is not there.
<1>5. ~Has(run, "active-plan", n + 1)
  <2>1. \A k \in 0..MaxAttempts + 1 : Has(run, "active-plan", k) => k <= n
    BY <1>1 DEF Working, Filed, UpTo, Latest, Attempting
  <2> QED BY <1>3, <2>1
<1>6. \/ Fails(run)
      \/ \E t \in Attempts(run) :
           \/ Goto("attempt", With(Asked(s, t), "active-plan", n + 1))
           \/ RequestFails(Asked(s, t), Repairing)
  BY <1>2, <1>5 DEF Repair, LastAttempt, Repairing
<1>7. Attempts(run) = Attempts(s)
  BY DEF Attempts, With
<1> HIDE DEF s
<1>8. CASE Fails(run)
  BY <1>1, <1>8, FailsEnds
<1>9. ASSUME NEW t \in Attempts(s),
             \/ Goto("attempt", With(Asked(s, t), "active-plan", n + 1))
             \/ RequestFails(Asked(s, t), Repairing)
      PROVE  Proceeds
  <2> DEFINE r == Asked(s, t)
             q == With(r, "active-plan", n + 1)
  <2>1. /\ Kept(r) /\ r.attempts = run.attempts /\ r.calls = run.calls + 1
        /\ r.files = run.files \cup {<<"repair-evidence", n>>}
    BY <1>4, AskedKept
  <2>2. Goto("attempt", q) \/ RequestFails(r, Repairing)
    BY <1>9
  <2> HIDE DEF r
  <2>3. Born(r) /\ Calls(r) = Calls(run) + 1 /\ Spent(r) = Spent(run)
    <3>1. Born(r) /\ run.calls \in Nat /\ run.callsBefore \in Nat
      BY <1>1, <2>1, RunNumbers DEF Kept
    <3> QED BY <2>1, <3>1 DEF Born, Calls, Spent
  <2>4. CASE RequestFails(r, Repairing)
    <3>1. /\ Has(run, "resume-compatibility", 0) /\ Has(run, "run-facts", n)
          /\ NoRepetition(run.attempts)
      BY <1>1 DEF Working, Filed, Sourced, Counting
    <3>2. Has(r, "resume-compatibility", 0) /\ Has(r, "run-facts", n)
      BY <2>1, <3>1 DEF Has
    <3>3. Continuable(r, Repairing)
      BY <1>2, <2>1, <2>3, <3>1, <3>2, StagesAre DEF Continuable
    <3> QED BY <1>1, <2>1, <2>4, <3>3, StagesAre, RequestFailsEnds
  <2>5. CASE Goto("attempt", q)
    <3>1. /\ Kept(q) /\ q.attempts = r.attempts /\ q.calls = r.calls
          /\ q.files = r.files \cup {<<"active-plan", n + 1>>}
      BY <1>3, <2>1, WithKept
    <3> HIDE DEF q
    <3>2. /\ Born(q)
          /\ \A other, k : other \notin {"active-plan", "repair-evidence"} =>
               (Has(q, other, k) <=> Has(run, other, k))
          /\ \A k : Has(q, "active-plan", k) =>
               Has(run, "active-plan", k) \/ k = n + 1
          /\ \A k : Has(q, "repair-evidence", k) =>
               Has(run, "repair-evidence", k) \/ k = n
      BY <2>1, <3>1 DEF Kept, Has
    <3>3. Counting(q, "attempt") /\ FirstRepair(q, "attempt")
      BY <1>1, <2>1, <3>1, <3>2 DEF Working, Counting, FirstRepair, Attempting, Born
    <3>4. Counted(q, "attempt")
      <4>1. Calls(q) = Calls(r) /\ Spent(q) = Spent(r)
        BY <2>1, <2>3, <3>1, <3>2 DEF Born, Calls, Spent
      <4> QED BY <1>2, <2>3, <4>1 DEF Counted, Attempting
    <3>5. Filed(q, "attempt")
      <4>1. /\ UpTo(run, "active-plan", n) /\ UpTo(run, "attempt", n)
            /\ UpTo(run, "run-assessment", n) /\ UpTo(run, "derived-metrics", n)
            /\ UpTo(run, "repair-evidence", n - 1)
            /\ Has(run, "resume-compatibility", 0) /\ Has(run, "case-design", 0)
        BY <1>1 DEF Working, Filed, Attempting, Sourced, Latest
      <4>2. /\ UpTo(q, "attempt", n) /\ UpTo(q, "run-assessment", n)
            /\ UpTo(q, "derived-metrics", n) /\ Has(q, "resume-compatibility", 0)
            /\ Has(q, "case-design", 0)
        BY <3>2, <4>1 DEF UpTo
      <4>3. UpTo(q, "active-plan", n + 1)
        BY <1>3, <3>2, <4>1 DEF UpTo
      <4>4. UpTo(q, "repair-evidence", n)
        BY <1>3, <3>2, <4>1 DEF UpTo
      <4> QED BY <2>1, <3>1, <4>2, <4>3, <4>4 DEF Filed, Latest, Attempting, Sourced
    <3> QED BY <2>5, <3>1, <3>3, <3>4, <3>5, GotoMoves DEF Places
  <2> QED BY <2>2, <2>4, <2>5
<1> QED BY <1>6, <1>7, <1>8, <1>9

LEMMA StepProceeds ==
  ASSUME IInv, Step
  PROVE  Proceeds /\ at # "idle"
<1>1. Proceeds
  BY PreflightProceeds, RouteProceeds, FrozenDesignProceeds, InterpretProceeds,
     ProposeProceeds, GateProceeds, ContractsProceeds, WarmPlanProceeds, AuthorProceeds,
     ReclassifyProceeds, RepairAgainProceeds, PlanReadyProceeds, MaterialiseProceeds,
     ExecuteProceeds, AssessProceeds, EvaluateProceeds, ConcludeProceeds,
     ClassifyProceeds, RepairProceeds
  DEF Step
<1>2. at # "idle"
  BY DEF Step, Preflight, Route, FrozenDesign, LoadDesign, Interpret, Propose, Gate,
     Contracts, WarmPlan, Author, Reclassify, RepairAgain, PlanReady, Materialise,
     Execute, Assess, Evaluate, Conclude, Classify, Repair
<1> QED BY <1>1, <1>2

LEMMA CrashProceeds ==
  ASSUME IInv, Crash
  PROVE  Proceeds /\ at # "idle"
<1>1. at # "idle" /\ Kept(run)
  BY RunKept DEF Crash
<1>2. CASE Finish(run, "INTERRUPTED", "none")
  BY <1>1, <1>2, FinishEnds DEF Outcomes, Codes
<1>3. CASE /\ at = "gate"
           /\ EvaluateDesignRisk(run.draft, TRUE) = "CONFIRMATION_REQUIRED"
           /\ Finish(run, "INTERRUPTED", "CONFIRMATION_REQUIRED")
  BY <1>3, ConfirmationAsked
<1> QED BY <1>1, <1>2, <1>3 DEF Crash
-------------------------------------------------------------------------------
(* How a solve starts.                                                      *)

LEMMA SolveKeeps ==
  ASSUME IInv, Solve
  PROVE  IInv'
<1>1. PICK mode \in Modes : /\ run' = [NewRun EXCEPT !.mode = mode]
                            /\ at' = "preflight" /\ runs' = <<>> /\ cancel' = cancel
  BY DEF Solve, Begin
<1>2. PICK r : r = [NewRun EXCEPT !.mode = mode]
  OBVIOUS
<1>3. /\ r \in RunRecords /\ r.parent = 0 /\ r.relation = "fresh" /\ r.from = "none"
      /\ r.before = 0 /\ r.used = 0 /\ r.callsBefore = 0 /\ r.calls = 0 /\ r.files = {}
      /\ r.evidence = 0 /\ r.attempts = <<>> /\ r.outcome = "open" /\ r.code = "none"
      /\ r.offer = "none" /\ r.counts = NewRun.counts
  BY <1>2, NewRunTyped, SolveAssumption DEF RunRecords, SolveAssumption
<1>4. /\ TransportLimit \in Nat /\ MaxAttempts \in Nat /\ MaxAttempts >= 1
      /\ MaxRuns \in Nat /\ MaxRuns > 0
  BY SolveAssumption DEF SolveAssumption
<1>5. \A s \in Stages : r.counts[s] = 0
  BY <1>3, NewRunTyped
<1>6. TypeOK'
  <2>1. <<>> \in Seq(RunRecords) /\ Len(<<>>) <= MaxRuns
    BY <1>4
  <2> QED BY <1>1, <1>2, <1>3, <2>1 DEF IInv, TypeOK, Places
<1>7. Origin(r)
  BY <1>3, <1>4, <1>5, StagesAre DEF Origin, Repairing
<1>8. Working(r, "preflight")'
  <2>1. Counting(r, "preflight")
    BY <1>3, <1>4 DEF Counting, NoRepetition, Repairing, Attempting
  <2>2. FirstRepair(r, "preflight")'
    BY <1>3 DEF FirstRepair, Repairing
  <2>3. Counted(r, "preflight")
    <3>1. Calls(r) = 0 /\ Spent(r) = 0
      BY <1>3, <1>5, StagesAre DEF Calls, Spent
    <3> QED BY <3>1 DEF Counted, Attempting
  <2>4. Filed(r, "preflight")
    BY <1>3 DEF Filed, UpTo, Has, Sourced, Attempting
  <2> QED BY <1>3, <2>1, <2>2, <2>3, <2>4 DEF Working
<1>9. History'
  BY <1>1, <1>2, <1>3, <1>4, <1>7, <1>8 DEF History
<1>10. Sums'
  <2>1. Len(<<>>) = 0 /\ 0..0 = {0} /\ 1..0 = {}
    OBVIOUS
  <2>2. \E f : IsUsed(f, <<>>)
    <3> DEFINE f == [p \in {0} |-> 0]
    <3>1. f = [p \in {0} |-> IF p = 0 THEN 0 ELSE <<>>[p].used + f[<<>>[p].parent]]
      OBVIOUS
    <3> QED BY <2>1, <3>1 DEF IsUsed
  <2>3. \E b : IsBack(b, <<>>)
    <3> DEFINE b == [p \in {0} |-> {}]
    <3>1. b = [p \in {0} |-> IF p = 0 THEN {} ELSE {p} \cup b[<<>>[p].parent]]
      OBVIOUS
    <3> QED BY <2>1, <3>1 DEF IsBack
  <2>4. \A f : IsUsed(f, <<>>) => f[0] = 0
    BY <2>1 DEF IsUsed
  <2>5. \A b : IsBack(b, <<>>) => b[0] = {}
    BY <2>1 DEF IsBack
  <2>6. Covered(r, <<>>)
    BY <1>3, <2>4 DEF Covered, Covers
  <2> QED BY <1>1, <1>2, <2>1, <2>2, <2>3, <2>4, <2>5, <2>6 DEF Sums
<1> QED BY <1>6, <1>9, <1>10 DEF IInv

LEMMA BeginKeeps ==
  ASSUME IInv, NEW r \in RunRecords, Continue(r), Origin(r), Covered(r, runs),
         r.parent \in 0..Len(runs), Working(r, "preflight"), r.relation # "confirmation"
  PROVE  IInv'
<1>1. /\ run' = r /\ at' = "preflight" /\ UNCHANGED <<runs, cancel>>
      /\ Len(runs) < MaxRuns
  BY DEF Continue, Begin
<1>2. TypeOK'
  BY <1>1 DEF IInv, TypeOK, Places
<1>3. Working(r, "preflight")'
  BY <1>1 DEF Working, FirstRepair
<1>4. History'
  BY <1>1, <1>3 DEF IInv, History
<1>5. Sums'
  BY <1>1 DEF IInv, Sums
<1> QED BY <1>2, <1>4, <1>5 DEF IInv

\* What is known of a frozen run and of the sums it is in.
LEMMA ParentKnown ==
  ASSUME IInv, NEW p \in 1..Len(runs)
  PROVE  /\ runs[p] \in RunRecords /\ Origin(runs[p]) /\ Frozen(runs[p])
         /\ runs[p].parent \in 0..p - 1 /\ p \in 0..Len(runs)
         /\ runs[p].used \in Nat /\ runs[p].before \in Nat
         /\ \A f : IsUsed(f, runs) => /\ f[p] = runs[p].used + f[runs[p].parent]
                                      /\ f[runs[p].parent] \in Nat /\ f[0] = 0
         /\ \A b : IsBack(b, runs) => b[p] = {p} \cup b[runs[p].parent]
         /\ \A f, b : IsUsed(f, runs) /\ IsBack(b, runs)
                       => Covers(runs[p], f, b, runs)
<1>1. /\ runs[p] \in RunRecords /\ Origin(runs[p]) /\ Frozen(runs[p])
      /\ runs[p].parent \in 0..p - 1 /\ Len(runs) \in Nat
  BY DEF IInv, TypeOK, History
<1>2. p \in 0..Len(runs) /\ p # 0 /\ runs[p].parent \in 0..Len(runs) /\ 0 \in 0..Len(runs)
  BY <1>1
<1>3. runs[p].used \in Nat /\ runs[p].before \in Nat
  BY <1>1 DEF RunRecords
<1>4. ASSUME NEW f, IsUsed(f, runs)
      PROVE  /\ f[p] = runs[p].used + f[runs[p].parent]
             /\ f[runs[p].parent] \in Nat /\ f[0] = 0
  BY <1>2, <1>4 DEF IsUsed, IInv, Sums
<1>5. ASSUME NEW b, IsBack(b, runs)
      PROVE  b[p] = {p} \cup b[runs[p].parent]
  BY <1>2, <1>5 DEF IsBack
<1>6. \A f, b : IsUsed(f, runs) /\ IsBack(b, runs) => Covers(runs[p], f, b, runs)
  BY DEF IInv, Sums, Covered
<1> QED BY <1>1, <1>2, <1>3, <1>4, <1>5, <1>6

\* What the run and its lineage have used, when none of them was interrupted.
LEMMA UsageCovers ==
  ASSUME IInv, NEW p \in 1..Len(runs), NEW f, NEW b, IsUsed(f, runs), IsBack(b, runs),
         \A q \in b[p] : runs[q].outcome # "INTERRUPTED"
  PROVE  f[p] <= runs[p].before + runs[p].used
<1>1. /\ f[p] = runs[p].used + f[runs[p].parent] /\ f[runs[p].parent] \in Nat
      /\ runs[p].used \in Nat /\ runs[p].before \in Nat
      /\ b[p] = {p} \cup b[runs[p].parent] /\ Covers(runs[p], f, b, runs)
  BY ParentKnown
<1>2. f[runs[p].parent] <= runs[p].before
  BY <1>1 DEF Covers
<1> QED BY <1>1, <1>2

LEMMA ResumeKeeps ==
  ASSUME IInv, NEW p \in 1..Len(runs), Resume(p)
  PROVE  IInv'
<1> DEFINE o == runs[p]
           stage == o.offer
           counts == [o.counts EXCEPT ![stage] = @ + 1]
           before == LineageUsage(p)
           callsBefore == o.callsBefore + o.calls
           attempts == IF stage = Repairing THEN o.attempts ELSE <<>>
           evidence == IF stage = Repairing THEN ContinuationEvidence(p) ELSE 0
           r == [NewRun EXCEPT
                   !.parent = p, !.relation = "resume", !.from = stage, !.counts = counts,
                   !.before = before, !.callsBefore = callsBefore, !.attempts = attempts,
                   !.evidence = evidence]
<1>1. Resumable(p) /\ Continue(r)
  BY DEF Resume, Repairing
<1>2. o \in RunRecords /\ Origin(o) /\ Frozen(o) /\ Offering(o) /\ p \in 0..Len(runs)
  BY ParentKnown DEF Frozen
<1>3. /\ TransportLimit \in Nat /\ MaxAttempts \in Nat /\ MaxAttempts >= 1
      /\ MaxRuns \in Nat /\ Len(runs) <= MaxRuns /\ Len(runs) \in Nat
  BY SolveAssumption DEF SolveAssumption, IInv, TypeOK
<1>4. /\ stage \in Stages /\ o.counts[stage] < 2 /\ o.before + o.used < TransportLimit
  BY <1>1 DEF Resumable, LineageUsage, ContinuationLimit
<1>5. /\ o.counts \in [Stages -> 0..2] /\ o.before \in Nat /\ o.used \in Nat
      /\ o.callsBefore \in Nat /\ o.calls \in Nat
      /\ o.attempts \in Seq(Prints \cup {NoPrint}) /\ Len(o.attempts) \in Nat
      /\ o.evidence \in 0..MaxAttempts
  BY <1>2 DEF RunRecords, ContinuationLimit
<1>6. /\ counts \in [Stages -> 0..2] /\ counts[stage] = o.counts[stage] + 1
      /\ \A s \in Stages : s # stage => counts[s] = o.counts[s]
  <2>1. o.counts[stage] \in 0..2
    BY <1>4, <1>5
  <2>2. o.counts[stage] + 1 \in 0..2
    BY <1>4, <2>1
  <2> QED BY <1>4, <1>5, <2>2
\* The copied evidence is that of an attempt.
<1>7. stage = Repairing =>
        /\ Len(o.attempts) \in 1..MaxAttempts - 1 /\ NoRepetition(o.attempts)
        /\ evidence \in 1..MaxAttempts /\ Calls(o) <= 3 + Spent(o)
        /\ evidence = IF o.evidence # 0 THEN o.evidence ELSE Len(o.attempts)
  <2> SUFFICES ASSUME stage = Repairing
               PROVE  /\ Len(o.attempts) \in 1..MaxAttempts - 1
                      /\ NoRepetition(o.attempts)
                      /\ evidence \in 1..MaxAttempts /\ Calls(o) <= 3 + Spent(o)
                      /\ evidence = IF o.evidence # 0 THEN o.evidence
                                     ELSE Len(o.attempts)
    OBVIOUS
  <2>1. /\ Len(o.attempts) \in 1..MaxAttempts - 1 /\ NoRepetition(o.attempts)
        /\ Calls(o) <= 3 + Spent(o)
    BY <1>2 DEF Offering
  <2>2. evidence = IF o.evidence # 0 THEN o.evidence ELSE Len(o.attempts)
    BY DEF ContinuationEvidence, LastAttempt
  <2>3. evidence \in 1..MaxAttempts
    BY <1>3, <1>5, <2>1, <2>2
  <2> QED BY <2>1, <2>2, <2>3
<1>8. stage # Repairing =>
        /\ stage = Generation /\ o.from # Repairing /\ o.counts[Repairing] = 0
        /\ Calls(o) <= 3 + o.counts[Generation]
  BY <1>2, <1>4, StagesAre DEF Offering, Origin
<1>9. /\ attempts \in Seq(Prints \cup {NoPrint}) /\ evidence \in 0..MaxAttempts
      /\ before = o.before + o.used /\ before \in 0..TransportLimit
      /\ callsBefore \in Nat /\ p \in 0..MaxRuns
  <2>1. attempts \in Seq(Prints \cup {NoPrint})
    BY <1>5
  <2>2. evidence \in 0..MaxAttempts
    BY <1>3, <1>7
  <2>3. before = o.before + o.used /\ before \in 0..TransportLimit
    BY <1>3, <1>4, <1>5 DEF LineageUsage
  <2>4. p \in 0..MaxRuns
    BY <1>2, <1>3
  <2> QED BY <1>5, <2>1, <2>2, <2>3, <2>4
<1> HIDE DEF counts, before, callsBefore, attempts, evidence
<1>10. /\ r \in RunRecords /\ r.parent = p /\ r.relation = "resume" /\ r.from = stage
       /\ r.counts = counts /\ r.before = before /\ r.callsBefore = callsBefore
       /\ r.attempts = attempts /\ r.evidence = evidence /\ r.mode = "live"
       /\ r.used = 0 /\ r.calls = 0 /\ r.files = {} /\ r.outcome = "open"
       /\ r.code = "none" /\ r.offer = "none"
  <2>1. counts \in [Stages -> 0..ContinuationLimit]
    BY <1>6 DEF ContinuationLimit
  <2>2. stage \in Stages \cup {"none"}
    BY <1>4
  <2> HIDE DEF stage
  <2> QED BY <1>9, <2>1, <2>2, NewRunTyped DEF RunRecords
<1> HIDE DEF r
<1>11. Origin(r)
  <2>1. r.before + r.used <= TransportLimit
    BY <1>3, <1>9, <1>10
  <2>2. r.from \in Stages /\ r.from # "none" /\ r.parent # 0
    BY <1>2, <1>4, <1>10, StagesAre
  <2>3. r.from = Repairing => r.counts[Repairing] >= 1 /\ r.evidence # 0
    BY <1>4, <1>5, <1>6, <1>7, <1>10
  <2>4. r.from # Repairing => r.counts[Repairing] = 0 /\ r.evidence = 0
    BY <1>6, <1>8, <1>10, StagesAre DEF evidence
  <2> QED BY <1>10, <2>1, <2>2, <2>3, <2>4 DEF Origin
<1>12. Working(r, "preflight")
  <2>1. Counting(r, "preflight")
    <3>1. CASE stage = Repairing
      BY <1>7, <1>10, <3>1 DEF Counting, Attempting, attempts
    <3>2. CASE stage # Repairing
      BY <1>3, <1>10, <3>2 DEF Counting, NoRepetition, Attempting, attempts
    <3> QED BY <3>1, <3>2
  <2>2. FirstRepair(r, "preflight")
    <3>1. o.evidence = 0 => o.counts[Repairing] = 0
      BY <1>2 DEF Origin
    <3>2. stage = Repairing /\ o.evidence = 0 =>
            r.counts[Repairing] = 1 /\ r.evidence = Len(r.attempts)
      BY <1>6, <1>7, <1>10, <3>1 DEF attempts
    <3> QED BY <1>10, <3>2 DEF FirstRepair
  <2>3. Counted(r, "preflight")
    <3>1. Calls(r) = Calls(o) /\ Calls(o) \in Nat
      BY <1>5, <1>10 DEF Calls, callsBefore
    <3>2. o.counts[Generation] \in Nat /\ o.counts[Repairing] \in Nat
      BY <1>5, StagesAre
    <3>3. Calls(r) <= 2 + Spent(r)
      <4>1. CASE stage = Repairing
        <5>1. Spent(r) = Spent(o) + 1 /\ Spent(o) \in Nat
          <6>1. /\ r.counts[Repairing] = o.counts[Repairing] + 1
                /\ r.counts[Generation] = o.counts[Generation]
                /\ r.attempts = o.attempts
            BY <1>6, <1>10, <4>1, StagesAre DEF attempts
          <6>2. Len(o.attempts) \in Nat
            BY <1>5
          <6>3. Spent(r) = o.counts[Generation] + (o.counts[Repairing] + 1)
                             + Len(o.attempts)
            BY <6>1 DEF Spent
          <6>4. Spent(o) = o.counts[Generation] + o.counts[Repairing] + Len(o.attempts)
            BY DEF Spent
          <6>5. \A i, j, k \in Nat : i + (j + 1) + k = (i + j + k) + 1 /\ i + j + k \in Nat
            OBVIOUS
          <6> HIDE DEF o
          <6> QED BY <3>2, <6>2, <6>3, <6>4, <6>5
        <5> QED BY <1>7, <3>1, <4>1, <5>1
      <4>2. CASE stage # Repairing
        <5>1. stage = Generation /\ Calls(o) <= 3 + o.counts[Generation]
              /\ o.counts[Repairing] = 0
          BY <1>8, <4>2
        <5>2. Spent(r) = o.counts[Generation] + 1
          BY <1>6, <1>10, <3>2, <4>2, <5>1, StagesAre DEF Spent, attempts
        <5> QED BY <3>1, <3>2, <5>1, <5>2
      <4> QED BY <4>1, <4>2
    <3> QED BY <1>10, <3>3 DEF Counted, Attempting
  <2>4. Filed(r, "preflight")
    BY <1>10 DEF Filed, UpTo, Has, Sourced, Attempting
  <2> QED BY <1>10, <2>1, <2>2, <2>3, <2>4 DEF Working
<1>13. Covered(r, runs)
  BY <1>9, <1>10, UsageCovers DEF Covered, Covers
<1> QED BY <1>1, <1>2, <1>10, <1>11, <1>12, <1>13, BeginKeeps

LEMMA ResumeConfirmedKeeps ==
  ASSUME IInv, NEW p \in 1..Len(runs), ResumeConfirmed(p)
  PROVE  IInv'
<1> DEFINE o == runs[p]
           r == [NewRun EXCEPT !.parent = p, !.relation = "confirmed",
                               !.before = o.before, !.callsBefore = o.callsBefore]
<1>1. o.relation = "confirmation" /\ Continue(r)
  BY DEF ResumeConfirmed
<1>2. o \in RunRecords /\ Origin(o) /\ Frozen(o) /\ p \in 0..Len(runs)
  BY ParentKnown
<1>3. /\ TransportLimit \in Nat /\ MaxAttempts \in Nat /\ MaxAttempts >= 1
      /\ MaxRuns \in Nat /\ Len(runs) <= MaxRuns /\ Len(runs) \in Nat
  BY SolveAssumption DEF SolveAssumption, IInv, TypeOK
<1>4. /\ o.before \in 0..TransportLimit /\ o.callsBefore \in Nat /\ p \in 0..MaxRuns
      /\ o.used = 0 /\ o.callsBefore <= 2
  BY <1>1, <1>2, <1>3 DEF RunRecords, Frozen
<1>5. /\ r \in RunRecords /\ r.parent = p /\ r.relation = "confirmed" /\ r.from = "none"
      /\ r.counts = NewRun.counts /\ r.before = o.before
      /\ r.callsBefore = o.callsBefore
      /\ r.attempts = <<>> /\ r.evidence = 0 /\ r.mode = "live"
      /\ r.used = 0 /\ r.calls = 0 /\ r.files = {} /\ r.outcome = "open"
      /\ r.code = "none" /\ r.offer = "none"
  BY <1>4, NewRunTyped DEF RunRecords
<1> HIDE DEF r
<1>6. r.counts[Generation] = 0 /\ r.counts[Repairing] = 0
  BY <1>5, NewRunTyped, StagesAre
<1>7. Origin(r)
  BY <1>3, <1>4, <1>5, <1>6, StagesAre DEF Origin, Repairing
<1>8. Working(r, "preflight")
  <2>1. Counting(r, "preflight") /\ FirstRepair(r, "preflight")
    BY <1>3, <1>5 DEF Counting, FirstRepair, NoRepetition, Attempting, Repairing
  <2>2. Counted(r, "preflight")
    BY <1>4, <1>5, <1>6 DEF Counted, Calls, Spent, Attempting
  <2>3. Filed(r, "preflight")
    BY <1>5 DEF Filed, UpTo, Has, Sourced, Attempting
  <2> QED BY <1>5, <2>1, <2>2, <2>3 DEF Working
<1>9. Covered(r, runs)
  BY <1>4, <1>5, UsageCovers DEF Covered, Covers
<1> QED BY <1>1, <1>2, <1>5, <1>7, <1>8, <1>9, BeginKeeps

\* An answered field asks nothing more.
LEMMA AnsweredField ==
  ASSUME NEW g \in FieldStates, Question(g) = "confirmable"
  PROVE  Question([g EXCEPT !.gap = GapConfirmed(g), !.asked = "none", !.fact = "settled"])
           = "none"
<1> DEFINE h == [g EXCEPT !.gap = GapConfirmed(g), !.asked = "none", !.fact = "settled"]
<1>1. h.gap = GapConfirmed(g) /\ h.asked = "none" /\ h.fact = "settled"
      /\ h.conflict = g.conflict
  BY DEF FieldStates
<1>2. g.conflict = FALSE /\ g.gap # "information_required"
  BY DEF Question, FieldStates, Kinds
<1>3. g.gap \in {"none", "confirmable", "design_required"}
  BY <1>2 DEF FieldStates
<1>4. h.gap \in {"none", "design_required"}
  BY <1>1, <1>3 DEF GapConfirmed
<1> HIDE DEF h
<1>5. Question(h) = "none"
  BY <1>1, <1>2, <1>4 DEF Question
<1> QED BY <1>5 DEF h

\* Answering every question of a design that waits for answers makes it ready.
LEMMA ConfirmedIsReady ==
  ASSUME NEW draft \in [Fields -> FieldStates],
         EvaluateDesignRisk(draft, TRUE) = "CONFIRMATION_REQUIRED"
  PROVE  /\ EvaluateDesignRisk(Confirmed(draft), TRUE) = "READY_TO_AUTHOR"
         /\ Confirmed(draft) \in [Fields -> FieldStates]
<1>1. \A f \in Fields : Question(draft[f]) \notin {"information_required", "conflict"}
  BY DEF EvaluateDesignRisk
<1>2. \A g : Question(g) \in {"conflict", "information_required", "confirmable", "none"}
  BY DEF Question
<1>3. ASSUME NEW f \in Fields
      PROVE  Question(Confirmed(draft)[f]) = "none" /\ Confirmed(draft)[f] \in FieldStates
  <2>1. draft[f] \in FieldStates
    OBVIOUS
  <2>2. CASE Question(draft[f]) = "confirmable"
    <3> DEFINE g == draft[f]
               h == [g EXCEPT !.gap = GapConfirmed(g), !.asked = "none", !.fact = "settled"]
    <3>1. Confirmed(draft)[f] = h
      BY <2>2 DEF Confirmed
    <3>2. h \in FieldStates
      <4>1. GapConfirmed(g) \in {"none", "confirmable", "design_required",
                                 "information_required"}
        BY <2>1 DEF GapConfirmed, FieldStates
      <4> QED BY <2>1, <4>1 DEF FieldStates
    <3>3. Question(h) = "none"
      BY <2>1, <2>2, AnsweredField
    <3> QED BY <3>1, <3>2, <3>3
  <2>3. CASE Question(draft[f]) # "confirmable"
    <3>1. Confirmed(draft)[f] = draft[f]
      BY <2>3 DEF Confirmed
    <3> QED BY <1>1, <1>2, <2>1, <2>3, <3>1
  <2> QED BY <2>2, <2>3
<1>4. \A f \in Fields : Question(Confirmed(draft)[f]) = "none"
  BY <1>3
<1>5. EvaluateDesignRisk(Confirmed(draft), TRUE) = "READY_TO_AUTHOR"
  BY <1>4 DEF EvaluateDesignRisk
<1>6. Confirmed(draft) \in [Fields -> FieldStates]
  <2>1. Confirmed(draft) = [f \in Fields |-> Confirmed(draft)[f]]
    BY DEF Confirmed
  <2> QED BY <1>3, <2>1
<1> QED BY <1>5, <1>6

LEMMA ConfirmKeeps ==
  ASSUME IInv, NEW p \in 1..Len(runs), Confirm(p)
  PROVE  IInv'
<1> DEFINE o == runs[p]
           before == IF o.outcome = "INTERRUPTED" THEN 0 ELSE o.used
           callsBefore == IF o.outcome = "INTERRUPTED" THEN 0 ELSE o.calls
           draft == Confirmed(o.draft)
           offer == IF before < TransportLimit THEN "AUTHORING_CASE" ELSE "none"
           r == [NewRun EXCEPT !.parent = p, !.relation = "confirmation",
                               !.before = before, !.callsBefore = callsBefore,
                               !.draft = draft, !.files = {<<"case-design", 0>>},
                               !.outcome = "DEFERRED", !.code = "none", !.offer = offer]
<1>1. o \in RunRecords /\ Origin(o) /\ Frozen(o) /\ p \in 0..Len(runs)
  BY ParentKnown
<1>2. /\ o.code = "CONFIRMATION_REQUIRED" /\ o.relation = "fresh" /\ Calls(o) <= 2
      /\ EvaluateDesignRisk(o.draft, TRUE) = "CONFIRMATION_REQUIRED"
      /\ o.parent = 0 /\ o.before = 0
  BY <1>1 DEF Confirm, Frozen, Origin
<1>3. /\ EvaluateDesignRisk(draft, TRUE) = "READY_TO_AUTHOR"
      /\ draft \in [Fields -> FieldStates]
  BY <1>1, <1>2, ConfirmedIsReady DEF RunRecords
<1>4. ConfirmationUsage(p) = <<before, callsBefore>>
  BY <1>2 DEF ConfirmationUsage
<1> HIDE DEF before, callsBefore, draft
<1>5. /\ runs' = Append(runs, r) /\ UNCHANGED <<run, at, cancel>> /\ at = "idle"
      /\ Len(runs) < MaxRuns
  BY <1>3, <1>4 DEF Confirm, draft
<1>6. /\ o.used \in 0..TransportLimit /\ o.calls \in Nat /\ o.callsBefore \in Nat
      /\ TransportLimit \in Nat /\ MaxRuns \in Nat /\ Len(runs) \in Nat
      /\ MaxAttempts \in Nat
  <2>1. o.used \in 0..TransportLimit /\ o.calls \in Nat /\ o.callsBefore \in Nat
    BY <1>1 DEF RunRecords
  <2>2. TransportLimit \in Nat /\ MaxRuns \in Nat /\ MaxAttempts \in Nat
    BY SolveAssumption DEF SolveAssumption
  <2>3. Len(runs) \in Nat
    BY DEF IInv, TypeOK
  <2> QED BY <2>1, <2>2, <2>3
<1>7. before \in 0..TransportLimit /\ callsBefore \in Nat /\ callsBefore <= 2
  BY <1>2, <1>6 DEF before, callsBefore, Calls
<1>8. offer \in {"AUTHORING_CASE", "none"} /\ p \in 0..MaxRuns
      /\ {<<"case-design", 0>>} \in SUBSET (FileNames \X (0..MaxAttempts + 1))
  BY <1>1, <1>5, <1>6 DEF FileNames
<1> HIDE DEF offer
<1>9. /\ r \in RunRecords /\ r.parent = p /\ r.relation = "confirmation"
      /\ r.from = "none" /\ r.counts = NewRun.counts /\ r.before = before
      /\ r.callsBefore = callsBefore
      /\ r.attempts = <<>> /\ r.evidence = 0 /\ r.mode = "live"
      /\ r.used = 0 /\ r.calls = 0 /\ r.files = {<<"case-design", 0>>}
      /\ r.outcome = "DEFERRED" /\ r.code = "none" /\ r.offer = offer
  BY <1>3, <1>7, <1>8, NewRunTyped DEF RunRecords, Outcomes, Codes
<1> HIDE DEF r
<1>10. r.counts[Generation] = 0 /\ r.counts[Repairing] = 0
  BY <1>9, NewRunTyped, StagesAre
<1>11. Origin(r)
  BY <1>6, <1>7, <1>9, <1>10, StagesAre DEF Origin, Repairing
<1>12. Frozen(r)
  <2>1. Offering(r)
    BY <1>8, <1>9 DEF Offering, Stages, Generation, Repairing
  <2>2. Has(r, "case-design", 0) /\ 1..Len(r.attempts) - 2 = {}
    BY <1>9 DEF Has
  <2> QED BY <1>7, <1>9, <2>1, <2>2 DEF Frozen
\* A lineage of one run, which is counted unless it was interrupted.
<1>13. Covered(r, runs)
  <2> SUFFICES ASSUME NEW f, NEW b, IsUsed(f, runs), IsBack(b, runs),
                      \A q \in b[p] : runs[q].outcome # "INTERRUPTED"
               PROVE  f[p] <= before
    BY <1>9 DEF Covered, Covers
  <2>1. /\ b[p] = {p} \cup b[o.parent] /\ f[p] = o.used + f[o.parent] /\ f[0] = 0
    BY ParentKnown
  <2>2. o.outcome # "INTERRUPTED"
    BY <2>1
  <2> QED BY <1>2, <1>6, <2>1, <2>2 DEF before
<1>14. run \in RunRecords /\ cancel \in BOOLEAN
  BY DEF IInv, TypeOK
<1> QED BY <1>1, <1>5, <1>9, <1>11, <1>12, <1>13, <1>14, FrozenIsAdded
-------------------------------------------------------------------------------
(* The invariant and what it implies.                                       *)

LEMMA InitHolds ==
  ASSUME Init
  PROVE  IInv
<1>1. /\ Len(<<>>) = 0 /\ 0..0 = {0} /\ 1..0 = {} /\ <<>> \in Seq(RunRecords)
      /\ MaxRuns \in Nat
  BY SolveAssumption DEF SolveAssumption
<1>2. TypeOK
  <2>1. runs = <<>> /\ run = NewRun /\ at = "idle" /\ cancel = FALSE
    BY DEF Init
  <2>2. Len(runs) <= MaxRuns /\ runs \in Seq(RunRecords)
    BY <1>1, <2>1
  <2>3. run \in RunRecords
    BY <2>1, NewRunTyped
  <2> QED BY <2>1, <2>2, <2>3 DEF TypeOK, Places
<1>3. History
  BY <1>1 DEF Init, History
<1>4. \E f : IsUsed(f, <<>>)
  <2> DEFINE f == [p \in {0} |-> 0]
  <2>1. f = [p \in {0} |-> IF p = 0 THEN 0 ELSE <<>>[p].used + f[<<>>[p].parent]]
    OBVIOUS
  <2> QED BY <1>1, <2>1 DEF IsUsed
<1>5. \E b : IsBack(b, <<>>)
  <2> DEFINE b == [p \in {0} |-> {}]
  <2>1. b = [p \in {0} |-> IF p = 0 THEN {} ELSE {p} \cup b[<<>>[p].parent]]
    OBVIOUS
  <2> QED BY <1>1, <2>1 DEF IsBack
<1>6. \A f : IsUsed(f, <<>>) => f[0] = 0
  BY <1>1 DEF IsUsed
<1>7. \A b : IsBack(b, <<>>) => b[0] = {}
  BY <1>1 DEF IsBack
<1>8. Sums
  BY <1>1, <1>4, <1>5, <1>6, <1>7 DEF Init, Sums
<1> QED BY <1>2, <1>3, <1>8 DEF IInv

LEMMA NextHolds ==
  ASSUME IInv, [Next]_vars
  PROVE  IInv'
<1>1. CASE Step \/ Crash
  <2>1. Proceeds /\ at # "idle"
    BY <1>1, StepProceeds, CrashProceeds
  <2> QED BY <2>1, MoveKeeps, EndKeeps DEF Proceeds
<1>2. CASE Solve
  BY <1>2, SolveKeeps
<1>3. ASSUME NEW p \in 1..Len(runs), Resume(p) \/ ResumeConfirmed(p) \/ Confirm(p)
      PROVE  IInv'
  BY <1>3, ResumeKeeps, ResumeConfirmedKeeps, ConfirmKeeps
<1>4. CASE Cancel
  <2>1. UNCHANGED <<runs, run, at>> /\ cancel' \in BOOLEAN
    BY <1>4 DEF Cancel
  <2> QED BY <2>1 DEF IInv, TypeOK, History, Working, FirstRepair, Sums
<1>5. CASE UNCHANGED vars
  BY <1>5 DEF vars, IInv, TypeOK, History, Working, FirstRepair, Sums
<1> QED BY <1>1, <1>2, <1>3, <1>4, <1>5 DEF Next, Start

LEMMA Invariance == Spec => []IInv
<1>1. Init => IInv
  BY InitHolds
<1>2. IInv /\ [Next]_vars => IInv'
  BY NextHolds
<1> QED BY <1>1, <1>2, PTL DEF Spec

\* Whatever runs a lineage has, and wherever a solve is, the directories it has
\* frozen and the one it fills are those the types say.
THEOREM TypeCorrect == Spec => []TypeOK
<1>1. IInv => TypeOK
  BY DEF IInv
<1> QED BY <1>1, Invariance, PTL

\* A run of AllRuns is a frozen one or the one of the solve in progress.
LEMMA RunIsKnown ==
  ASSUME IInv, NEW r \in AllRuns
  PROVE  \/ /\ \E p \in 1..Len(runs) : r = runs[p]
            /\ r \in RunRecords /\ Origin(r) /\ Frozen(r) /\ Covered(r, runs)
            /\ r.parent \in 0..Len(runs)
         \/ /\ at # "idle" /\ r = run /\ r \in RunRecords /\ Origin(r)
            /\ Working(r, at) /\ Covered(r, runs) /\ r.parent \in 0..Len(runs)
<1>1. CASE \E p \in 1..Len(runs) : r = runs[p]
  <2>1. PICK p \in 1..Len(runs) : r = runs[p]
    BY <1>1
  <2>2. Covered(runs[p], runs) /\ Len(runs) \in Nat
    BY DEF IInv, Sums, TypeOK
  <2>3. runs[p].parent \in 0..Len(runs)
    BY <2>2, ParentKnown
  <2> QED BY <2>1, <2>2, <2>3, ParentKnown
<1>2. CASE at # "idle" /\ r = run
  BY <1>2 DEF IInv, TypeOK, History, Sums
<1> QED BY <1>1, <1>2 DEF AllRuns

\* The recursive functions of the properties are the sums of the invariant.
LEMMA SumsAreThose ==
  ASSUME IInv
  PROVE  \E f, b : /\ IsUsed(f, runs) /\ IsBack(b, runs)
                   /\ \A r : LineageTransport(r) = r.used + f[r.parent]
                   /\ \A p : Lineage(p) = b[p]
<1> DEFINE f == CHOOSE f : IsUsed(f, runs)
           b == CHOOSE b : IsBack(b, runs)
<1>1. IsUsed(f, runs) /\ IsBack(b, runs)
  BY DEF IInv, Sums
<1>2. \A r : LineageTransport(r) = r.used + f[r.parent]
  BY DEF LineageTransport, IsUsed
<1>3. \A p : Lineage(p) = b[p]
  BY DEF Lineage, IsBack
<1> QED BY <1>1, <1>2, <1>3

LEMMA BudgetHolds ==
  ASSUME IInv
  PROVE  LineageBudget
<1>1. SUFFICES ASSUME NEW r \in AllRuns
               PROVE  /\ ~ForgotUsage(r) => LineageTransport(r) <= TransportLimit
                      /\ r.code # "AGENT_STATUS"
  BY DEF LineageBudget
<1>2. /\ r \in RunRecords /\ Origin(r) /\ Covered(r, runs) /\ r.parent \in 0..Len(runs)
      /\ r.code # "AGENT_STATUS"
  BY <1>1, RunIsKnown DEF Frozen, Working
<1>3. PICK f, b : /\ IsUsed(f, runs) /\ IsBack(b, runs)
                  /\ \A x : LineageTransport(x) = x.used + f[x.parent]
                  /\ \A p : Lineage(p) = b[p]
  BY SumsAreThose
<1>4. ~ForgotUsage(r) => f[r.parent] <= r.before
  BY <1>2, <1>3 DEF ForgotUsage, Covered, Covers
<1>5. f[r.parent] \in Nat
  BY <1>2, <1>3 DEF IInv, Sums
<1>6. r.used \in Nat /\ r.before \in Nat /\ r.before + r.used <= TransportLimit
      /\ TransportLimit \in Nat
  BY <1>2, SolveAssumption DEF RunRecords, Origin, SolveAssumption
<1>7. LineageTransport(r) = r.used + f[r.parent]
  BY <1>3
<1> QED BY <1>2, <1>4, <1>5, <1>6, <1>7

\* However many continuations and confirmations a lineage goes through, and
\* wherever its runs fail, are cancelled or crash, it sends no more transport
\* attempts than its limit, unless a run of it was interrupted, and never asks
\* the model for more than the status it is given allows.
THEOREM BudgetKept == Spec => []LineageBudget
<1>1. IInv => LineageBudget
  BY BudgetHolds
<1> QED BY <1>1, Invariance, PTL

LEMMA ChainHolds ==
  ASSUME IInv
  PROVE  ChainRemembers
<1>1. RepairsLastAttempt
  <2> SUFFICES ASSUME at = "source-again" PROVE run.evidence = LastAttempt(run)
    BY DEF RepairsLastAttempt
  <2>1. Working(run, at)
    BY DEF IInv, History
  <2> QED BY <2>1 DEF Working, Counting, FirstRepair, Attempting, LastAttempt
<1>2. ASSUME NEW r \in AllRuns, NEW k \in 1..Len(r.attempts) - 2
      PROVE  r.attempts[k] # r.attempts[k + 1]
  <2>1. CASE Frozen(r)
    BY <1>2, <2>1 DEF Frozen
  <2>2. CASE at # "idle" /\ r = run
    BY <1>2, <2>2, RunKept DEF Kept
  <2> QED BY <1>2, <2>1, <2>2, RunIsKnown
<1> QED BY <1>1, <1>2 DEF ChainRemembers, StopsAtRepeatedFailure

\* However long a chain of runs is, the repair it asks for starts from the last
\* attempt anywhere in it, and the same failure twice in a row is the end of it.
THEOREM MemoryKept == Spec => []ChainRemembers
<1>1. IInv => ChainRemembers
  BY ChainHolds
<1> QED BY <1>1, Invariance, PTL

LEMMA OfferHolds ==
  ASSUME IInv
  PROVE  OfferSuffices
<1>1. RunsAreSealed
  BY RunIsKnown DEF RunsAreSealed, Frozen, Working
<1>2. ConfirmationSuffices
  BY RunIsKnown DEF ConfirmationSuffices, Frozen, IInv, History
<1>3. ASSUME NEW p \in 1..Len(runs), runs[p].offer \in Stages
      PROVE  Resumable(p)
  <2>1. Offering(runs[p]) /\ runs[p] \in RunRecords
    BY ParentKnown DEF Frozen
  <2>2. p \in Lineage(p)
    <3>1. PICK f, b : IsUsed(f, runs) /\ IsBack(b, runs) /\ \A q : Lineage(q) = b[q]
      BY SumsAreThose
    <3>2. b[p] = {p} \cup b[runs[p].parent]
      BY <3>1, ParentKnown
    <3> QED BY <3>1, <3>2
  <2>3. runs[p].offer = "MODEL_REPAIR_STARTED" =>
          LastAttempt(runs[p]) # 0 /\ EvidenceExists(p)
    <3>1. SUFFICES ASSUME runs[p].offer = "MODEL_REPAIR_STARTED"
                   PROVE  LastAttempt(runs[p]) # 0 /\ EvidenceExists(p)
      OBVIOUS
    <3>2. /\ Len(runs[p].attempts) \in 1..MaxAttempts - 1
          /\ \/ runs[p].evidence # 0
             \/ Has(runs[p], "run-facts", Len(runs[p].attempts))
      BY <2>1, <3>1 DEF Offering, Repairing
    <3>3. Len(runs[p].attempts) # 0
      BY <3>2, SolveAssumption DEF SolveAssumption
    <3> QED BY <2>2, <3>2, <3>3 DEF LastAttempt, EvidenceExists
  <2> QED BY <1>3, <2>1, <2>3 DEF Resumable, Offering, LineageUsage
<1>4. ASSUME NEW p \in 1..Len(runs), runs[p].offer = "MODEL_GENERATION_STARTED"
      PROVE  Has(runs[p], "case-design", 0)
  BY <1>4, ParentKnown DEF Frozen, Offering, Generation
<1> QED BY <1>1, <1>2, <1>3, <1>4 DEF OfferSuffices, OfferIsAccepted

\* No checkpoint of a run is ever written twice; whatever has happened in its
\* lineage, what a frozen run offers is accepted by the command that takes it up,
\* and a case that is to be authored again has its design; and a confirmation that
\* is taken leaves no question.
THEOREM OffersAreGood == Spec => []OfferSuffices
<1>1. IInv => OfferSuffices
  BY OfferHolds
<1> QED BY <1>1, Invariance, PTL
-------------------------------------------------------------------------------
(* A solve comes nearer to its end with each of its steps.                  *)

\* The steps that are left at each place when no attempt is added.
Left == [place \in Places |->
  CASE place = "preflight" -> 14 [] place = "routing" -> 13 [] place = "intent" -> 12
    [] place = "design" -> 11 [] place = "gate" -> 10 [] place = "contracts" -> 9
    [] place = "source" -> 8 [] place = "source-again" -> 7
    [] place \in {"ready", "repair"} -> 6 [] place = "attempt" -> 5
    [] place = "execute" -> 4 [] place = "assess" -> 3 [] place = "evaluate" -> 2
    [] place = "classify" -> 1 [] place = "idle" -> 0]

\* Left at each place, as the steps below compare it.
LEMMA LeftIs ==
  /\ Left["preflight"] = 14 /\ Left["routing"] = 13 /\ Left["intent"] = 12
  /\ Left["design"] = 11 /\ Left["gate"] = 10 /\ Left["contracts"] = 9
  /\ Left["source"] = 8 /\ Left["source-again"] = 7 /\ Left["ready"] = 6
  /\ Left["repair"] = 6 /\ Left["attempt"] = 5 /\ Left["execute"] = 4
  /\ Left["assess"] = 3 /\ Left["evaluate"] = 2 /\ Left["classify"] = 1
BY DEF Left, Places

\* The solve ends, or an attempt is added, or the next place is nearer to the end.
Onward ==
  \/ at' = "idle"
  \/ Len(run'.attempts) > Len(run.attempts)
  \/ run'.attempts = run.attempts /\ Left[at'] < Left[at]

\* All these lemmas ask of a run: it has a list of attempts.
Attempted(r) == "attempts" \in DOMAIN r

\* Neither a new file nor a model request changes which attempts have a summary.
LEMMA SameAttempts ==
  ASSUME NEW r, Attempted(r), NEW name, NEW n
  PROVE  /\ Attempted(With(r, name, n)) /\ With(r, name, n).attempts = r.attempts
         /\ Attempted(Asked(r, n)) /\ Asked(r, n).attempts = r.attempts
BY DEF Attempted, With, Asked

\* However solve returns or is left, it is idle then.
LEMMA Ends ==
  ASSUME NEW r, NEW outcome, NEW code, NEW stage,
         \/ Finish(r, outcome, code) \/ Fails(r) \/ Escape(r) \/ Unhandled(r)
         \/ DesignRequestFails(r) \/ RequestFails(r, stage)
  PROVE  Onward
BY DEF Finish, Fails, Escape, Unhandled, DesignRequestFails, RequestFails, Defers, End, Onward

\* A place nearer to the end, with the attempts as they are.
LEMMA GoesOn ==
  ASSUME NEW q, NEW place, Goto(place, q), q.attempts = run.attempts,
         Left[place] < Left[at]
  PROVE  Onward
BY DEF Goto, Onward

\* A checkpoint is created, or is there already and solve is left.
LEMMA Creates ==
  ASSUME Attempted(run), NEW name, NEW n, NEW place, Create(name, n, place),
         Left[place] < Left[at]
  PROVE  Onward
BY Ends, GoesOn, SameAttempts DEF Create

\* From the task to a ready plan.
LEMMA PlanOnward ==
  ASSUME Attempted(run),
         \/ Preflight \/ Route \/ FrozenDesign \/ LoadDesign \/ Interpret \/ Propose
         \/ Gate \/ Contracts
  PROVE  Onward
<1>1. CASE Preflight
  BY <1>1, Ends, GoesOn, LeftIs DEF Preflight
<1>2. CASE Route
  <2>1. PICK t \in Attempts(run) :
          LET r == [run EXCEPT !.used = @ + t] IN
          \/ Goto("intent", r) \/ Fails(r) \/ Fails(Asked(run, t))
          \/ Finish(Asked(run, t), "DEFERRED", "none") \/ Finish(r, "CANCELLED", "none")
    BY <1>2 DEF Route
  <2>2. [run EXCEPT !.used = @ + t].attempts = run.attempts
    BY DEF Attempted
  <2> DEFINE r == [run EXCEPT !.used = @ + t]
  <2>3. CASE Goto("intent", r)
    <3>1. r.attempts = run.attempts /\ Left["intent"] < Left[at]
      BY <1>2, <2>2, LeftIs DEF Route
    <3> HIDE DEF r
    <3> QED BY <2>3, <3>1, GoesOn
  <2>4. CASE Fails(r) \/ Finish(r, "CANCELLED", "none")
    <3> HIDE DEF r
    <3> QED BY <2>4, Ends
  <2>5. CASE Fails(Asked(run, t)) \/ Finish(Asked(run, t), "DEFERRED", "none")
    BY <2>5, Ends
  <2> QED BY <2>1, <2>3, <2>4, <2>5
<1>3. CASE FrozenDesign
  BY <1>3, GoesOn, SameAttempts, LeftIs DEF FrozenDesign
<1>4. CASE LoadDesign
  <2>1. ASSUME NEW e PROVE [With(run, "case-design", 0) EXCEPT !.envelope = e].attempts
                           = run.attempts
    BY SameAttempts DEF Attempted
  <2>2. CASE Finish(run, "FAILED", "CASE_DESIGN_CHECKPOINT_MISSING")
    BY <2>2, Ends
  <2>3. CASE Goto("contracts", [With(run, "case-design", 0) EXCEPT
                                  !.envelope = runs[run.parent].envelope])
    <3> DEFINE q == [With(run, "case-design", 0) EXCEPT
                       !.envelope = runs[run.parent].envelope]
    <3>1. q.attempts = run.attempts /\ Left["contracts"] < Left[at]
      BY <1>4, <2>1, LeftIs DEF LoadDesign
    <3> HIDE DEF q
    <3>2. Goto("contracts", q)
      BY <2>3 DEF q
    <3> QED BY <3>1, <3>2, GoesOn
  <2> QED BY <1>4, <2>2, <2>3 DEF LoadDesign
<1>5. CASE Interpret
  BY <1>5, Ends, GoesOn, SameAttempts, LeftIs DEF Interpret
<1>6. CASE Propose
  <2>1. ASSUME NEW t, NEW draft
        PROVE  [Asked(run, t) EXCEPT !.draft = draft].attempts = run.attempts
    BY SameAttempts DEF Attempted
  <2>2. ASSUME NEW t, NEW draft, Goto("gate", [Asked(run, t) EXCEPT !.draft = draft])
        PROVE  Onward
    <3> DEFINE q == [Asked(run, t) EXCEPT !.draft = draft]
    <3>1. q.attempts = run.attempts /\ Left["gate"] < Left[at]
      BY <1>6, <2>1, LeftIs DEF Propose
    <3> HIDE DEF q
    <3>2. Goto("gate", q)
      BY <2>2 DEF q
    <3> QED BY <3>1, <3>2, GoesOn
  <2>3. ASSUME NEW t, DesignRequestFails(Asked(run, t)) PROVE Onward
    BY <2>3, Ends
  <2> QED BY <1>6, <2>2, <2>3 DEF Propose
<1>7. CASE Gate
  <2>1. ASSUME NEW e PROVE [With(run, "case-design", 0) EXCEPT !.envelope = e].attempts
                           = run.attempts
    BY SameAttempts DEF Attempted
  <2>2. ASSUME NEW e,
               Goto("contracts", [With(run, "case-design", 0) EXCEPT !.envelope = e])
        PROVE  Onward
    <3> DEFINE q == [With(run, "case-design", 0) EXCEPT !.envelope = e]
    <3>1. q.attempts = run.attempts /\ Left["contracts"] < Left[at]
      BY <1>7, <2>1, LeftIs DEF Gate
    <3> HIDE DEF q
    <3>2. Goto("contracts", q)
      BY <2>2 DEF q
    <3> QED BY <3>1, <3>2, GoesOn
  <2>3. ASSUME NEW outcome, NEW code, Fails(run) \/ Finish(run, outcome, code)
        PROVE  Onward
    BY <2>3, Ends
  <2> QED BY <1>7, <2>2, <2>3 DEF Gate
<1>8. CASE Contracts
  BY <1>8, Ends, GoesOn, SameAttempts, LeftIs DEF Contracts
<1> QED BY <1>1, <1>2, <1>3, <1>4, <1>5, <1>6, <1>7, <1>8

\* The sources of a plan, and the plan.
LEMMA SourceOnward ==
  ASSUME Attempted(run), WarmPlan \/ Author \/ Reclassify \/ RepairAgain \/ PlanReady
  PROVE  Onward
<1>1. CASE WarmPlan
  BY <1>1, Ends, Creates, LeftIs DEF WarmPlan
<1>2. CASE Author
  BY <1>2, Ends, GoesOn, SameAttempts, LeftIs DEF Author
<1>3. CASE Reclassify
  BY <1>3, Ends, GoesOn, SameAttempts, LeftIs DEF Reclassify
<1>4. CASE RepairAgain
  BY <1>4, Ends, GoesOn, SameAttempts, LeftIs DEF RepairAgain
<1>5. CASE PlanReady
  BY <1>5, Ends, Creates, LeftIs DEF PlanReady
<1> QED BY <1>1, <1>2, <1>3, <1>4, <1>5

\* The attempts: a classified failure adds one.
LEMMA AttemptOnward ==
  ASSUME Attempted(run), run.attempts \in Seq(Prints \cup {NoPrint}),
         \/ Materialise \/ Execute \/ Assess \/ Evaluate \/ Conclude \/ Classify \/ Repair
  PROVE  Onward
<1>1. CASE Materialise
  <2>1. at = "attempt" /\ Left["execute"] < Left[at]
    BY <1>1, LeftIs DEF Materialise
  <2>2. CASE Create("attempt", Current, "execute")
    BY <2>1, <2>2, Creates
  <2>3. CASE Escape(run) \/ Fails(With(run, "attempt", Current))
    BY <2>3, Ends
  <2> QED BY <1>1, <2>2, <2>3 DEF Materialise
<1>2. CASE Execute
  <2>1. Left["assess"] < Left[at]
    BY <1>2, LeftIs DEF Execute
  <2>2. CASE Goto("assess", With(run, "run-facts", Current))
    BY <2>1, <2>2, GoesOn, SameAttempts
  <2>3. CASE \/ Unhandled(run) \/ Fails(Summarised(run, NoPrint))
             \/ Finish(Summarised(run, NoPrint), "CANCELLED", "none")
    BY <2>3, Ends
  <2> QED BY <1>2, <2>2, <2>3 DEF Execute
<1>3. CASE Assess
  BY <1>3, Creates, LeftIs DEF Assess
<1>4. CASE Evaluate
  BY <1>4, Ends, Creates, LeftIs DEF Evaluate
<1>5. CASE Conclude
  BY <1>5, Ends DEF Conclude
<1>6. CASE Classify
  <2>1. PICK print \in Prints :
          LET r == Summarised(run, print)
              classified == With(r, "classification", Current) IN
          Fails(r) \/ Fails(classified) \/ Goto("repair", classified)
    BY <1>6 DEF Classify
  <2> DEFINE r == Summarised(run, print)
             classified == With(r, "classification", Current)
  <2>2. Attempted(r) /\ r.attempts = Append(run.attempts, print)
    BY DEF Attempted, Summarised
  <2>3. classified.attempts = Append(run.attempts, print)
    BY <2>2, SameAttempts
  <2>4. Len(Append(run.attempts, print)) > Len(run.attempts)
    OBVIOUS
  <2>5. CASE Goto("repair", classified)
    BY <2>3, <2>4, <2>5 DEF Goto, Onward
  <2> QED BY <2>1, <2>5, Ends
<1>7. CASE Repair
  <2> DEFINE n == LastAttempt(run)
             scoped == With(run, "repair-evidence", n)
  <2>1. Attempted(scoped) /\ scoped.attempts = run.attempts
    BY SameAttempts
  <2>2. CASE Fails(run) \/ Finish(scoped, "FAILED", "AGENT_STATUS")
    BY <2>2, Ends
  <2>3. ASSUME NEW t \in Attempts(run),
               \/ Escape(Asked(scoped, t))
               \/ Goto("attempt", With(Asked(scoped, t), "active-plan", n + 1))
               \/ RequestFails(Asked(scoped, t), "MODEL_REPAIR_STARTED")
        PROVE  Onward
    <3>1. With(Asked(scoped, t), "active-plan", n + 1).attempts = run.attempts
      BY <2>1, SameAttempts
    <3>2. Left["attempt"] < Left[at]
      BY <1>7, LeftIs DEF Repair
    <3> QED BY <2>3, <3>1, <3>2, Ends, GoesOn
  <2> QED BY <1>7, <2>2, <2>3 DEF Repair
<1> QED BY <1>1, <1>2, <1>3, <1>4, <1>5, <1>6, <1>7

\* The attempts of a solve are bounded, and its places are finitely many.
LEMMA AttemptsBounded ==
  ASSUME IInv, at # "idle"
  PROVE  Len(run.attempts) \in 0..MaxAttempts - 1 /\ Left[at] \in 0..14
<1>1. Len(run.attempts) \in Nat /\ Len(run.attempts) <= MaxAttempts - 1
  BY RunKept
<1>2. Left[at] \in 0..14
  BY LeftIs DEF IInv, TypeOK, Places
<1> QED BY <1>1, <1>2, SolveAssumption DEF SolveAssumption

\* Whatever the models, the gate, the case and the user do, each step of solve brings
\* its end nearer, in an order bounded by its attempts (fewer than MaxAttempts have a
\* summary while it runs) and its places, and nothing takes it back: what remains of
\* SolveEnds is that the process keeps taking steps or dies.
THEOREM SolveDescends ==
  Spec => [][/\ Step => Onward
             /\ at # "idle" => /\ Len(run.attempts) < MaxAttempts
                               /\ ~Step => at' = "idle" \/ UNCHANGED <<at, run>>]_vars
<1>1. ASSUME IInv, Step PROVE Onward
  <2>1. Attempted(run) /\ run.attempts \in Seq(Prints \cup {NoPrint})
    BY <1>1 DEF IInv, TypeOK, RunRecords, Attempted
  <2> QED BY <1>1, <2>1, PlanOnward, SourceOnward, AttemptOnward DEF Step
<1>2. ASSUME IInv, [Next]_vars, at # "idle", ~Step
      PROVE  at' = "idle" \/ UNCHANGED <<at, run>>
  <2>1. ~Solve /\ \A p \in 1..Len(runs) : ~Resume(p) /\ ~ResumeConfirmed(p) /\ ~Confirm(p)
    BY <1>2 DEF Solve, Resume, ResumeConfirmed, Confirm, Continue, Begin
  <2>2. CASE Crash
    BY <2>2 DEF Crash, Finish, End
  <2> QED BY <1>2, <2>1, <2>2 DEF Next, Start, Cancel, vars
<1>3. ASSUME IInv, at # "idle" PROVE Len(run.attempts) < MaxAttempts
  BY <1>3, AttemptsBounded, SolveAssumption DEF SolveAssumption
<1>4. IInv /\ [Next]_vars =>
        [/\ Step => Onward
         /\ at # "idle" => /\ Len(run.attempts) < MaxAttempts
                           /\ ~Step => at' = "idle" \/ UNCHANGED <<at, run>>]_vars
  BY <1>1, <1>2, <1>3
<1> QED BY <1>4, Invariance, PTL DEF Spec
===============================================================================
