--------------------------- MODULE ExecutionProofs ---------------------------
(***************************************************************************)
(* Proofs about Execution, for any number of solves, tasks, timeouts and   *)
(* files of a mesh.  IInv types the state and keeps each solve within its  *)
(* wall budget and its attempts; PInv says what a solve and the entry of   *)
(* the cache have shown by the place they are at.                          *)
(***************************************************************************)
EXTENDS Execution, TLAPS

Exhausted == "EXECUTION_WALL_BUDGET_EXHAUSTED"

\* What a solve has used of its wall budget.  One that reports an exhausted
\* budget has ended, so that what it used stays what it was.
WithinWall(r, t) ==
  /\ r.used <= t.wall + Grace
  /\ r.status = Exhausted => r.used >= t.wall /\ r.at \in {"done", "crashed"}

\* A solve asks for a repair only while it has an attempt left.
WithinAttempts(r, t) ==
  /\ r.attempt <= t.attempts
  /\ r.at = "repair" => r.attempt < t.attempts

Good(r, t) == r \in Run /\ WithinAttempts(r, t) /\ WithinWall(r, t)

WorldOK ==
  /\ task \in [Solves -> Task]
  /\ entry \in [there : BOOLEAN, files : SUBSET Files, manifest : SUBSET Files]
  /\ sound \in BOOLEAN /\ rots \in 0..MaxRots /\ crashes \in 0..MaxCrashes

\* The inductive invariant.
IInv ==
  /\ WorldOK
  /\ run \in [Solves -> Run]
  /\ \A s \in Solves : Good(run[s], task[s])

LEMMA PlanTyped ==
  ASSUME NEW t, NEW skipped
  PROVE  Plan(t, skipped) \in Commands
<1>1. \A c \in Stages : Unless(c, skipped) \in Seq(Stages)
  BY DEF Unless
<1>2. {"mesh", "check", "decompose", "solve", "reconstruct", "postprocess"} = Stages
  BY DEF Stages
<1>3. /\ Unless("mesh", skipped) \in Seq(Stages)
      /\ Unless("solve", skipped) \in Seq(Stages)
  BY <1>1, <1>2
<1>4. /\ <<"check">> \in Seq(Stages) /\ <<"postprocess">> \in Seq(Stages)
      /\ <<>> \in Seq(Stages)
      /\ <<"decompose", "solve", "reconstruct">> \in Seq(Stages)
  BY <1>2
<1> QED BY <1>3, <1>4 DEF Plan, Commands

\* A step that gives one solve a well typed record keeps them all well typed.
LEMMA RunTyped ==
  ASSUME run \in [Solves -> Run], NEW s \in Solves, NEW r \in Run, Becomes(s, r)
  PROVE  /\ run' \in [Solves -> Run]
         /\ run'[s] = r
         /\ \A u \in Solves \ {s} : run'[u] = run[u]
  BY DEF Becomes

LEMMA GoneTyped ==
  ASSUME NEW r \in Run, NEW at \in Places
  PROVE  /\ Gone(r, at) \in Run
         /\ Gone(r, at).at = at /\ Gone(r, at).used = r.used
         /\ Gone(r, at).status = r.status /\ Gone(r, at).attempt = r.attempt
<1>1. /\ Frozen \in Nat /\ <<>> \in Commands /\ "none" \in Backends
      /\ 0 \in Fingerprints
  BY ExecutionAssumption
  DEF ExecutionAssumption, Commands, Backends, Fingerprints
<1>2. Gone(r, at) \in Run
  BY <1>1 DEF Gone, Run
<1>3. QED BY <1>2 DEF Gone, Run

LEMMA FinishTyped ==
  ASSUME NEW r \in Run, NEW status \in Statuses
  PROVE  /\ Finish(r, status) \in Run
         /\ Finish(r, status).at = "done" /\ Finish(r, status).used = r.used
         /\ Finish(r, status).status = status /\ Finish(r, status).attempt = r.attempt
<1>1. "done" \in Places
  BY DEF Places
<1>2. Gone(r, "done") \in Run
  BY <1>1, GoneTyped
<1> HIDE DEF Gone
<1>3. QED BY <1>1, <1>2, GoneTyped DEF Finish, Run

LEMMA TaskTyped ==
  ASSUME NEW t \in Task
  PROVE  t.wall \in Nat /\ t.attempts \in Nat /\ t.parallel \in BOOLEAN
BY DEF Task

LEMMA UsedTyped ==
  ASSUME NEW r \in Run
  PROVE  r.used \in Nat /\ r.attempt \in Nat /\ r.attempt >= 1
<1>1. r.used \in Nat /\ r.attempt \in Attempts
  BY DEF Run
<1> QED BY <1>1 DEF Attempts

\* A solve may end at any time, and with an exhausted budget only when nothing
\* is left of it.
LEMMA FinishGood ==
  ASSUME NEW r, NEW t, Good(r, t), NEW status \in Statuses,
         status = Exhausted => r.used >= t.wall
  PROVE  Good(Finish(r, status), t)
<1>1. r \in Run
  BY DEF Good
<1>2. /\ Finish(r, status) \in Run
      /\ Finish(r, status).at = "done" /\ Finish(r, status).used = r.used
      /\ Finish(r, status).status = status /\ Finish(r, status).attempt = r.attempt
  BY <1>1, FinishTyped
<1> HIDE DEF Finish
<1> QED BY <1>2 DEF Good, WithinAttempts, WithinWall

LEMMA CrashGood ==
  ASSUME NEW r, NEW t, Good(r, t)
  PROVE  Good(Gone(r, "crashed"), t)
<1>1. r \in Run /\ "crashed" \in Places
  BY DEF Good, Places
<1>2. /\ Gone(r, "crashed") \in Run
      /\ Gone(r, "crashed").at = "crashed" /\ Gone(r, "crashed").used = r.used
      /\ Gone(r, "crashed").status = r.status
      /\ Gone(r, "crashed").attempt = r.attempt
  BY <1>1, GoneTyped
<1> HIDE DEF Gone
<1> QED BY <1>2 DEF Good, WithinAttempts, WithinWall

LEMMA NewCaseTyped ==
  ASSUME NEW r \in Run, NEW t, NEW files \in SUBSET Files
  PROVE  /\ NewCase(r, t, files) \in Run
         /\ NewCase(r, t, files).at \in {"lookup", "policy"}
         /\ NewCase(r, t, files).used = r.used
         /\ NewCase(r, t, files).status = r.status
         /\ NewCase(r, t, files).attempt = r.attempt
<1> DEFINE at == IF r.attempt = 1 /\ t.cached THEN "lookup" ELSE "policy"
           rest == Plan(t, {})
<1>1. at \in Places /\ at \in {"lookup", "policy"}
  BY DEF Places
<1>2. rest \in Commands
  BY PlanTyped
<1>3. Unrun \in [Stages -> StepResults] /\ "none" \in Lookups
  BY DEF Unrun, StepResults, Lookups
<1> HIDE DEF at, rest
<1>4. NewCase(r, t, files)
        = [r EXCEPT !.at = at, !.rest = rest, !.reused = {}, !.result = Unrun,
                    !.made = {}, !.files = files, !.lookup = "none",
                    !.courant = FALSE, !.pending = FALSE]
  BY DEF NewCase, at, rest
<1>5. NewCase(r, t, files) \in Run
  BY <1>1, <1>2, <1>3, <1>4 DEF Run
<1>6. QED BY <1>1, <1>4, <1>5 DEF Run

LEMMA ReusedCaseTyped ==
  ASSUME NEW r \in Run, NEW t
  PROVE  /\ ReusedCase(r, t) \in Run
         /\ ReusedCase(r, t).at \in {"lookup", "policy"}
         /\ ReusedCase(r, t).used = r.used
         /\ ReusedCase(r, t).status = r.status
         /\ ReusedCase(r, t).attempt = r.attempt
<1> DEFINE skipped == SkippedStages(EarliestStage(t))
           new == NewCase(r, t, r.files)
           rest == Plan(t, skipped)
           made == r.made \cap skipped
<1>1. skipped \in SUBSET Stages
  BY DEF SkippedStages, EarliestStage, Stages
<1>2. r.files \in SUBSET Files /\ r.made \in SUBSET Stages
  BY DEF Run
<1>3. /\ new \in Run /\ new.at \in {"lookup", "policy"}
      /\ new.used = r.used /\ new.status = r.status /\ new.attempt = r.attempt
  BY <1>2, NewCaseTyped
<1>4. rest \in Commands /\ made \in SUBSET Stages
  BY <1>2, PlanTyped
<1>5. ReusedCase(r, t) = [new EXCEPT !.rest = rest, !.reused = skipped, !.made = made]
  BY DEF ReusedCase
<1> HIDE DEF skipped, new, rest, made
<1>6. ReusedCase(r, t) \in Run
  BY <1>1, <1>3, <1>4, <1>5 DEF Run
<1>7. QED BY <1>3, <1>5, <1>6 DEF Run

\* A step that uses no time and starts no repair keeps a solve within its limits.
LEMMA MovedGood ==
  ASSUME NEW r, NEW t, Good(r, t), r.at \notin {"done", "crashed"},
         NEW q \in Run, q.used = r.used, q.status = r.status,
         q.attempt = r.attempt, q.at # "repair"
  PROVE  Good(q, t)
BY DEF Good, WithinAttempts, WithinWall

LEMMA MaterialiseGood ==
  ASSUME IInv, NEW s \in Solves, Materialise(s)
  PROVE  \E r : Good(r, task[s]) /\ Becomes(s, r)
<1> DEFINE r == run[s]
           t == task[s]
<1>1. Good(r, t) /\ r \in Run /\ r.at = "materialise"
  BY DEF IInv, Good, Materialise
<1>2. ASSUME NEW files \in SUBSET Files
      PROVE  Good(NewCase(r, t, files), t)
  <2>1. /\ NewCase(r, t, files) \in Run
        /\ NewCase(r, t, files).at \in {"lookup", "policy"}
        /\ NewCase(r, t, files).used = r.used
        /\ NewCase(r, t, files).status = r.status
        /\ NewCase(r, t, files).attempt = r.attempt
    BY <1>1, NewCaseTyped
  <2> HIDE DEF r, t, NewCase
  <2> QED BY <1>1, <2>1, MovedGood
<1>3. Good(ReusedCase(r, t), t)
  <2>1. /\ ReusedCase(r, t) \in Run
        /\ ReusedCase(r, t).at \in {"lookup", "policy"}
        /\ ReusedCase(r, t).used = r.used
        /\ ReusedCase(r, t).status = r.status
        /\ ReusedCase(r, t).attempt = r.attempt
    BY <1>1, ReusedCaseTyped
  <2> HIDE DEF r, t, ReusedCase
  <2> QED BY <1>1, <2>1, MovedGood
<1>4. ASSUME NEW status \in {"CASE_GENERATION_FAILED", "STATIC_INSPECTION_FAILED"}
      PROVE  Good(Finish(r, status), t)
  <2>1. status \in Statuses /\ status # Exhausted
    BY DEF Statuses, Exhausted
  <2> HIDE DEF r, t, Finish
  <2> QED BY <1>1, <2>1, FinishGood
<1>5. r.files \in SUBSET Files
  BY <1>1 DEF Run
<1>6. \/ \E files \in SUBSET Files : Becomes(s, NewCase(r, t, files))
      \/ Becomes(s, ReusedCase(r, t))
      \/ \E status \in {"CASE_GENERATION_FAILED", "STATIC_INSPECTION_FAILED"} :
           Becomes(s, Finish(r, status))
  BY <1>5 DEF Materialise
<1> HIDE DEF r
<1> QED BY <1>2, <1>3, <1>4, <1>6

\* The steps that only move a solve on, or change what it holds of the mesh.
LEMMA CacheGood ==
  ASSUME IInv, NEW s \in Solves,
         \/ Lookup(s) \/ Quarantine(s) \/ RestoreFile(s) \/ RestoreHit(s)
         \/ RestoreFails(s) \/ ExtractEvidence(s) \/ StoreFile(s) \/ Publish(s)
         \/ StoreFails(s)
  PROVE  \E r : Good(r, task[s]) /\ Becomes(s, r)
<1> DEFINE r == run[s]
           t == task[s]
<1>1. Good(r, t) /\ r \in Run /\ entry.files \in SUBSET Files
  BY DEF IInv, Good, WorldOK
<1>2. /\ {"policy", "restore", "quarantine", "store", "publish", "assess"}
           \subseteq Places
      /\ {"miss", "hit"} \subseteq Lookups
      /\ {"mesh"} \in SUBSET Stages /\ Plan(t, {"mesh"}) \in Commands
  BY PlanTyped DEF Places, Lookups, Stages
<1>3. /\ r.at \notin {"done", "crashed"}
      /\ \E q \in Run : /\ q.used = r.used /\ q.status = r.status
                        /\ q.attempt = r.attempt /\ q.at # "repair"
                        /\ Becomes(s, q)
  <2> DEFINE rest == Plan(t, {"mesh"})
  <2>0. rest \in Commands
    BY <1>2
  <2>1. CASE Lookup(s)
    <3>1. PICK at \in {"policy", "restore", "quarantine"}, lookup \in {r.lookup, "miss"} :
            Becomes(s, [r EXCEPT !.at = at, !.lookup = lookup])
      <4>1. r.lookup \in Lookups /\ r = [r EXCEPT !.lookup = r.lookup]
        BY <1>1 DEF Run
      <4>2. \A at : [r EXCEPT !.at = at] = [r EXCEPT !.at = at, !.lookup = r.lookup]
        BY <1>1 DEF Run
      <4> QED BY <2>1, <4>2 DEF Lookup
    <3>2. lookup \in Lookups
      BY <1>1, <1>2 DEF Run
    <3>3. [r EXCEPT !.at = at, !.lookup = lookup] \in Run
      BY <1>1, <1>2, <3>2 DEF Run
    <3> DEFINE q == [r EXCEPT !.at = at, !.lookup = lookup]
    <3>4. q.used = r.used /\ q.status = r.status /\ q.attempt = r.attempt /\ q.at = at
      BY <1>1 DEF Run
    <3>5. r.at \notin {"done", "crashed"}
      BY <2>1 DEF Lookup
    <3> QED BY <3>1, <3>3, <3>4, <3>5
  <2>2. CASE Quarantine(s)
    <3> DEFINE q == [r EXCEPT !.at = "policy", !.lookup = "miss"]
    <3>1. q \in Run
      BY <1>1, <1>2 DEF Run
    <3>2. q.used = r.used /\ q.status = r.status /\ q.attempt = r.attempt /\ q.at = "policy"
      BY <1>1 DEF Run
    <3> QED BY <2>2, <3>1, <3>2 DEF Quarantine
  <2>3. CASE RestoreFile(s)
    <3>1. PICK f \in entry.files : Becomes(s, [r EXCEPT !.files = @ \cup {f}])
      BY <2>3 DEF RestoreFile
    <3> DEFINE files == r.files \cup {f}
               q == [r EXCEPT !.files = files]
    <3>2. files \in SUBSET Files
      BY <1>1 DEF Run
    <3>3. q = [r EXCEPT !.files = @ \cup {f}]
      OBVIOUS
    <3>4. q \in Run
      <4> HIDE DEF files
      <4> QED BY <1>1, <3>2 DEF Run
    <3>5. q.used = r.used /\ q.status = r.status /\ q.attempt = r.attempt /\ q.at = r.at
      BY <1>1 DEF Run
    <3> QED BY <2>3, <3>1, <3>3, <3>4, <3>5 DEF RestoreFile
  <2>4. CASE RestoreHit(s)
    <3> DEFINE q == [r EXCEPT !.at = "policy", !.lookup = "hit", !.reused = {"mesh"},
                              !.made = {"mesh"}, !.rest = rest]
    <3>1. Becomes(s, q) /\ r.at = "restore"
      BY <2>4 DEF RestoreHit
    <3> HIDE DEF rest
    <3>2. q \in Run
      BY <1>1, <1>2, <2>0 DEF Run
    <3>3. q.used = r.used /\ q.status = r.status /\ q.attempt = r.attempt /\ q.at = "policy"
      BY <1>1 DEF Run
    <3> QED BY <3>1, <3>2, <3>3
  <2>5. CASE RestoreFails(s)
    <3> DEFINE q == [r EXCEPT !.at = "policy", !.lookup = "miss", !.files = {}]
    <3>1. q \in Run
      BY <1>1, <1>2 DEF Run
    <3>2. q.used = r.used /\ q.status = r.status /\ q.attempt = r.attempt /\ q.at = "policy"
      BY <1>1 DEF Run
    <3> QED BY <2>5, <3>1, <3>2 DEF RestoreFails
  <2>6. CASE ExtractEvidence(s)
    <3>1. PICK at \in {"store", "assess"} : Becomes(s, [r EXCEPT !.at = at])
      BY <2>6 DEF ExtractEvidence
    <3> DEFINE q == [r EXCEPT !.at = at]
    <3>2. q \in Run
      BY <1>1, <1>2 DEF Run
    <3>3. q.used = r.used /\ q.status = r.status /\ q.attempt = r.attempt /\ q.at = at
      BY <1>1 DEF Run
    <3> QED BY <2>6, <3>1, <3>2, <3>3 DEF ExtractEvidence
  <2>7. CASE StoreFile(s)
    <3>1. CASE Becomes(s, [r EXCEPT !.at = "publish"])
      <4> DEFINE q == [r EXCEPT !.at = "publish"]
      <4>1. q \in Run
        BY <1>1, <1>2 DEF Run
      <4>2. q.used = r.used /\ q.status = r.status /\ q.attempt = r.attempt /\ q.at = "publish"
        BY <1>1 DEF Run
      <4> QED BY <2>7, <3>1, <4>1, <4>2 DEF StoreFile
    <3>2. ASSUME NEW f \in r.files, Becomes(s, [r EXCEPT !.temporary = @ \cup {f}])
          PROVE  \E q \in Run : /\ q.used = r.used /\ q.status = r.status
                               /\ q.attempt = r.attempt /\ q.at # "repair"
                               /\ Becomes(s, q)
      <4> DEFINE temporary == r.temporary \cup {f}
                 q == [r EXCEPT !.temporary = temporary]
      <4>1. temporary \in SUBSET Files
        BY <1>1 DEF Run
      <4>2. Becomes(s, q)
        BY <3>2
      <4>3. q \in Run
        <5> HIDE DEF temporary
        <5> QED BY <1>1, <4>1 DEF Run
      <4>4. q.used = r.used /\ q.status = r.status /\ q.attempt = r.attempt /\ q.at = r.at
        BY <1>1 DEF Run
      <4> QED BY <2>7, <4>2, <4>3, <4>4 DEF StoreFile
    <3>3. r.at = "store"
      BY <2>7 DEF StoreFile
    <3> QED BY <2>7, <3>1, <3>2, <3>3 DEF StoreFile
  <2>8. CASE Publish(s) \/ StoreFails(s)
    <3> DEFINE q == [r EXCEPT !.at = "assess", !.temporary = {}]
    <3>1. q \in Run
      BY <1>1, <1>2 DEF Run
    <3>2. q.used = r.used /\ q.status = r.status /\ q.attempt = r.attempt /\ q.at = "assess"
      BY <1>1 DEF Run
    <3> QED BY <2>8, <3>1, <3>2 DEF Publish, StoreFails
  <2> QED BY <2>1, <2>2, <2>3, <2>4, <2>5, <2>6, <2>7, <2>8
<1> HIDE DEF r, t
<1>4. \A q \in Run : /\ q.used = r.used /\ q.status = r.status
                     /\ q.attempt = r.attempt /\ q.at # "repair"
                     => Good(q, t)
  BY <1>1, <1>3, MovedGood
<1> QED BY <1>3, <1>4 DEF t

LEMMA FreezePolicyGood ==
  ASSUME IInv, NEW s \in Solves, FreezePolicy(s)
  PROVE  \E r : Good(r, task[s]) /\ Becomes(s, r)
<1> DEFINE r == run[s]
           t == task[s]
<1>1. Good(r, t) /\ r \in Run /\ r.at = "policy"
  BY DEF IInv, Good, FreezePolicy
<1>2. PICK probe \in {"passed", "BWRAP_UNAVAILABLE", "PROBE_FAILED"} :
        LET backend == Backend(t, probe)
        IN  Becomes(s, IF backend = "none" THEN Finish(r, "BLOCKED_ENVIRONMENT")
                       ELSE [r EXCEPT !.at = "runner", !.backend = backend])
  BY DEF FreezePolicy
<1> DEFINE backend == Backend(t, probe)
           q == [r EXCEPT !.at = "runner", !.backend = backend]
<1>3. backend \in Backends /\ "runner" \in Places
  BY <1>2, Z3 DEF Backend, Backends, Places
<1>4. Good(Finish(r, "BLOCKED_ENVIRONMENT"), t)
  <2>1. "BLOCKED_ENVIRONMENT" \in Statuses /\ "BLOCKED_ENVIRONMENT" # Exhausted
    BY DEF Statuses, Exhausted
  <2> HIDE DEF r, t, Finish
  <2> QED BY <1>1, <2>1, FinishGood
<1>5. Good(q, t)
  <2> HIDE DEF r, backend
  <2>1. q \in Run
    BY <1>1, <1>3 DEF Run
  <2>2. q.used = r.used /\ q.status = r.status /\ q.attempt = r.attempt /\ q.at = "runner"
    BY <1>1 DEF Run
  <2> HIDE DEF q, t
  <2> QED BY <1>1, <2>1, <2>2, MovedGood
<1> QED BY <1>2, <1>4, <1>5

LEMMA SteppedTyped ==
  ASSUME NEW r \in Run, r.rest # <<>>, NEW c \in Stages, NEW o \in StepResults,
         NEW seconds \in Nat, NEW files \in SUBSET Files,
         NEW courant \in BOOLEAN
  PROVE  /\ Stepped(r, c, o, seconds, files, courant) \in Run
         /\ Stepped(r, c, o, seconds, files, courant).at = r.at
         /\ Stepped(r, c, o, seconds, files, courant).used = r.used + seconds
         /\ Stepped(r, c, o, seconds, files, courant).status = r.status
         /\ Stepped(r, c, o, seconds, files, courant).attempt = r.attempt
<1> DEFINE rest == IF Succeeds(o) THEN Tail(r.rest) ELSE <<>>
           result == [r.result EXCEPT ![c] = o]
           used == r.used + seconds
           made == IF o = "ok" THEN r.made \cup {c} ELSE r.made
<1>1. rest \in Commands
  <2>1. r.rest \in Seq(Stages)
    BY DEF Run, Commands
  <2>2. Tail(r.rest) \in Seq(Stages)
    BY <2>1
  <2> QED BY <2>2 DEF Commands
<1>2. result \in [Stages -> StepResults] /\ used \in Nat /\ made \in SUBSET Stages
  BY DEF Run
<1>3. Stepped(r, c, o, seconds, files, courant)
        = [r EXCEPT !.rest = rest, !.result = result, !.used = used, !.files = files,
                    !.courant = courant, !.made = made]
  BY DEF Stepped, Run
<1> HIDE DEF rest, result, made
<1>4. Stepped(r, c, o, seconds, files, courant) \in Run
  <2> HIDE DEF used
  <2> QED BY <1>1, <1>2, <1>3 DEF Run
<1> QED BY <1>3, <1>4 DEF Run

\* The next command, its limit, and what is left of the wall budget.
LEMMA LimitTyped ==
  ASSUME IInv, NEW s \in Solves, run[s].rest # <<>>, Remaining(s) > 0
  PROVE  LET c == Head(run[s].rest)
         IN  /\ c \in Stages /\ Own[c] \in Nat /\ Limit(s, c) \in Nat
             /\ Limit(s, c) <= Remaining(s)
             /\ Limit(s, c) < Own[c] => Limit(s, c) = Remaining(s)
<1> DEFINE c == Head(run[s].rest)
<1>1. run[s] \in Run /\ task[s] \in Task
  BY DEF IInv, WorldOK
<1>2. Remaining(s) \in Int
  BY <1>1, UsedTyped, TaskTyped DEF Remaining
<1>3. c \in Stages
  BY <1>1 DEF Run, Commands
<1>4. Own[c] \in Nat
  BY <1>3, ExecutionAssumption DEF ExecutionAssumption
<1> HIDE DEF c
<1>5. /\ Limit(s, c) \in Nat /\ Limit(s, c) <= Remaining(s)
      /\ Limit(s, c) < Own[c] => Limit(s, c) = Remaining(s)
  BY <1>2, <1>4 DEF Limit
<1> QED BY <1>3, <1>4, <1>5 DEF c

LEMMA StepEndsGood ==
  ASSUME IInv, NEW s \in Solves, StepEnds(s)
  PROVE  \E r : Good(r, task[s]) /\ Becomes(s, r)
<1> DEFINE r == run[s]
           t == task[s]
           c == Head(r.rest)
<1>1. Good(r, t) /\ r \in Run /\ t \in Task
  BY DEF IInv, Good, WorldOK
<1>2. r.at = "runner" /\ r.rest # <<>> /\ Remaining(s) > 0
  BY DEF StepEnds
<1>3. PICK o \in Outcomes(s, c), seconds \in 1..Limit(s, c) :
        \E files \in FilesAfter(r, c, o), courant \in CourantAfter(r, c) :
          Becomes(s, Stepped(r, c, o, seconds, files, courant))
  BY DEF StepEnds
<1>4. PICK files \in FilesAfter(r, c, o), courant \in CourantAfter(r, c) :
        Becomes(s, Stepped(r, c, o, seconds, files, courant))
  BY <1>3
<1>5. c \in Stages /\ Limit(s, c) \in Nat /\ Limit(s, c) <= Remaining(s)
  BY <1>2, LimitTyped
<1>6. o \in StepResults /\ files \in SUBSET Files /\ courant \in BOOLEAN
  <2>1. o \in StepResults
    BY <1>3 DEF Outcomes, StepResults
  <2>2. r.files \in SUBSET Files /\ r.courant \in BOOLEAN
    BY <1>1 DEF Run
  <2> HIDE DEF r, c
  <2>3. files \in SUBSET Files
    BY <2>2 DEF FilesAfter
  <2>4. courant \in BOOLEAN
    BY <2>2 DEF CourantAfter
  <2> QED BY <2>1, <2>3, <2>4
<1> DEFINE q == Stepped(r, c, o, seconds, files, courant)
<1>7. seconds \in Nat
  BY <1>3, <1>5
<1>8. /\ q \in Run /\ q.at = r.at /\ q.used = r.used + seconds
      /\ q.status = r.status /\ q.attempt = r.attempt
  <2> HIDE DEF r, c
  <2> QED BY <1>1, <1>2, <1>5, <1>6, <1>7, SteppedTyped
<1>9. q.used <= t.wall + Grace
  <2>1. r.used \in Nat /\ t.wall \in Nat /\ Grace \in Nat
    BY <1>1, UsedTyped, TaskTyped, ExecutionAssumption DEF ExecutionAssumption
  <2>2. seconds <= t.wall - r.used
    BY <1>3, <1>5, <2>1 DEF Remaining
  <2> HIDE DEF q, r, t
  <2> QED BY <1>7, <1>8, <2>1, <2>2
<1>10. Good(q, t)
  <2> HIDE DEF q, r, t
  <2> QED BY <1>1, <1>2, <1>8, <1>9 DEF Good, WithinAttempts, WithinWall
<1> QED BY <1>4, <1>10

LEMMA StepTimesOutGood ==
  ASSUME IInv, NEW s \in Solves, StepTimesOut(s)
  PROVE  \E r : Good(r, task[s]) /\ Becomes(s, r)
<1> DEFINE r == run[s]
           t == task[s]
           c == Head(r.rest)
<1>1. Good(r, t) /\ r \in Run /\ t \in Task
  BY DEF IInv, Good, WorldOK
<1>2. r.at = "runner" /\ r.rest # <<>> /\ Remaining(s) > 0
  BY DEF StepTimesOut
<1>3. PICK seconds \in Limit(s, c)..(Limit(s, c) + Grace) :
        \E files \in FilesAfter(r, c, "timeout"), courant \in CourantAfter(r, c) :
          LET stopped == Stepped(r, c, "timeout", seconds, files, courant)
          IN  Becomes(s, IF Limit(s, c) < Own[c] THEN Finish(stopped, Exhausted)
                         ELSE stopped)
  BY DEF StepTimesOut, Exhausted
<1>4. PICK files \in FilesAfter(r, c, "timeout"), courant \in CourantAfter(r, c) :
        LET stopped == Stepped(r, c, "timeout", seconds, files, courant)
        IN  Becomes(s, IF Limit(s, c) < Own[c] THEN Finish(stopped, Exhausted)
                       ELSE stopped)
  BY <1>3
<1>5. /\ c \in Stages /\ Limit(s, c) \in Nat /\ Limit(s, c) <= Remaining(s)
      /\ Limit(s, c) < Own[c] => Limit(s, c) = Remaining(s)
  BY <1>2, LimitTyped
<1>6. "timeout" \in StepResults /\ files \in SUBSET Files /\ courant \in BOOLEAN
  <2>1. "timeout" \in StepResults
    BY DEF StepResults
  <2>2. r.files \in SUBSET Files /\ r.courant \in BOOLEAN
    BY <1>1 DEF Run
  <2> HIDE DEF r, c
  <2>3. files \in SUBSET Files
    BY <2>2 DEF FilesAfter
  <2>4. courant \in BOOLEAN
    BY <2>2 DEF CourantAfter
  <2> QED BY <2>1, <2>3, <2>4
<1> DEFINE q == Stepped(r, c, "timeout", seconds, files, courant)
<1>7. Grace \in Nat /\ seconds \in Nat /\ r.used \in Nat /\ t.wall \in Nat
  BY <1>1, <1>3, <1>5, UsedTyped, TaskTyped, ExecutionAssumption
  DEF ExecutionAssumption
<1>8. /\ q \in Run /\ q.at = r.at /\ q.used = r.used + seconds
      /\ q.status = r.status /\ q.attempt = r.attempt
  <2> HIDE DEF r, c
  <2> QED BY <1>1, <1>2, <1>5, <1>6, <1>7, SteppedTyped
<1>9. /\ q.used <= t.wall + Grace
      /\ Limit(s, c) < Own[c] => q.used >= t.wall
  <2>1. /\ seconds >= Limit(s, c) /\ seconds <= Limit(s, c) + Grace
        /\ Remaining(s) = t.wall - r.used
    BY <1>3, <1>5, <1>7 DEF Remaining
  <2> HIDE DEF q, r, t, c
  <2> QED BY <1>5, <1>7, <1>8, <2>1
<1>10. Good(q, t)
  <2> HIDE DEF q, r, t
  <2> QED BY <1>1, <1>2, <1>8, <1>9 DEF Good, WithinAttempts, WithinWall
<1>11. CASE Limit(s, c) < Own[c]
  <2>1. Good(Finish(q, Exhausted), t)
    <3>1. Exhausted \in Statuses
      BY DEF Statuses, Exhausted
    <3> HIDE DEF q, t, Finish, c
    <3> QED BY <1>9, <1>10, <1>11, <3>1, FinishGood
  <2> QED BY <1>4, <1>11, <2>1
<1>12. CASE ~(Limit(s, c) < Own[c])
  BY <1>4, <1>10, <1>12
<1> QED BY <1>11, <1>12

LEMMA RunnerStopsGood ==
  ASSUME IInv, NEW s \in Solves, RunnerStops(s)
  PROVE  \E r : Good(r, task[s]) /\ Becomes(s, r)
<1> DEFINE r == run[s]
           t == task[s]
<1>1. Good(r, t) /\ r \in Run /\ t \in Task /\ r.at = "runner" /\ r.rest # <<>>
  BY DEF IInv, Good, WorldOK, RunnerStops
<1>2. /\ {Exhausted, "CANCELLED", "BLOCKED_ENVIRONMENT"} \subseteq Statuses
      /\ Exhausted \notin {"CANCELLED", "BLOCKED_ENVIRONMENT"}
  BY DEF Statuses, Exhausted
<1>3. CASE Remaining(s) <= 0 /\ Becomes(s, Finish(r, Exhausted))
  <2>1. r.used >= t.wall
    BY <1>1, <1>3, UsedTyped, TaskTyped DEF Remaining
  <2>2. Good(Finish(r, Exhausted), t)
    <3> HIDE DEF r, t, Finish
    <3> QED BY <1>1, <1>2, <2>1, FinishGood
  <2> QED BY <1>3, <2>2
<1>4. CASE Becomes(s, Finish([r EXCEPT !.result[Head(r.rest)] = "cancelled"], "CANCELLED"))
  <2> DEFINE result == [r.result EXCEPT ![Head(r.rest)] = "cancelled"]
             q == [r EXCEPT !.result = result]
  <2>1. result \in [Stages -> StepResults]
    BY <1>1 DEF Run, StepResults
  <2>2. q = [r EXCEPT !.result[Head(r.rest)] = "cancelled"]
    BY <1>1 DEF Run
  <2>3. q \in Run
    <3> HIDE DEF r, result
    <3> QED BY <1>1, <2>1 DEF Run
  <2>4. q.used = r.used /\ q.status = r.status /\ q.attempt = r.attempt /\ q.at = r.at
    <3> HIDE DEF r, result
    <3> QED BY <1>1 DEF Run
  <2>5. Good(q, t)
    <3> HIDE DEF q, r, t
    <3> QED BY <1>1, <2>3, <2>4, MovedGood
  <2>6. Good(Finish(q, "CANCELLED"), t)
    <3> HIDE DEF q, r, t, Finish
    <3> QED BY <1>2, <2>5, FinishGood
  <2> QED BY <1>4, <2>2, <2>6
<1>5. CASE Becomes(s, Finish(r, "BLOCKED_ENVIRONMENT"))
  <2>1. Good(Finish(r, "BLOCKED_ENVIRONMENT"), t)
    <3> HIDE DEF r, t, Finish
    <3> QED BY <1>1, <1>2, FinishGood
  <2> QED BY <1>5, <2>1
<1> QED BY <1>3, <1>4, <1>5 DEF RunnerStops, Exhausted

LEMMA AssessGood ==
  ASSUME IInv, NEW s \in Solves, Assess(s)
  PROVE  \E r : Good(r, task[s]) /\ Becomes(s, r)
<1> DEFINE r == run[s]
           t == task[s]
           status == AssessNativeRun(r, t)
<1>1. Good(r, t) /\ r \in Run /\ t \in Task /\ r.at = "assess"
  BY DEF IInv, Good, WorldOK, Assess
<1>2. /\ {status, "RUN_COMPLETED", "ACCEPTANCE_FAILED"} \subseteq Statuses
      /\ Exhausted \notin {status, "RUN_COMPLETED", "ACCEPTANCE_FAILED"}
  BY DEF AssessNativeRun, Statuses, Exhausted
<1> HIDE DEF status
<1>3. ASSUME NEW verdict \in {status, "RUN_COMPLETED", "ACCEPTANCE_FAILED"}
      PROVE  Good(Finish(r, verdict), t)
  <2> HIDE DEF r, t, Finish
  <2> QED BY <1>1, <1>2, FinishGood
<1>4. ASSUME NEW fingerprint \in 1..2, ~ShouldStop(r, t, fingerprint)
      PROVE  Good([r EXCEPT !.at = "repair", !.fingerprint = fingerprint], t)
  <2> DEFINE q == [r EXCEPT !.at = "repair", !.fingerprint = fingerprint]
  <2>1. "repair" \in Places /\ fingerprint \in Fingerprints
    BY DEF Places, Fingerprints
  <2>2. r.attempt < t.attempts
    BY <1>1, <1>4, UsedTyped, TaskTyped DEF ShouldStop
  <2>3. q \in Run
    <3> HIDE DEF r
    <3> QED BY <1>1, <2>1 DEF Run
  <2>4. q.used = r.used /\ q.status = r.status /\ q.attempt = r.attempt /\ q.at = "repair"
    <3> HIDE DEF r
    <3> QED BY <1>1 DEF Run
  <2>5. Good(q, t)
    <3> HIDE DEF q, r, t
    <3> QED BY <1>1, <2>2, <2>3, <2>4 DEF Good, WithinAttempts, WithinWall
  <2> QED BY <2>5
<1>5. \/ \E verdict \in {status, "RUN_COMPLETED", "ACCEPTANCE_FAILED"} :
           Becomes(s, Finish(r, verdict))
      \/ \E fingerprint \in 1..2 :
           /\ ~ShouldStop(r, t, fingerprint)
           /\ Becomes(s, [r EXCEPT !.at = "repair", !.fingerprint = fingerprint])
  BY DEF Assess, status
<1>6. CASE \E verdict \in {status, "RUN_COMPLETED", "ACCEPTANCE_FAILED"} :
             Becomes(s, Finish(r, verdict))
  BY <1>3, <1>6
<1>7. CASE \E fingerprint \in 1..2 :
             /\ ~ShouldStop(r, t, fingerprint)
             /\ Becomes(s, [r EXCEPT !.at = "repair", !.fingerprint = fingerprint])
  BY <1>4, <1>7
<1> QED BY <1>5, <1>6, <1>7

LEMMA RepairGood ==
  ASSUME IInv, NEW s \in Solves, Repair(s)
  PROVE  \E r : Good(r, task[s]) /\ Becomes(s, r)
<1> DEFINE r == run[s]
           t == task[s]
<1>1. Good(r, t) /\ r \in Run /\ t \in Task /\ r.at = "repair"
  BY DEF IInv, Good, WorldOK, Repair
<1>2. ASSUME NEW status \in {"SOLVER_FAILED", "CANCELLED"}
      PROVE  Good(Finish(r, status), t)
  <2>1. status \in Statuses /\ status # Exhausted
    BY DEF Statuses, Exhausted
  <2> HIDE DEF r, t, Finish
  <2> QED BY <1>1, <2>1, FinishGood
<1>3. ASSUME NEW new \in 0..(Frozen + 1)
     
            PROVE  Good([r EXCEPT !.at = "materialise", !.attempt = @ + 1,
            !.delta = new,
                            !.pending = TRUE], t)
  <2> DEFINE attempt == r.attempt + 1
             q == [r EXCEPT !.at = "materialise", !.attempt = attempt, !.delta = new,
                            !.pending = TRUE]
  <2>1. "materialise" \in Places /\ new \in Nat
    BY ExecutionAssumption DEF ExecutionAssumption, Places
  <2>2. attempt \in Attempts /\ attempt <= t.attempts
    BY <1>1, UsedTyped, TaskTyped DEF Attempts, Good, WithinAttempts
  <2>3. q \in Run
    <3> HIDE DEF r, attempt
    <3> QED BY <1>1, <2>1, <2>2 DEF Run
  <2>4. q.used = r.used /\ q.status = r.status /\ q.attempt = attempt /\ q.at = "materialise"
    <3> HIDE DEF r, attempt
    <3> QED BY <1>1 DEF Run
  <2>5. Good(q, t)
    <3> HIDE DEF q, r, t, attempt
    <3> QED BY <1>1, <2>2, <2>3, <2>4 DEF Good, WithinAttempts, WithinWall
  <2> QED BY <2>5
<1>4. \/ \E new \in 0..(Frozen + 1) :
           Becomes(s, [r EXCEPT !.at = "materialise", !.attempt = @ + 1,
           !.delta = new,
                                !.pending = TRUE])
      \/ \E status \in {"SOLVER_FAILED", "CANCELLED"} : Becomes(s, Finish(r, status))
  BY DEF Repair
<1> HIDE DEF r, t
<1> QED BY <1>2, <1>3, <1>4 DEF t

\* A solve whose record stays within its limits keeps the whole invariant.
LEMMA WorldKept ==
  ASSUME IInv, WorldOK', UNCHANGED task,
         \/ UNCHANGED run
         \/ \E s \in Solves : \E r : Good(r, task[s]) /\ Becomes(s, r)
  PROVE  IInv'
<1>1. CASE UNCHANGED run
  BY <1>1 DEF IInv
<1>2. CASE \E s \in Solves : \E r : Good(r, task[s]) /\ Becomes(s, r)
  <2>0. PICK s \in Solves : \E r : Good(r, task[s]) /\ Becomes(s, r)
    BY <1>2
  <2>1. PICK r : Good(r, task[s]) /\ Becomes(s, r)
    BY <2>0
  <2>2. r \in Run
    BY <2>1 DEF Good
  <2>3. /\ run' \in [Solves -> Run] /\ run'[s] = r
        /\ \A u \in Solves \ {s} : run'[u] = run[u]
    BY <2>1, <2>2, RunTyped DEF IInv
  <2>4. \A u \in Solves : Good(run'[u], task'[u])
    BY <2>1, <2>3 DEF IInv
  <2> QED BY <2>3, <2>4 DEF IInv
<1> QED BY <1>1, <1>2

LEMMA InitGood == Init => IInv
<1> SUFFICES ASSUME Init PROVE IInv
  OBVIOUS
<1>1. task \in [Solves -> Task]
  BY ExecutionAssumption DEF Init, ExecutionAssumption
<1>2. WorldOK
  BY <1>1, ExecutionAssumption DEF Init, ExecutionAssumption, WorldOK, NoEntry
<1>3. NewRun \in Run
  <2>1. /\ "materialise" \in Places /\ 1 \in Attempts /\ <<>> \in Commands
        /\ Unrun \in [Stages -> StepResults] /\ "none" \in Lookups
        /\ "none" \in Backends /\ Frozen \in Nat /\ 0 \in Fingerprints
        /\ "NONE" \in Statuses
    BY ExecutionAssumption
    DEF ExecutionAssumption, Places, Attempts, Commands, Unrun,
       StepResults, Lookups, Backends, Fingerprints, Statuses
  <2> QED BY <2>1 DEF NewRun, Run
<1>4. /\ NewRun.at = "materialise" /\ NewRun.attempt = 1 /\ NewRun.used = 0
      /\ NewRun.status = "NONE"
  BY DEF NewRun
<1>5. ASSUME NEW s \in Solves PROVE Good(NewRun, task[s])
  <2>1. task[s].wall \in Nat /\ task[s].attempts \in Nat /\ task[s].attempts >= 1
    BY <1>1 DEF Task
  <2>2. Grace \in Nat
    BY ExecutionAssumption DEF ExecutionAssumption
  <2> QED BY <1>3, <1>4, <2>1, <2>2 DEF Good, WithinAttempts, WithinWall, Exhausted
<1> QED BY <1>2, <1>3, <1>5 DEF Init, IInv

LEMMA NextGood == IInv /\ [Next]_vars => IInv'
<1> SUFFICES ASSUME IInv, [Next]_vars PROVE IInv'
  OBVIOUS
<1>1. ASSUME NEW s \in Solves, Advance(s) PROVE IInv'
  <2>1. \E r : Good(r, task[s]) /\ Becomes(s, r)
    BY <1>1, MaterialiseGood, CacheGood, FreezePolicyGood, StepEndsGood,
       StepTimesOutGood, RunnerStopsGood, AssessGood, RepairGood DEF Advance
  <2>2. UNCHANGED <<task, sound, rots, crashes>>
    BY <1>1
    DEF Advance, Materialise, Lookup, Quarantine, RestoreFile, RestoreHit,
       RestoreFails, FreezePolicy, StepEnds, StepTimesOut, RunnerStops,
       ExtractEvidence, StoreFile, Publish, StoreFails, Assess, Repair, Alone
  <2>3. WorldOK'
    <3>1. CASE Publish(s)
      <4>1. run[s].temporary \in SUBSET Files
        BY DEF IInv, Run
      <4> QED BY <2>2, <3>1, <4>1 DEF Publish, IInv, WorldOK
    <3>2. CASE Quarantine(s)
      <4>1. NoEntry \in [there : BOOLEAN, files : SUBSET Files, manifest : SUBSET Files]
        BY DEF NoEntry
      <4>2. entry' \in {NoEntry, entry}
        BY <3>2 DEF Quarantine
      <4> QED BY <2>2, <4>1, <4>2 DEF IInv, WorldOK
    <3>3. CASE ~Publish(s) /\ ~Quarantine(s)
      <4>1. UNCHANGED entry
        BY <1>1, <3>3 DEF Advance, Materialise, Lookup, RestoreFile, RestoreHit,
           RestoreFails, FreezePolicy, StepEnds, StepTimesOut, RunnerStops,
           ExtractEvidence, StoreFile, StoreFails, Assess, Repair, Alone
      <4> QED BY <2>2, <4>1 DEF IInv, WorldOK
    <3> QED BY <3>1, <3>2, <3>3
  <2> QED BY <2>1, <2>2, <2>3, WorldKept
<1>2. ASSUME NEW s \in Solves, Crash(s) PROVE IInv'
  <2>1. Good(Gone(run[s], "crashed"), task[s])
    BY CrashGood DEF IInv
  <2>2. WorldOK' /\ UNCHANGED task
    BY <1>2, ExecutionAssumption DEF Crash, IInv, WorldOK, ExecutionAssumption
  <2>3. Becomes(s, Gone(run[s], "crashed"))
    BY <1>2 DEF Crash
  <2> QED BY <2>1, <2>2, <2>3, WorldKept
<1>3. ASSUME Rot PROVE IInv'
  <2>1. WorldOK' /\ UNCHANGED <<task, run>>
    BY <1>3, ExecutionAssumption DEF Rot, IInv, WorldOK, ExecutionAssumption
  <2> QED BY <2>1, WorldKept
<1>4. ASSUME UNCHANGED vars PROVE IInv'
  <2>1. WorldOK' /\ UNCHANGED <<task, run>>
    BY <1>4 DEF vars, IInv, WorldOK
  <2> QED BY <2>1, WorldKept
<1> QED BY <1>1, <1>2, <1>3, <1>4 DEF Next

\* The commands of all attempts of a solve stay in the wall budget of its task,
\* but for the grace period of the last one that was stopped, and no solve says
\* that it has exhausted a budget of which something is left.
THEOREM WallBudgetHolds == Spec => []WallBudget
<1>1. IInv => WallBudget
  BY DEF IInv, Good, WithinWall, WallBudget, Exhausted
<1> QED BY <1>1, InitGood, NextGood, PTL DEF Spec

\* Every state is well typed, and no solve makes more attempts than it has.
THEOREM TypeCorrect == Spec => []TypeOK
<1>1. IInv => TypeOK
  BY DEF IInv, WorldOK, Good, WithinAttempts, TypeOK
<1> QED BY <1>1, InitGood, NextGood, PTL DEF Spec
-----------------------------------------------------------------------------
(* What a solve may take for proven.                                        *)

\* The mesh commands are the first of what is left to run, and the check
\* follows them at once.
Ordered(rest) ==
  /\ \A i \in 1..Len(rest) :
       /\ rest[i] = "mesh" => i = 1
       /\ rest[i] = "check" => i = 1 \/ (i = 2 /\ rest[1] = "mesh")
  /\ rest # <<>> /\ rest[1] = "mesh" => Len(rest) >= 2 /\ rest[2] = "check"

\* An element of a sequence.
Has(p, c) == \E i \in 1..Len(p) : p[i] = c

Later == Stages \ {"mesh", "check"}
Passed == {"ok", "silent"}

\* Nothing is proved before the mesh was made and its check has passed; a mesh
\* that passed is whole, and so is one from the cache.
Shown(r, snd) ==
  /\ \A c \in Later : r.result[c] # "none" => r.result["check"] \in Passed
  /\ r.result["check"] # "none" => "mesh" \in r.made
  /\ \A c \in Stages : r.result[c] \in {"silent", "refused"} => c = "check"
  /\ r.result["check"] \in Passed => r.files = Files
  /\ r.result["check"] = "ok" => snd
  /\ r.lookup = "hit" =>
       r.files = Files /\ snd /\ r.result["check"] \notin {"failed", "refused"}
  /\ r.reused \ {"solve"} \subseteq r.made

\* What is left to run agrees with what was run, and nothing is left after a
\* command that did not succeed.
Failures == {"refused", "unstable", "failed", "timeout"}

Ahead(r) ==
  /\ Ordered(r.rest)
  /\ r.rest # <<>> =>
       /\ r.rest[1] = "mesh" =>
            r.lookup # "hit" /\ \A c \in Stages : r.result[c] = "none"
       /\ r.rest[1] = "check" =>
            "mesh" \in r.made /\ \A c \in Stages \ {"mesh"} : r.result[c] = "none"
       /\ r.rest[1] \in Later => r.result["check"] \in Passed
       /\ \A c \in Stages : r.result[c] \notin Failures

\* The solve that is due will run, unless a command before it does not succeed.
Accounted(r, t) ==
  /\ \A c \in Stages : r.result[c] = "cancelled" => r.at = "done"
  /\ /\ r.at \notin {"materialise", "repair", "done", "crashed"}
     /\ t.solver /\ "solve" \notin r.reused /\ r.result["solve"] = "none"
     => \/ Has(r.rest, "solve")
        \/ \E c \in Stages : r.result[c] \in Failures

\* A repair has a mesh to reuse.
Reuses(r) ==
  /\ r.at = "repair" \/ r.pending => "mesh" \in r.made
  /\ r.pending => r.attempt > 1

\* A case that is looked up holds nothing yet; one that is stored was accepted.
Cached(r) ==
  /\ r.at \in {"lookup", "quarantine", "restore"} =>
       r.lookup = "none" /\ r.result = Unrun /\ r.reused = {}
  /\ r.at \in {"lookup", "quarantine"} => r.files = {}
  /\ r.at = "policy" /\ r.lookup = "miss" => r.files = {}
  /\ r.at \in {"store", "publish"} => r.result["check"] = "ok"
  /\ r.at = "publish" => r.files \subseteq r.temporary
  /\ r.at \in {"store", "publish", "assess"} => r.rest = <<>>

Completed(r, t) ==
  r.status = "RUN_COMPLETED" =>
    /\ r.at = "done"
    /\ t.solver /\ "solve" \notin r.reused => r.result["solve"] = "ok" /\ r.files = Files
    /\ t.judged => ~t.strict /\ r.result["check"] = "ok"

Proven(r, t, snd) ==
  /\ Shown(r, snd) /\ Ahead(r) /\ Accounted(r, t) /\ Reuses(r) /\ Cached(r)
  /\ Completed(r, t)

\* The entry was made from a whole mesh that its check accepted, and nothing
\* happens to it between its verification and the end of its copy.
EntryProven ==
  entry.there =>
    /\ entry.manifest = Files /\ sound
    /\ \A s \in Solves : run[s].at = "restore" => Verified

\* What the cache and every solve have shown; inductive with IInv.
PInv == /\ EntryProven
        /\ \A s \in Solves : Proven(run[s], task[s], sound)
-----------------------------------------------------------------------------
(* Lemmas about plans.                                                      *)

LEMMA NotEmpty ==
  ASSUME NEW p, Len(p) # 0
  PROVE  p # <<>>
OBVIOUS

LEMMA Concatenated ==
  ASSUME NEW p \in Seq(Stages), NEW q \in Seq(Stages)
  PROVE  /\ p \o q \in Seq(Stages) /\ Len(p \o q) = Len(p) + Len(q)
         /\ \A i \in 1..Len(p) : (p \o q)[i] = p[i]
         /\ \A i \in (Len(p) + 1)..(Len(p) + Len(q)) : (p \o q)[i] = q[i - Len(p)]
OBVIOUS

LEMMA AppendOrdered ==
  ASSUME NEW p \in Seq(Stages), p # <<>>, Ordered(p), NEW q \in Seq(Later)
  PROVE  /\ p \o q \in Seq(Stages) /\ p \o q # <<>>
         /\ Ordered(p \o q)
         /\ (p \o q)[1] = p[1]
         /\ \A c : Has(p, c) \/ Has(q, c) => Has(p \o q, c)
<1>1. Later \subseteq Stages /\ "mesh" \notin Later /\ "check" \notin Later
  BY DEF Later
<1>2. q \in Seq(Stages)
  BY <1>1
<1> HIDE DEF Later
<1>3. /\ Len(p) \in Nat /\ Len(q) \in Nat /\ Len(p) >= 1
      /\ Len(p \o q) = Len(p) + Len(q) /\ p \o q \in Seq(Stages)
      /\ \A i \in 1..Len(p) : (p \o q)[i] = p[i]
      /\ \A i \in (Len(p) + 1)..(Len(p) + Len(q)) : (p \o q)[i] = q[i - Len(p)]
  BY <1>2
<1>4. (p \o q)[1] = p[1] /\ p \o q # <<>>
  BY <1>3
<1>5. ASSUME NEW i \in 1..Len(p \o q)
      PROVE  /\ (p \o q)[i] = "mesh" => i = 1
             /\ (p \o q)[i] = "check" => i = 1 \/ (i = 2 /\ (p \o q)[1] = "mesh")
  <2>1. CASE i \in 1..Len(p)
    BY <1>3, <1>4, <2>1 DEF Ordered
  <2>2. CASE i \notin 1..Len(p)
    <3>1. i \in (Len(p) + 1)..(Len(p) + Len(q)) /\ i - Len(p) \in 1..Len(q)
      BY <1>3, <2>2
    <3>2. q[i - Len(p)] \in Later
      BY <3>1
    <3> QED BY <1>1, <1>3, <3>1, <3>2
  <2> QED BY <2>1, <2>2
<1>6. p[1] = "mesh" => Len(p \o q) >= 2 /\ (p \o q)[2] = "check"
  BY <1>3 DEF Ordered
<1>7. Ordered(p \o q)
  BY <1>4, <1>5, <1>6 DEF Ordered
<1>8. ASSUME NEW c, Has(p, c) PROVE Has(p \o q, c)
  BY <1>3, <1>8 DEF Has
<1>9. ASSUME NEW c, Has(q, c) PROVE Has(p \o q, c)
  <2>1. PICK i \in 1..Len(q) : q[i] = c
    BY <1>9 DEF Has
  <2>2. /\ i + Len(p) \in 1..Len(p \o q)
        /\ i + Len(p) \in (Len(p) + 1)..(Len(p) + Len(q))
        /\ (i + Len(p)) - Len(p) = i
    BY <1>3
  <2>3. (p \o q)[i + Len(p)] = c
    BY <1>3, <2>1, <2>2
  <2> QED BY <2>2, <2>3 DEF Has
<1> QED BY <1>3, <1>4, <1>7, <1>8, <1>9

\* A plan starts with its mesh, or with the check of the mesh it reuses, and has
\* the solve that is due.
LEMMA PlanOrdered ==
  ASSUME NEW t \in Task, NEW skipped
  PROVE  LET p == Plan(t, skipped)
         IN /\ p # <<>> /\ Ordered(p)
            /\ p[1] = IF "mesh" \in skipped THEN "check" ELSE "mesh"
            /\ t.solver /\ "solve" \notin skipped => Has(p, "solve")
<1> DEFINE head == Unless("mesh", skipped) \o <<"check">>
           steps == IF ~t.solver THEN <<>>
                    ELSE IF t.parallel THEN <<"decompose", "solve",
                    "reconstruct">>
                    ELSE Unless("solve", skipped)
           last == IF t.solver /\ t.observed THEN <<"postprocess">> ELSE <<>>
<1>1. /\ {"mesh", "check"} \subseteq Stages
      /\ {"decompose", "solve", "reconstruct", "postprocess"} \subseteq Later
  BY DEF Stages, Later
<1>2. /\ head \in Seq(Stages) /\ head # <<>> /\ Ordered(head)
      /\ head[1] = IF "mesh" \in skipped THEN "check" ELSE "mesh"
  <2>1. CASE "mesh" \in skipped
    <3>1. head = <<"check">>
      BY <2>1 DEF Unless
    <3> HIDE DEF head
    <3> QED BY <1>1, <2>1, <3>1 DEF Ordered
  <2>2. CASE "mesh" \notin skipped
    <3> DEFINE m == <<"mesh">>
               k == <<"check">>
    <3>1. head = m \o k
      BY <2>2 DEF Unless
    <3>2. /\ m \in Seq(Stages) /\ Len(m) = 1 /\ m[1] = "mesh"
          /\ k \in Seq(Stages) /\ Len(k) = 1 /\ k[1] = "check"
      BY <1>1
    <3> HIDE DEF m, k
    <3>3. m \o k \in Seq(Stages) /\ Len(m \o k) = 2
      BY <3>2, Concatenated
    <3>4. (m \o k)[1] = "mesh" /\ (m \o k)[2] = "check"
      <4>1. /\ 1 \in 1..Len(m) /\ 2 \in (Len(m) + 1)..(Len(m) + Len(k))
            /\ 2 - Len(m) = 1
        BY <3>2
      <4>2. (m \o k)[1] = m[1]
        BY <3>2, <4>1, Concatenated
      <4>3. (m \o k)[2] = k[2 - Len(m)]
        BY <3>2, <4>1, Concatenated
      <4> QED BY <3>2, <4>1, <4>2, <4>3
    <3> HIDE DEF head
    <3>5. Len(head) # 0
      BY <3>1, <3>3
    <3>6. head # <<>>
      BY <3>5, NotEmpty
    <3> QED BY <2>2, <3>1, <3>3, <3>4, <3>6 DEF Ordered
  <2> QED BY <2>1, <2>2
<1>3. /\ steps \in Seq(Later)
      /\ t.solver /\ "solve" \notin skipped => Has(steps, "solve")
  <2>1. CASE ~t.solver
    BY <2>1
  <2>2. CASE t.solver /\ t.parallel
    <3>1. steps = <<"decompose", "solve", "reconstruct">>
      BY <2>2
    <3> HIDE DEF steps
    <3>2. Len(steps) = 3 /\ steps[2] = "solve" /\ 2 \in 1..Len(steps)
      BY <3>1
    <3> QED BY <1>1, <3>1, <3>2 DEF Has
  <2>3. CASE t.solver /\ ~t.parallel /\ "solve" \in skipped
    BY <2>3 DEF Unless
  <2>4. CASE t.solver /\ ~t.parallel /\ "solve" \notin skipped
    <3>1. steps = <<"solve">>
      BY <2>4 DEF Unless
    <3> HIDE DEF steps
    <3>2. Len(steps) = 1 /\ steps[1] = "solve" /\ 1 \in 1..Len(steps)
      BY <3>1
    <3> QED BY <1>1, <3>1, <3>2 DEF Has
  <2> QED BY <2>1, <2>2, <2>3, <2>4
<1>4. last \in Seq(Later)
  BY <1>1
<1>5. Plan(t, skipped) = (head \o steps) \o last
  <2>1. Plan(t, skipped) = head \o steps \o last
    BY DEF Plan
  <2> QED BY <2>1
<1> HIDE DEF head, steps, last
<1>6. /\ head \o steps \in Seq(Stages) /\ head \o steps # <<>>
      /\ Ordered(head \o steps)
      /\ (head \o steps)[1] = head[1]
      /\ \A c : Has(head, c) \/ Has(steps, c) => Has(head \o steps, c)
  BY <1>2, <1>3, AppendOrdered
<1> DEFINE front == head \o steps
<1>7. /\ front \in Seq(Stages) /\ front # <<>> /\ Ordered(front)
  BY <1>6
<1>8. /\ front[1] = head[1]
      /\ t.solver /\ "solve" \notin skipped => Has(front, "solve")
  BY <1>3, <1>6
<1> HIDE DEF front
<1>9. /\ front \o last # <<>> /\ Ordered(front \o last)
      /\ (front \o last)[1] = front[1]
      /\ \A c : Has(front, c) \/ Has(last, c) => Has(front \o last, c)
  BY <1>4, <1>7, AppendOrdered
<1>10. Plan(t, skipped) = front \o last
  BY <1>5 DEF front
<1> QED BY <1>2, <1>8, <1>9, <1>10

\* What follows the first command of an ordered plan.
LEMMA TailOrdered ==
  ASSUME NEW p \in Seq(Stages), p # <<>>, Ordered(p)
  PROVE  /\ Tail(p) \in Seq(Stages) /\ Ordered(Tail(p))
         /\ Tail(p) # <<>> =>
              /\ Tail(p)[1] # "mesh"
              /\ Tail(p)[1] = "check" <=> p[1] = "mesh"
         /\ p[1] = "mesh" => Tail(p) # <<>>
         /\ \A c : Has(p, c) /\ p[1] # c => Has(Tail(p), c)
<1>1. /\ Len(p) \in Nat /\ Len(p) >= 1 /\ Tail(p) \in Seq(Stages)
      /\ Len(Tail(p)) = Len(p) - 1
      /\ \A i \in 1..(Len(p) - 1) : Tail(p)[i] = p[i + 1]
  OBVIOUS
<1>2. Tail(p) # <<>> => 1 \in 1..(Len(p) - 1) /\ 2 \in 1..Len(p) /\ Tail(p)[1] = p[2]
  BY <1>1
<1>3. /\ Tail(p) # <<>> => Tail(p)[1] # "mesh"
      /\ Tail(p) # <<>> => (Tail(p)[1] = "check" <=> p[1] = "mesh")
  BY <1>2 DEF Ordered
<1>4. p[1] = "mesh" => Tail(p) # <<>>
  <2>1. p[1] = "mesh" => Len(Tail(p)) >= 1
    BY <1>1 DEF Ordered
  <2> QED BY <1>1, <2>1, NotEmpty
<1>5. ASSUME NEW i \in 1..Len(Tail(p))
      PROVE  /\ Tail(p)[i] # "mesh"
             /\ Tail(p)[i] = "check" => i = 1
  <2>1. i \in 1..(Len(p) - 1) /\ i + 1 \in 1..Len(p) /\ Tail(p)[i] = p[i + 1]
    BY <1>1
  <2> QED BY <2>1 DEF Ordered
<1>6. Tail(p) # <<>> => 1 \in 1..Len(Tail(p))
  BY <1>1
<1>7. Ordered(Tail(p))
  BY <1>3, <1>5, <1>6 DEF Ordered
<1>8. ASSUME NEW c, Has(p, c), p[1] # c PROVE Has(Tail(p), c)
  <2>1. PICK i \in 1..Len(p) : p[i] = c
    BY <1>8 DEF Has
  <2>2. i - 1 \in 1..(Len(p) - 1) /\ (i - 1) + 1 = i
    BY <1>1, <1>8, <2>1
  <2>3. i - 1 \in 1..Len(Tail(p)) /\ Tail(p)[i - 1] = c
    BY <1>1, <2>1, <2>2
  <2> QED BY <2>3 DEF Has
<1> QED BY <1>1, <1>3, <1>4, <1>7, <1>8
-----------------------------------------------------------------------------
(* Each step leaves its solve with proofs.                                  *)

\* A process that ends keeps what it has shown.
LEMMA GoneShows ==
  ASSUME NEW r \in Run, NEW snd, Shown(r, snd), NEW at \in {"done", "crashed"},
         NEW q \in Run, q.at = at, q.rest = <<>>, q.pending = FALSE,
         q.reused = r.reused, q.result = r.result, q.made = r.made,
         q.files = r.files, q.lookup = r.lookup
  PROVE  Shown(q, snd) /\ Ahead(q) /\ Reuses(q) /\ Cached(q)
<1>1. Ordered(<<>>)
  BY DEF Ordered
<1> QED BY <1>1 DEF Shown, Ahead, Reuses, Cached

LEMMA GoneFields ==
  ASSUME NEW r \in Run, NEW at \in Places
  PROVE  LET q == Gone(r, at)
         IN /\ q \in Run /\ q.at = at /\ q.rest = <<>> /\ q.pending = FALSE
            /\ q.reused = r.reused /\ q.result = r.result /\ q.made = r.made
            /\ q.files = r.files /\ q.lookup = r.lookup /\ q.status = r.status
<1>1. Gone(r, at) \in Run
  BY GoneTyped
<1> QED BY <1>1 DEF Gone, Run

LEMMA FinishFields ==
  ASSUME NEW r \in Run, NEW status \in Statuses
  PROVE  LET q == Finish(r, status)
         IN /\ q \in Run /\ q.at = "done" /\ q.rest = <<>> /\ q.pending = FALSE
            /\ q.reused = r.reused /\ q.result = r.result /\ q.made = r.made
            /\ q.files = r.files /\ q.lookup = r.lookup /\ q.status = status
<1> DEFINE g == Gone(r, "done")
<1>1. /\ g \in Run /\ g.at = "done" /\ g.rest = <<>> /\ g.pending = FALSE
      /\ g.reused = r.reused /\ g.result = r.result /\ g.made = r.made
      /\ g.files = r.files /\ g.lookup = r.lookup
  BY GoneFields DEF Places
<1>2. Finish(r, status) = [g EXCEPT !.status = status]
  BY DEF Finish
<1> HIDE DEF g
<1>3. [g EXCEPT !.status = status] \in Run
  BY <1>1 DEF Run
<1> QED BY <1>1, <1>2, <1>3 DEF Run

\* A solve ends with what it has shown, and completes only with what it needs.
LEMMA FinishProven ==
  ASSUME NEW r \in Run, NEW t, NEW snd, Shown(r, snd), NEW status \in Statuses,
         status = "RUN_COMPLETED" =>
           /\ t.solver /\ "solve" \notin r.reused =>
                r.result["solve"] = "ok" /\ r.files = Files
           /\ t.judged => ~t.strict /\ r.result["check"] = "ok"
  PROVE  Proven(Finish(r, status), t, snd)
<1> DEFINE q == Finish(r, status)
<1>1. /\ q \in Run /\ q.at = "done" /\ q.rest = <<>> /\ q.pending = FALSE
      /\ q.reused = r.reused /\ q.result = r.result /\ q.made = r.made
      /\ q.files = r.files /\ q.lookup = r.lookup /\ q.status = status
  BY FinishFields
<1> HIDE DEF q
<1>2. Shown(q, snd) /\ Ahead(q) /\ Reuses(q) /\ Cached(q)
  BY <1>1, GoneShows
<1>3. Accounted(q, t) /\ Completed(q, t)
  BY <1>1 DEF Accounted, Completed
<1>4. Proven(q, t, snd)
  BY <1>2, <1>3 DEF Proven
<1> QED BY <1>4 DEF q

LEMMA CrashProven ==
  ASSUME NEW r \in Run, NEW t, NEW snd, Proven(r, t, snd), r.at # "done"
  PROVE  Proven(Gone(r, "crashed"), t, snd)
<1> DEFINE q == Gone(r, "crashed")
<1>1. /\ q \in Run /\ q.at = "crashed" /\ q.rest = <<>> /\ q.pending = FALSE
      /\ q.reused = r.reused /\ q.result = r.result /\ q.made = r.made
      /\ q.files = r.files /\ q.lookup = r.lookup /\ q.status = r.status
  BY GoneFields DEF Places
<1> HIDE DEF q
<1>2. Shown(q, snd) /\ Ahead(q) /\ Reuses(q) /\ Cached(q)
  BY <1>1, GoneShows DEF Proven
<1>3. Accounted(q, t) /\ Completed(q, t)
  BY <1>1 DEF Accounted, Completed, Proven
<1>4. Proven(q, t, snd)
  BY <1>2, <1>3 DEF Proven
<1> QED BY <1>4 DEF q

\* A case that runs in full.
LEMMA NewCaseProven ==
  ASSUME NEW r \in Run, NEW t \in Task, NEW snd, NEW files \in SUBSET Files,
         r.attempt = 1 => files = {}, r.status # "RUN_COMPLETED"
  PROVE  Proven(NewCase(r, t, files), t, snd)
<1> DEFINE q == NewCase(r, t, files)
           rest == Plan(t, {})
<1>1. /\ q.rest = rest /\ q.reused = {} /\ q.result = Unrun /\ q.made = {}
      /\ q.files = files /\ q.lookup = "none" /\ q.pending = FALSE
      /\ q.status = r.status
      /\ q.at = IF r.attempt = 1 /\ t.cached THEN "lookup" ELSE "policy"
  <2>1. NewCase(r, t, files)
          = [r EXCEPT !.at = IF r.attempt = 1 /\ t.cached THEN "lookup" ELSE "policy",
                      !.rest = rest, !.reused = {}, !.result = Unrun,
                      !.made = {}, !.files = files, !.lookup = "none",
                      !.courant = FALSE, !.pending = FALSE]
    BY DEF NewCase
  <2> HIDE DEF rest
  <2> QED BY <2>1 DEF Run
<1>2. /\ rest # <<>> /\ Ordered(rest) /\ rest[1] = "mesh"
      /\ t.solver => Has(rest, "solve")
  BY PlanOrdered
<1> HIDE DEF q, rest
<1>3. \A c \in Stages : Unrun[c] = "none"
  BY DEF Unrun
<1>4. {"check", "solve"} \subseteq Stages /\ Later \subseteq Stages /\ "mesh" \notin Later
  BY DEF Stages, Later
<1>5. Shown(q, snd) /\ Ahead(q) /\ Reuses(q)
  BY <1>1, <1>2, <1>3, <1>4 DEF Shown, Ahead, Reuses, Passed, Failures
<1>6. Accounted(q, t) /\ Cached(q) /\ Completed(q, t)
  BY <1>1, <1>2, <1>3 DEF Accounted, Cached, Completed
<1>7. Proven(q, t, snd)
  BY <1>5, <1>6 DEF Proven
<1> QED BY <1>7 DEF q

\* A case that takes the mesh, and perhaps the solution, of the attempt before.
LEMMA ReusedCaseProven ==
  ASSUME NEW r \in Run, NEW t \in Task, NEW snd, "mesh" \in r.made,
  r.attempt > 1,
         r.status # "RUN_COMPLETED", EarliestStage(t) # "mesh"
  PROVE  Proven(ReusedCase(r, t), t, snd)
<1> DEFINE skipped == SkippedStages(EarliestStage(t))
           new == NewCase(r, t, r.files)
           q == ReusedCase(r, t)
           rest == Plan(t, skipped)
           made == r.made \cap skipped
<1>1. "mesh" \in skipped /\ skipped \subseteq {"mesh", "solve"}
  BY DEF SkippedStages, EarliestStage
<1>2. /\ new \in Run /\ new.result = Unrun /\ new.lookup = "none"
      /\ new.pending = FALSE /\ new.status = r.status /\ new.at = "policy"
  <2>1. new \in Run
    BY NewCaseTyped DEF Run
  <2> DEFINE plan == Plan(t, {})
  <2>2. new = [r EXCEPT !.at = IF r.attempt = 1 /\ t.cached THEN "lookup" ELSE "policy",
                        !.rest = plan, !.reused = {}, !.result = Unrun,
                        !.made = {}, !.files = r.files, !.lookup = "none",
                        !.courant = FALSE, !.pending = FALSE]
    BY DEF NewCase
  <2>3. r.attempt # 1
    BY UsedTyped
  <2> HIDE DEF plan, new
  <2> QED BY <2>1, <2>2, <2>3 DEF Run
<1>3. q = [new EXCEPT !.rest = rest, !.reused = skipped, !.made = made]
  BY DEF ReusedCase
<1>4. /\ rest # <<>> /\ Ordered(rest) /\ rest[1] = "check"
      /\ t.solver /\ "solve" \notin skipped => Has(rest, "solve")
  BY <1>1, PlanOrdered
<1>5. "mesh" \in made /\ skipped \ {"solve"} \subseteq made
  BY <1>1
<1> HIDE DEF skipped, new, q, rest, made
<1>6. /\ q.rest = rest /\ q.reused = skipped /\ q.result = Unrun /\ q.made = made
      /\ q.lookup = "none" /\ q.pending = FALSE /\ q.status = r.status
      /\ q.at = "policy"
  BY <1>2, <1>3 DEF Run
<1>7. \A c \in Stages : Unrun[c] = "none"
  BY DEF Unrun
<1>8. {"check", "solve"} \subseteq Stages /\ Later \subseteq Stages /\ "check" \notin Later
  BY DEF Stages, Later
<1>9. Shown(q, snd) /\ Ahead(q) /\ Reuses(q)
  BY <1>4, <1>5, <1>6, <1>7, <1>8 DEF Shown, Ahead, Reuses, Passed, Failures
<1>10. Accounted(q, t) /\ Cached(q) /\ Completed(q, t)
  BY <1>4, <1>6, <1>7 DEF Accounted, Cached, Completed
<1>11. Proven(q, t, snd)
  BY <1>9, <1>10 DEF Proven
<1> QED BY <1>11 DEF q

\* A step that runs no command keeps what was shown, as long as the mesh changes
\* only before anything ran.
LEMMA MovedProven ==
  ASSUME NEW r \in Run, NEW t, NEW snd, Proven(r, t, snd), NEW q,
         r.at \notin {"materialise", "repair", "done", "crashed"},
         q.at \notin {"materialise", "repair", "done", "crashed"},
         q.rest = r.rest, q.reused = r.reused, q.result = r.result,
         q.made = r.made, q.status = r.status, q.pending = r.pending,
         q.attempt = r.attempt, q.lookup \in {r.lookup, "miss"},
         q.files = r.files \/ (r.result = Unrun /\ q.lookup # "hit"),
         Cached(q)
  PROVE  Proven(q, t, snd)
<1>1. "check" \in Stages /\ (r.result = Unrun => r.result["check"] = "none")
  BY DEF Unrun, Stages
<1>2. Shown(q, snd)
  BY <1>1 DEF Proven, Shown, Passed
<1>3. Ahead(q) /\ Accounted(q, t) /\ Reuses(q) /\ Completed(q, t)
  BY DEF Proven, Ahead, Accounted, Reuses, Completed
<1> QED BY <1>2, <1>3 DEF Proven

\* What a step of a solve leaves behind.
Proves(s) ==
  \E q : /\ Proven(q, task[s], sound) /\ Becomes(s, q)
         /\ q.at = "restore" => run[s].at = "restore" \/ Verified

LEMMA MaterialiseProves ==
  ASSUME IInv, PInv, NEW s \in Solves, Materialise(s)
  PROVE  Proves(s)
<1> DEFINE r == run[s]
           t == task[s]
<1>1. /\ r \in Run /\ t \in Task /\ r.at = "materialise" /\ Proven(r, t, sound)
      /\ r.files \in SUBSET Files
  BY DEF IInv, WorldOK, PInv, Materialise, Run
<1>2. /\ r.status # "RUN_COMPLETED" /\ Shown(r, sound)
      /\ r.pending => "mesh" \in r.made /\ r.attempt > 1
  BY <1>1 DEF Proven, Completed, Reuses
<1>3. ASSUME NEW files \in SUBSET Files, files = {} \/ r.pending,
             Becomes(s, NewCase(r, t, files))
      PROVE  Proves(s)
  <2>1. r.attempt = 1 => files = {}
    BY <1>1, <1>2, <1>3, UsedTyped
  <2>2. Proven(NewCase(r, t, files), t, sound)
    BY <1>1, <1>2, <2>1, NewCaseProven
  <2>3. NewCase(r, t, files).at # "restore"
    BY <1>1, NewCaseTyped
  <2> QED BY <1>3, <2>2, <2>3 DEF Proves
<1>4. ASSUME r.pending, EarliestStage(t) # "mesh", Becomes(s, ReusedCase(r, t))
      PROVE  Proves(s)
  <2>1. Proven(ReusedCase(r, t), t, sound)
    BY <1>1, <1>2, <1>4, ReusedCaseProven
  <2>2. ReusedCase(r, t).at # "restore"
    BY <1>1, ReusedCaseTyped
  <2> QED BY <1>4, <2>1, <2>2 DEF Proves
<1>5. ASSUME NEW status \in {"CASE_GENERATION_FAILED", "STATIC_INSPECTION_FAILED"},
             Becomes(s, Finish(r, status))
      PROVE  Proves(s)
  <2>1. status \in Statuses /\ status # "RUN_COMPLETED"
    BY DEF Statuses
  <2>2. Proven(Finish(r, status), t, sound) /\ Finish(r, status).at = "done"
    BY <1>1, <1>2, <2>1, FinishProven, FinishTyped
  <2> QED BY <1>5, <2>2 DEF Proves
<1>6. \/ Becomes(s, NewCase(r, t, {}))
      \/ r.pending /\ EarliestStage(t) # "mesh" /\ Becomes(s, ReusedCase(r, t))
      \/ r.pending /\ \E copied \in SUBSET r.files : Becomes(s, NewCase(r, t, copied))
      \/ \E status \in {"CASE_GENERATION_FAILED", "STATIC_INSPECTION_FAILED"} :
           Becomes(s, Finish(r, status))
  BY DEF Materialise
<1> HIDE DEF r, t
<1> QED BY <1>1, <1>3, <1>4, <1>5, <1>6

LEMMA CacheProves ==
  ASSUME IInv, PInv, NEW s \in Solves,
         \/ Lookup(s) \/ Quarantine(s) \/ RestoreFile(s) \/ RestoreHit(s)
         \/ RestoreFails(s)
  PROVE  Proves(s)
<1> DEFINE r == run[s]
           t == task[s]
<1>1. /\ r \in Run /\ t \in Task /\ Proven(r, t, sound)
      /\ r.at \in {"lookup", "quarantine", "restore"}
      /\ r.lookup = "none" /\ r.result = Unrun /\ r.reused = {}
      /\ r.at \in {"lookup", "quarantine"} => r.files = {}
  BY DEF IInv, WorldOK, PInv, Proven, Cached, Lookup, Quarantine, RestoreFile,
         RestoreHit, RestoreFails
<1>2. ASSUME NEW q, Becomes(s, q), q.at \in {"policy", "restore", "quarantine"},
             q.rest = r.rest, q.reused = r.reused, q.result = r.result,
             q.made = r.made, q.status = r.status, q.pending = r.pending,
             q.attempt = r.attempt, q.lookup \in {"none", "miss"},
             q.at = "policy" /\ q.lookup = "miss" => q.files = {},
             q.at # "policy" => q.lookup = "none",
             q.at = "quarantine" => q.files = {},
             q.at = "restore" => r.at = "restore" \/ Verified
      PROVE  Proves(s)
  <2>1. Cached(q)
    BY <1>1, <1>2 DEF Cached
  <2>2. Proven(q, t, sound)
    BY <1>1, <1>2, <2>1, MovedProven
  <2> QED BY <1>2, <2>2 DEF Proves
<1>3. CASE Lookup(s)
  <2>1. r.at = "lookup" /\ r.files = {}
    BY <1>1, <1>3 DEF Lookup
  <2>2. CASE Becomes(s, [r EXCEPT !.at = "policy", !.lookup = "miss"])
    <3> DEFINE q == [r EXCEPT !.at = "policy", !.lookup = "miss"]
    <3>1. /\ Becomes(s, q) /\ q.at = "policy" /\ q.lookup = "miss"
          /\ q.rest = r.rest /\ q.reused = r.reused /\ q.result = r.result
          /\ q.made = r.made /\ q.status = r.status /\ q.pending = r.pending
          /\ q.attempt = r.attempt /\ q.files = {}
      BY <1>1, <2>1, <2>2 DEF Run
    <3> HIDE DEF q, r
    <3> QED BY <1>2, <3>1
  <2>3. CASE Verified /\ Becomes(s, [r EXCEPT !.at = "restore"])
    <3> DEFINE q == [r EXCEPT !.at = "restore"]
    <3>1. /\ Becomes(s, q) /\ q.at = "restore" /\ q.lookup = "none"
          /\ q.rest = r.rest /\ q.reused = r.reused /\ q.result = r.result
          /\ q.made = r.made /\ q.status = r.status /\ q.pending = r.pending
          /\ q.attempt = r.attempt
      BY <1>1, <2>1, <2>3 DEF Run
    <3> HIDE DEF q, r
    <3> QED BY <1>2, <2>3, <3>1
  <2>4. CASE Becomes(s, [r EXCEPT !.at = "quarantine"])
    <3> DEFINE q == [r EXCEPT !.at = "quarantine"]
    <3>1. /\ Becomes(s, q) /\ q.at = "quarantine" /\ q.lookup = "none"
          /\ q.rest = r.rest /\ q.reused = r.reused /\ q.result = r.result
          /\ q.made = r.made /\ q.status = r.status /\ q.pending = r.pending
          /\ q.attempt = r.attempt /\ q.files = {}
      BY <1>1, <2>1, <2>4 DEF Run
    <3> HIDE DEF q, r
    <3> QED BY <1>2, <3>1
  <2> QED BY <1>3, <2>2, <2>3, <2>4 DEF Lookup
<1>4. CASE Quarantine(s)
  <2> DEFINE q == [r EXCEPT !.at = "policy", !.lookup = "miss"]
  <2>1. /\ Becomes(s, q) /\ q.at = "policy" /\ q.lookup = "miss"
        /\ q.rest = r.rest /\ q.reused = r.reused /\ q.result = r.result
        /\ q.made = r.made /\ q.status = r.status /\ q.pending = r.pending
        /\ q.attempt = r.attempt /\ q.files = {}
    BY <1>1, <1>4 DEF Quarantine, Run
  <2> HIDE DEF q, r
  <2> QED BY <1>2, <2>1
<1>5. CASE RestoreFile(s)
  <2>1. PICK f \in entry.files : Becomes(s, [r EXCEPT !.files = @ \cup {f}])
    BY <1>5 DEF RestoreFile
  <2> DEFINE q == [r EXCEPT !.files = @ \cup {f}]
  <2>2. /\ Becomes(s, q) /\ q.at = "restore" /\ q.lookup = "none"
        /\ q.rest = r.rest /\ q.reused = r.reused /\ q.result = r.result
        /\ q.made = r.made /\ q.status = r.status /\ q.pending = r.pending
        /\ q.attempt = r.attempt /\ r.at = "restore"
    BY <1>1, <1>5, <2>1 DEF RestoreFile, Run
  <2> HIDE DEF q, r
  <2> QED BY <1>2, <2>2
\* What was verified is what was copied.
<1>6. CASE RestoreHit(s)
  <2> DEFINE rest == Plan(t, {"mesh"})
             q == [r EXCEPT !.at = "policy", !.lookup = "hit", !.reused = {"mesh"},
                            !.made = {"mesh"}, !.rest = rest]
  <2>1. Becomes(s, q) /\ r.at = "restore" /\ entry.there /\ entry.files \subseteq r.files
    BY <1>6 DEF RestoreHit
  <2>2. r.files = Files /\ sound
    BY <1>1, <2>1 DEF PInv, EntryProven, Verified, Run
  <2>3. /\ rest # <<>> /\ Ordered(rest) /\ rest[1] = "check"
        /\ t.solver => Has(rest, "solve")
    BY <1>1, PlanOrdered
  <2> HIDE DEF rest
  <2>4. /\ q.rest = rest /\ q.reused = {"mesh"} /\ q.result = Unrun /\ q.made = {"mesh"}
        /\ q.lookup = "hit" /\ q.pending = r.pending /\ q.status = r.status
        /\ q.at = "policy" /\ q.files = Files /\ q.attempt = r.attempt
    BY <1>1, <2>2 DEF Run
  <2> HIDE DEF q, r
  <2>5. \A c \in Stages : Unrun[c] = "none"
    BY DEF Unrun
  <2>6. {"check", "solve"} \subseteq Stages /\ Later \subseteq Stages /\ "check" \notin Later
    BY DEF Stages, Later
  <2>7. Shown(q, sound) /\ Ahead(q)
    BY <2>2, <2>3, <2>4, <2>5, <2>6 DEF Shown, Ahead, Passed, Failures
  <2>8. Reuses(q) /\ Accounted(q, t) /\ Cached(q) /\ Completed(q, t)
    BY <1>1, <2>3, <2>4, <2>5
    DEF Proven, Reuses, Accounted, Cached, Completed
  <2> QED BY <2>1, <2>4, <2>7, <2>8 DEF Proves, Proven
<1>7. CASE RestoreFails(s)
  <2> DEFINE q == [r EXCEPT !.at = "policy", !.lookup = "miss", !.files = {}]
  <2>1. /\ Becomes(s, q) /\ q.at = "policy" /\ q.lookup = "miss"
        /\ q.rest = r.rest /\ q.reused = r.reused /\ q.result = r.result
        /\ q.made = r.made /\ q.status = r.status /\ q.pending = r.pending
        /\ q.attempt = r.attempt /\ q.files = {}
    BY <1>1, <1>7 DEF RestoreFails, Run
  <2> HIDE DEF q, r
  <2> QED BY <1>2, <2>1
<1> QED BY <1>3, <1>4, <1>5, <1>6, <1>7

LEMMA FreezePolicyProves ==
  ASSUME IInv, PInv, NEW s \in Solves, FreezePolicy(s)
  PROVE  Proves(s)
<1> DEFINE r == run[s]
           t == task[s]
<1>1. r \in Run /\ Proven(r, t, sound) /\ r.at = "policy"
  BY DEF IInv, PInv, FreezePolicy
<1>2. \/ Becomes(s, Finish(r, "BLOCKED_ENVIRONMENT"))
      \/ \E backend : Becomes(s, [r EXCEPT !.at = "runner", !.backend = backend])
  BY DEF FreezePolicy
<1>3. CASE Becomes(s, Finish(r, "BLOCKED_ENVIRONMENT"))
  <2>1. /\ Proven(Finish(r, "BLOCKED_ENVIRONMENT"), t, sound)
        /\ Finish(r, "BLOCKED_ENVIRONMENT").at = "done"
    BY <1>1, FinishProven, FinishTyped DEF Proven, Statuses
  <2> QED BY <1>3, <2>1 DEF Proves
<1>4. ASSUME NEW backend, Becomes(s, [r EXCEPT !.at = "runner", !.backend = backend])
      PROVE  Proves(s)
  <2> DEFINE q == [r EXCEPT !.at = "runner", !.backend = backend]
  <2>1. /\ Becomes(s, q) /\ q.at = "runner" /\ q.lookup = r.lookup
        /\ q.rest = r.rest /\ q.reused = r.reused /\ q.result = r.result
        /\ q.made = r.made /\ q.status = r.status /\ q.pending = r.pending
        /\ q.attempt = r.attempt /\ q.files = r.files
    BY <1>1, <1>4 DEF Run
  <2> HIDE DEF q, r
  <2>2. Cached(q)
    BY <2>1 DEF Cached
  <2>3. Proven(q, t, sound)
    BY <1>1, <2>1, <2>2, MovedProven
  <2> QED BY <2>1, <2>3 DEF Proves
<1> QED BY <1>2, <1>3, <1>4

\* Only a mesh that its own check accepted is stored.
LEMMA StoreProves ==
  ASSUME IInv, PInv, NEW s \in Solves,
         ExtractEvidence(s) \/ StoreFile(s) \/ Publish(s) \/ StoreFails(s)
  PROVE  Proves(s)
<1> DEFINE r == run[s]
           t == task[s]
<1>1. /\ r \in Run /\ Proven(r, t, sound) /\ r.at \in {"runner", "store", "publish"}
      /\ Cached(r)
  BY DEF IInv, PInv, Proven, ExtractEvidence, StoreFile, Publish, StoreFails
<1>2. ASSUME NEW q, Becomes(s, q), q.at \in {"store", "publish", "assess"},
             q.rest = r.rest, q.reused = r.reused, q.result = r.result,
             q.made = r.made, q.status = r.status, q.pending = r.pending,
             q.attempt = r.attempt, q.lookup = r.lookup, q.files = r.files, Cached(q)
      PROVE  Proves(s)
  <2>1. Proven(q, t, sound)
    BY <1>1, <1>2, MovedProven
  <2> QED BY <1>2, <2>1 DEF Proves
<1>3. CASE ExtractEvidence(s)
  <2>1. PICK at \in {"store", "assess"} :
          /\ Becomes(s, [r EXCEPT !.at = at])
          /\ at = "store" => r.result["check"] = "ok"
          /\ r.rest = <<>>
    BY <1>3 DEF ExtractEvidence, Storable
  <2> DEFINE q == [r EXCEPT !.at = at]
  <2>2. /\ Becomes(s, q) /\ q.at = at /\ q.temporary = r.temporary
        /\ q.rest = r.rest /\ q.reused = r.reused /\ q.result = r.result
        /\ q.made = r.made /\ q.status = r.status /\ q.pending = r.pending
        /\ q.attempt = r.attempt /\ q.lookup = r.lookup /\ q.files = r.files
    BY <1>1, <2>1 DEF Run
  <2> HIDE DEF q, r
  <2>3. Cached(q)
    BY <2>1, <2>2 DEF Cached
  <2> QED BY <1>2, <2>2, <2>3
<1>4. CASE StoreFile(s)
  <2>1. r.at = "store" /\ r.result["check"] = "ok" /\ r.rest = <<>>
    BY <1>1, <1>4 DEF StoreFile, Cached
  <2>2. ASSUME NEW f \in r.files, Becomes(s, [r EXCEPT !.temporary = @ \cup {f}])
        PROVE  Proves(s)
    <3> DEFINE q == [r EXCEPT !.temporary = @ \cup {f}]
    <3>1. /\ Becomes(s, q) /\ q.at = "store"
          /\ q.rest = r.rest /\ q.reused = r.reused /\ q.result = r.result
          /\ q.made = r.made /\ q.status = r.status /\ q.pending = r.pending
          /\ q.attempt = r.attempt /\ q.lookup = r.lookup /\ q.files = r.files
      BY <1>1, <2>1, <2>2 DEF Run
    <3> HIDE DEF q, r
    <3>2. Cached(q)
      BY <2>1, <3>1 DEF Cached
    <3> QED BY <1>2, <3>1, <3>2
  <2>3. CASE r.files \ r.temporary = {} /\ Becomes(s, [r EXCEPT !.at = "publish"])
    <3> DEFINE q == [r EXCEPT !.at = "publish"]
    <3>1. /\ Becomes(s, q) /\ q.at = "publish" /\ q.temporary = r.temporary
          /\ q.rest = r.rest /\ q.reused = r.reused /\ q.result = r.result
          /\ q.made = r.made /\ q.status = r.status /\ q.pending = r.pending
          /\ q.attempt = r.attempt /\ q.lookup = r.lookup /\ q.files = r.files
      BY <1>1, <2>3 DEF Run
    <3>2. r.files \subseteq r.temporary
      BY <2>3
    <3> HIDE DEF q, r
    <3>3. Cached(q)
      BY <2>1, <3>1, <3>2 DEF Cached
    <3> QED BY <1>2, <3>1, <3>3
  <2> QED BY <1>4, <2>2, <2>3 DEF StoreFile
<1>5. CASE Publish(s) \/ StoreFails(s)
  <2> DEFINE q == [r EXCEPT !.at = "assess", !.temporary = {}]
  <2>1. /\ Becomes(s, q) /\ q.at = "assess"
        /\ q.rest = r.rest /\ q.reused = r.reused /\ q.result = r.result
        /\ q.made = r.made /\ q.status = r.status /\ q.pending = r.pending
        /\ q.attempt = r.attempt /\ q.lookup = r.lookup /\ q.files = r.files
        /\ r.rest = <<>>
    BY <1>1, <1>5 DEF Run, Publish, StoreFails, Cached
  <2> HIDE DEF q, r
  <2>2. Cached(q)
    BY <2>1 DEF Cached
  <2> QED BY <1>2, <2>1, <2>2
<1> QED BY <1>3, <1>4, <1>5
-----------------------------------------------------------------------------
(* The steps of PlanRunner, the assessment and the repair.                  *)

\* A command that ran, and how.
Fields(r, c, o, files, q) ==
  /\ q.at = r.at /\ q.lookup = r.lookup /\ q.reused = r.reused
  /\ q.pending = r.pending /\ q.attempt = r.attempt /\ q.status = r.status
  /\ q.files = files
  /\ q.rest = IF Succeeds(o) THEN Tail(r.rest) ELSE <<>>
  /\ q.result[c] = o
  /\ \A d \in Stages \ {c} : q.result[d] = r.result[d]
  /\ q.made = IF o = "ok" THEN r.made \cup {c} ELSE r.made

LEMMA SteppedFields ==
  ASSUME NEW r \in Run, NEW c \in Stages, NEW o \in StepResults,
  NEW seconds \in Nat,
         NEW files \in SUBSET Files, NEW courant \in BOOLEAN,
         NEW q, q = Stepped(r, c, o, seconds, files, courant)
  PROVE  Fields(r, c, o, files, q)
<1> DEFINE rest == IF Succeeds(o) THEN Tail(r.rest) ELSE <<>>
           result == [r.result EXCEPT ![c] = o]
           used == r.used + seconds
           made == IF o = "ok" THEN r.made \cup {c} ELSE r.made
<1>1. q = [r EXCEPT !.rest = rest, !.result = result, !.used = used, !.files = files,
                    !.courant = courant, !.made = made]
  BY DEF Stepped, Run
<1>2. result[c] = o /\ \A d \in Stages \ {c} : result[d] = r.result[d]
  BY DEF Run
<1> HIDE DEF rest, result, used, made
<1>3. /\ q.at = r.at /\ q.lookup = r.lookup /\ q.reused = r.reused
      /\ q.pending = r.pending /\ q.attempt = r.attempt /\ q.status = r.status
      /\ q.files = files /\ q.rest = rest /\ q.result = result /\ q.made = made
  BY <1>1 DEF Run
<1> QED BY <1>2, <1>3 DEF rest, made, Fields

\* A command runs in its place: the mesh first, then its check, and the others
\* when the check has passed.
LEMMA SteppedProven ==
  ASSUME NEW r \in Run, NEW t, NEW snd, Proven(r, t, snd), r.at = "runner",
         r.rest # <<>>, NEW c, c = Head(r.rest), NEW o, NEW q, q.at = "runner",
         q.lookup = r.lookup, q.reused = r.reused, q.pending = r.pending,
         q.attempt = r.attempt, q.status = r.status,
         q.rest = IF Succeeds(o) THEN Tail(r.rest) ELSE <<>>,
         q.result[c] = o, \A d \in Stages \ {c} : q.result[d] = r.result[d],
         q.made = IF o = "ok" THEN r.made \cup {c} ELSE r.made,
         c = "mesh" => o \in {"ok", "failed", "timeout"},
         c = "check" => o = "timeout" \/ (IF r.files # Files THEN o = "failed"
                                          ELSE o = "silent" \/ (snd /\ o = "ok")
                                               \/ (~snd /\ o = "refused")),
         c \in Later => o \in {"ok", "unended", "unstable", "failed", "timeout"},
         c # "mesh" => q.files = r.files
  PROVE  Proven(q, t, snd)
<1>1. /\ r.rest \in Seq(Stages) /\ c = r.rest[1] /\ c \in Stages
      /\ Ordered(r.rest)
      /\ c \in {"mesh", "check"} \/ c \in Later
  BY DEF Run, Commands, Proven, Ahead, Later
<1>2. /\ Tail(r.rest) \in Seq(Stages) /\ Ordered(Tail(r.rest))
      /\ Tail(r.rest) # <<>> =>
           /\ Tail(r.rest)[1] # "mesh"
           /\ Tail(r.rest)[1] = "check" <=> c = "mesh"
      /\ \A d : Has(r.rest, d) /\ c # d => Has(Tail(r.rest), d)
  BY <1>1, TailOrdered
<1>3. /\ Ordered(q.rest)
      /\ q.rest # <<>> =>
           /\ q.rest[1] # "mesh"
           /\ q.rest[1] = "check" <=> c = "mesh"
           /\ Succeeds(o)
  <2>1. Ordered(<<>>)
    BY DEF Ordered
  <2> QED BY <1>2, <2>1
<1>4. /\ {"mesh", "check", "solve"} \subseteq Stages /\ Later \subseteq Stages
      /\ "mesh" \notin Later /\ "check" \notin Later
  BY DEF Stages, Later
<1>5. /\ c = "mesh" => r.lookup # "hit" /\ \A d \in Stages : r.result[d] = "none"
      /\ c = "check" => "mesh" \in r.made
                        /\ \A d \in Stages \ {"mesh"} : r.result[d] = "none"
      /\ c \in Later => r.result["check"] \in Passed
  BY <1>1 DEF Proven, Ahead
<1>6. Shown(q, snd)
  <2>1. CASE c = "mesh"
    BY <1>4, <1>5, <2>1 DEF Proven, Shown, Passed
  <2>2. CASE c = "check"
    BY <1>4, <1>5, <2>2 DEF Proven, Shown, Passed
  <2>3. CASE c \in Later
    BY <1>4, <1>5, <2>3 DEF Proven, Shown, Passed
  <2> QED BY <1>1, <2>1, <2>2, <2>3
<1>7. Ahead(q)
  <2>1. q.rest # <<>> => \A d \in Stages : q.result[d] \notin Failures
    <3>1. Succeeds(o) => o \notin Failures
      BY DEF Succeeds, Failures
    <3> QED BY <1>1, <1>3, <3>1 DEF Proven, Ahead
  <2>2. CASE c = "mesh"
    <3>1. Succeeds(o) => o = "ok"
      BY <2>2 DEF Succeeds
    <3>2. \A d \in Stages \ {"mesh"} : q.result[d] = "none"
      BY <1>5, <2>2
    <3> QED BY <1>3, <1>4, <2>1, <2>2, <3>1, <3>2 DEF Ahead
  <2>3. CASE c = "check"
    <3>1. o \in {"timeout", "failed", "silent", "ok", "refused"}
      BY <2>3
    <3>2. Succeeds(o) => o \in Passed
      BY <3>1 DEF Succeeds, Passed
    <3> QED BY <1>3, <1>4, <2>1, <2>3, <3>2 DEF Ahead
  <2>4. CASE c \in Later
    BY <1>3, <1>4, <1>5, <2>1, <2>4 DEF Ahead
  <2> QED BY <1>1, <2>2, <2>3, <2>4
<1>8. Accounted(q, t)
  <2>1. \A d \in Stages : q.result[d] # "cancelled"
    BY <1>1 DEF Proven, Accounted
  <2>2. ASSUME t.solver, "solve" \notin q.reused, q.result["solve"] = "none"
       
              PROVE  Has(q.rest,
              "solve") \/ \E d \in Stages : q.result[d] \in Failures
    <3>1. c # "solve" /\ r.result["solve"] = "none"
      BY <1>4, <2>2 DEF Later
    <3>2. Has(r.rest, "solve") \/ \E d \in Stages : r.result[d] \in Failures
      BY <2>2, <3>1 DEF Proven, Accounted
    <3>3. CASE ~Succeeds(o)
      <4>1. o \in Failures
        BY <1>1, <3>3 DEF Succeeds, Failures
      <4> QED BY <1>1, <4>1
    <3>4. CASE Succeeds(o) /\ Has(r.rest, "solve")
      BY <1>2, <3>1, <3>4
    <3>5. \A d \in Stages : r.result[d] \notin Failures
      BY DEF Proven, Ahead
    <3> QED BY <3>2, <3>3, <3>4, <3>5
  <2> QED BY <2>1, <2>2 DEF Accounted
<1>9. Reuses(q) /\ Cached(q) /\ Completed(q, t)
  BY DEF Proven, Reuses, Cached, Completed
<1> QED BY <1>6, <1>7, <1>8, <1>9 DEF Proven

LEMMA StepEndsProves ==
  ASSUME IInv, PInv, NEW s \in Solves, StepEnds(s)
  PROVE  Proves(s)
<1> DEFINE r == run[s]
           t == task[s]
           c == Head(r.rest)
<1>1. /\ r \in Run /\ Proven(r, t, sound) /\ sound \in BOOLEAN
      /\ r.at = "runner" /\ r.rest # <<>>
      /\ r.files \in SUBSET Files /\ r.courant \in BOOLEAN
  BY DEF IInv, WorldOK, PInv, StepEnds, Run
<1>2. PICK o \in Outcomes(s, c), seconds \in 1..Limit(s, c) :
        \E files \in FilesAfter(r, c, o), courant \in CourantAfter(r, c) :
          Becomes(s, Stepped(r, c, o, seconds, files, courant))
  BY DEF StepEnds
<1>3. PICK files \in FilesAfter(r, c, o), courant \in CourantAfter(r, c) :
        Becomes(s, Stepped(r, c, o, seconds, files, courant))
  BY <1>2
<1>4. c \in Stages /\ c = Head(r.rest) /\ Limit(s, c) \in Nat
  BY <1>1, LimitTyped DEF IInv, StepEnds
<1>5. seconds \in Nat
  BY <1>2, <1>4
<1>6. /\ c = "check" => IF r.files # Files THEN o = "failed"
                        ELSE o = "silent" \/ (sound /\ o = "ok")
                             \/ (~sound /\ o = "refused")
      /\ c = "mesh" => o \in {"ok", "failed"}
      /\ c \in Later => o \in {"ok", "unended", "unstable", "failed"}
  BY <1>1, <1>2 DEF Outcomes, Later
<1>7. o \in StepResults
  BY <1>2 DEF Outcomes, StepResults
<1> HIDE DEF r, c
<1>8. /\ files \in SUBSET Files /\ courant \in BOOLEAN
      /\ c # "mesh" => files = r.files
  BY <1>1, <1>3 DEF FilesAfter, CourantAfter
<1>0. PICK q : q = Stepped(r, c, o, seconds, files, courant)
  OBVIOUS
<1>9. /\ q.at = "runner" /\ q.lookup = r.lookup /\ q.reused = r.reused
      /\ q.pending = r.pending /\ q.attempt = r.attempt /\ q.status = r.status
      /\ q.files = files
      /\ q.rest = IF Succeeds(o) THEN Tail(r.rest) ELSE <<>>
      /\ q.result[c] = o
      /\ \A d \in Stages \ {c} : q.result[d] = r.result[d]
      /\ q.made = IF o = "ok" THEN r.made \cup {c} ELSE r.made
  <2>1. r \in Run /\ c \in Stages /\ files \in SUBSET Files /\ courant \in BOOLEAN
    BY <1>1, <1>4, <1>8
  <2>2. Fields(r, c, o, files, q)
    BY <2>1, <1>0, <1>5, <1>7, SteppedFields
  <2> QED BY <1>1, <2>2 DEF Fields
<1>10. Proven(q, t, sound)
  BY <1>1, <1>4, <1>6, <1>8, <1>9, SteppedProven
<1> QED BY <1>0, <1>3, <1>9, <1>10 DEF Proves, r

LEMMA StepTimesOutProves ==
  ASSUME IInv, PInv, NEW s \in Solves, StepTimesOut(s)
  PROVE  Proves(s)
<1> DEFINE r == run[s]
           t == task[s]
           c == Head(r.rest)
<1>1. /\ r \in Run /\ Proven(r, t, sound) /\ r.at = "runner" /\ r.rest # <<>>
      /\ r.files \in SUBSET Files /\ r.courant \in BOOLEAN
  BY DEF IInv, PInv, StepTimesOut, Run
<1>2. PICK seconds \in Limit(s, c)..(Limit(s, c) + Grace) :
        \E files \in FilesAfter(r, c, "timeout"), courant \in CourantAfter(r, c) :
          LET stopped == Stepped(r, c, "timeout", seconds, files, courant)
          IN  Becomes(s, IF Limit(s, c) < Own[c] THEN Finish(stopped, Exhausted)
                         ELSE stopped)
  BY DEF StepTimesOut, Exhausted
<1>3. PICK files \in FilesAfter(r, c, "timeout"), courant \in CourantAfter(r, c) :
        LET stopped == Stepped(r, c, "timeout", seconds, files, courant)
        IN  Becomes(s, IF Limit(s, c) < Own[c] THEN Finish(stopped, Exhausted)
                       ELSE stopped)
  BY <1>2
<1>4. c \in Stages /\ c = Head(r.rest) /\ Limit(s, c) \in Nat
  BY <1>1, LimitTyped DEF IInv, StepTimesOut
<1>5. seconds \in Nat
  BY <1>2, <1>4, ExecutionAssumption DEF ExecutionAssumption
<1>6. "timeout" \in StepResults
  BY DEF StepResults
<1> HIDE DEF r, c
<1>7. /\ files \in SUBSET Files /\ courant \in BOOLEAN
      /\ c # "mesh" => files = r.files
  BY <1>1, <1>3 DEF FilesAfter, CourantAfter
<1>0. PICK q : q = Stepped(r, c, "timeout", seconds, files, courant)
  OBVIOUS
<1>8. /\ q.at = "runner" /\ q.lookup = r.lookup /\ q.reused = r.reused
      /\ q.pending = r.pending /\ q.attempt = r.attempt /\ q.status = r.status
      /\ q.files = files
      /\ q.rest = IF Succeeds("timeout") THEN Tail(r.rest) ELSE <<>>
      /\ q.result[c] = "timeout"
      /\ \A d \in Stages \ {c} : q.result[d] = r.result[d]
      /\ q.made = IF "timeout" = "ok" THEN r.made \cup {c} ELSE r.made
  <2>1. r \in Run /\ c \in Stages /\ files \in SUBSET Files /\ courant \in BOOLEAN
    BY <1>1, <1>4, <1>7
  <2>2. Fields(r, c, "timeout", files, q)
    BY <2>1, <1>0, <1>5, <1>6, SteppedFields
  <2> QED BY <1>1, <2>2 DEF Fields
<1>9. q \in Run
  BY <1>0, <1>1, <1>4, <1>5, <1>6, <1>7, SteppedTyped
<1>10. Proven(q, t, sound)
  BY <1>1, <1>4, <1>7, <1>8, SteppedProven
<1>11. Proven(Finish(q, Exhausted), t, sound) /\ Finish(q, Exhausted).at = "done"
  <2>1. Exhausted \in Statuses /\ Exhausted # "RUN_COMPLETED"
    BY DEF Exhausted, Statuses
  <2> QED BY <1>9, <1>10, <2>1, FinishProven, FinishTyped DEF Proven
<1>12. Becomes(s, Finish(q, Exhausted)) \/ Becomes(s, q)
  BY <1>0, <1>3
<1> QED BY <1>8, <1>10, <1>11, <1>12 DEF Proves

LEMMA RunnerStopsProves ==
  ASSUME IInv, PInv, NEW s \in Solves, RunnerStops(s)
  PROVE  Proves(s)
<1> DEFINE r == run[s]
           t == task[s]
           c == Head(r.rest)
<1>1. /\ r \in Run /\ Proven(r, t, sound) /\ Shown(r, sound) /\ Ahead(r)
      /\ r.at = "runner" /\ r.rest # <<>> /\ c \in Stages /\ c = r.rest[1]
  BY DEF IInv, PInv, Proven, RunnerStops, Run, Commands
<1>2. ASSUME NEW q \in Run, Shown(q, sound),
             NEW status \in {Exhausted, "CANCELLED", "BLOCKED_ENVIRONMENT"},
             Becomes(s, Finish(q, status))
      PROVE  Proves(s)
  <2>1. status \in Statuses /\ status # "RUN_COMPLETED"
    BY DEF Exhausted, Statuses
  <2>2. Proven(Finish(q, status), t, sound) /\ Finish(q, status).at = "done"
    BY <1>2, <2>1, FinishProven, FinishTyped
  <2> QED BY <1>2, <2>2 DEF Proves
<1>3. CASE Becomes(s, Finish([r EXCEPT !.result[c] = "cancelled"], "CANCELLED"))
  <2> DEFINE result == [r.result EXCEPT ![c] = "cancelled"]
             q == [r EXCEPT !.result = result]
  <2>1. /\ result \in [Stages -> StepResults] /\ result[c] = "cancelled"
        /\ \A d \in Stages \ {c} : result[d] = r.result[d]
    BY <1>1 DEF Run, StepResults
  <2>2. q = [r EXCEPT !.result[c] = "cancelled"]
    BY <1>1 DEF Run
  <2> HIDE DEF r, c, result
  <2>3. /\ q \in Run /\ q.result = result /\ q.made = r.made /\ q.files = r.files
        /\ q.lookup = r.lookup /\ q.reused = r.reused
    BY <1>1, <2>1 DEF Run
  <2> HIDE DEF q
  <2>4. c = "mesh" \/ c = "check" \/ c \in Later
    BY <1>1 DEF Later
  <2>5. {"check"} \subseteq Stages /\ Later \subseteq Stages /\ "check" \notin Later
    BY DEF Stages, Later
  <2>6. Shown(q, sound)
    BY <1>1, <2>1, <2>3, <2>4, <2>5 DEF Shown, Ahead, Passed
  <2> QED BY <1>2, <1>3, <2>2, <2>3, <2>6
<1>4. \/ Becomes(s, Finish(r, Exhausted))
      \/ Becomes(s, Finish([r EXCEPT !.result[c] = "cancelled"], "CANCELLED"))
      \/ Becomes(s, Finish(r, "BLOCKED_ENVIRONMENT"))
  BY DEF RunnerStops, Exhausted
<1> HIDE DEF r, c
<1> QED BY <1>1, <1>2, <1>3, <1>4

\* A run completes on what it has shown.
LEMMA AssessProves ==
  ASSUME IInv, PInv, NEW s \in Solves, Assess(s)
  PROVE  Proves(s)
<1> DEFINE r == run[s]
           t == task[s]
           status == AssessNativeRun(r, t)
           broken == {c \in Stages : Broken(r.result[c])}
<1>1. /\ r \in Run /\ Proven(r, t, sound) /\ Shown(r, sound) /\ Accounted(r, t)
      /\ Reuses(r) /\ r.at = "assess"
      /\ r.result \in [Stages -> StepResults]
  BY DEF IInv, PInv, Proven, Assess, Run
<1>2. {"mesh", "check", "solve", "postprocess"} \subseteq Stages /\ "solve" \in Later
  BY DEF Stages, Later
<1>3. status = "RUN_COMPLETED" =>
        /\ t.solver /\ "solve" \notin r.reused =>
             r.result["solve"] = "ok" /\ r.files = Files
        /\ t.judged => ~t.strict /\ r.result["check"] = "ok"
  <2> SUFFICES ASSUME status = "RUN_COMPLETED"
               PROVE  /\ t.solver /\ "solve" \notin r.reused =>
                           r.result["solve"] = "ok" /\ r.files = Files
                      /\ t.judged => ~t.strict /\ r.result["check"] = "ok"
    OBVIOUS
  <2>1. /\ broken = {} /\ MeshQualityPassed(r, t)
        /\ r.result["solve"] = "none" => r.result["check"] = "ok"
        /\ r.result["solve"] # "unended"
    BY DEF AssessNativeRun
  <2>2. t.judged => ~t.strict /\ r.result["check"] = "ok"
    BY <2>1 DEF MeshQualityPassed
  <2>3. ASSUME t.solver, "solve" \notin r.reused
        PROVE  r.result["solve"] = "ok" /\ r.files = Files
    <3>1. \A c \in Stages : r.result[c] \notin {"unstable", "failed", "timeout"}
      BY <2>1 DEF Broken
    <3>2. r.rest = <<>>
      BY <1>1 DEF Proven, Cached
    <3>3. CASE r.result["solve"] = "none"
      <4>1. PICK c \in Stages : r.result[c] \in Failures
        BY <1>1, <2>3, <3>2, <3>3 DEF Accounted, Has
      <4>2. r.result[c] = "refused"
        BY <3>1, <4>1 DEF Failures
      <4>3. c = "check"
        BY <1>1, <4>2 DEF Shown
      <4> QED BY <2>1, <3>3, <4>2, <4>3
    <3>4. CASE r.result["solve"] # "none"
      <4>1. r.result["solve"] \notin {"silent", "refused", "cancelled"}
        BY <1>1, <1>2 DEF Shown, Accounted
      <4>2. r.result["solve"] = "ok"
        BY <1>1, <1>2, <2>1, <3>1, <3>4, <4>1 DEF StepResults
      <4>3. r.files = Files
        BY <1>1, <1>2, <3>4 DEF Shown
      <4> QED BY <4>2, <4>3
    <3> QED BY <3>3, <3>4
  <2> QED BY <2>2, <2>3
<1>4. status \in Statuses
  BY DEF AssessNativeRun, Statuses
\* What failed in the solver had a mesh.
<1>5. status = "SOLVER_FAILED" => "mesh" \in r.made
  <2>1. status = "SOLVER_FAILED" =>
          \/ \E c \in broken : c \notin {"mesh", "check"}
          \/ r.result["solve"] = "unended"
    BY DEF AssessNativeRun
  <2>2. status = "SOLVER_FAILED" => \E c \in Later : r.result[c] # "none"
    BY <1>2, <2>1 DEF Broken, Later
  <2> QED BY <1>1, <2>2 DEF Shown, Passed
<1> HIDE DEF status, r
<1>6. ASSUME NEW verdict \in {status, "ACCEPTANCE_FAILED"},
             Becomes(s, Finish(r, verdict))
      PROVE  Proves(s)
  <2>1. verdict \in Statuses /\ "ACCEPTANCE_FAILED" # "RUN_COMPLETED"
    BY <1>4 DEF Statuses
  <2>2. Proven(Finish(r, verdict), t, sound) /\ Finish(r, verdict).at = "done"
    BY <1>1, <1>3, <1>6, <2>1, FinishProven, FinishTyped
  <2> QED BY <1>6, <2>2 DEF Proves
<1>7. ASSUME NEW fingerprint, status = "SOLVER_FAILED",
             Becomes(s, [r EXCEPT !.at = "repair", !.fingerprint = fingerprint])
      PROVE  Proves(s)
  <2> DEFINE q == [r EXCEPT !.at = "repair", !.fingerprint = fingerprint]
  <2>1. /\ q.at = "repair" /\ q.lookup = r.lookup /\ q.rest = r.rest
        /\ q.reused = r.reused /\ q.result = r.result /\ q.made = r.made
        /\ q.files = r.files /\ q.status = r.status /\ q.pending = r.pending
        /\ q.attempt = r.attempt
    BY <1>1 DEF Run
  <2>2. Becomes(s, q)
    BY <1>7
  <2> HIDE DEF q
  <2>3. Shown(q, sound) /\ Ahead(q) /\ Cached(q) /\ Completed(q, t)
    BY <1>1, <2>1 DEF Proven, Shown, Ahead, Cached, Completed
  <2>4. Accounted(q, t) /\ Reuses(q)
    BY <1>1, <1>5, <1>7, <2>1 DEF Accounted, Reuses
  <2>5. Proven(q, t, sound)
    BY <2>3, <2>4 DEF Proven
  <2> QED BY <2>1, <2>2, <2>5 DEF Proves
<1>8. \/ \E verdict \in {status, "ACCEPTANCE_FAILED"} : Becomes(s, Finish(r, verdict))
      \/ /\ status = "SOLVER_FAILED"
         /\ \E fingerprint \in 1..2 :
              Becomes(s, [r EXCEPT !.at = "repair",
              !.fingerprint = fingerprint])
  BY DEF Assess, status, r
<1> QED BY <1>6, <1>7, <1>8

LEMMA RepairProves ==
  ASSUME IInv, PInv, NEW s \in Solves, Repair(s)
  PROVE  Proves(s)
<1> DEFINE r == run[s]
           t == task[s]
<1>1. /\ r \in Run /\ Proven(r, t, sound) /\ r.at = "repair" /\ r.attempt \in Nat
      /\ r.attempt >= 1
  BY UsedTyped DEF IInv, PInv, Repair
<1>2. ASSUME NEW new, Becomes(s, [r EXCEPT !.at = "materialise", !.attempt = @ + 1,
                                          !.delta = new, !.pending = TRUE])
      PROVE  Proves(s)
  <2> DEFINE q == [r EXCEPT !.at = "materialise", !.attempt = @ + 1, !.delta = new,
                            !.pending = TRUE]
  <2>1. /\ q.at = "materialise" /\ q.lookup = r.lookup /\ q.rest = r.rest
        /\ q.reused = r.reused /\ q.result = r.result /\ q.made = r.made
        /\ q.files = r.files /\ q.status = r.status /\ q.pending = TRUE
        /\ q.attempt = r.attempt + 1
    BY <1>1 DEF Run
  <2>2. Becomes(s, q)
    BY <1>2
  <2> HIDE DEF q, r
  <2>3. q.attempt > 1
    BY <1>1, <2>1
  <2>4. Shown(q, sound) /\ Ahead(q) /\ Cached(q) /\ Completed(q, t)
    BY <1>1, <2>1 DEF Proven, Shown, Ahead, Cached, Completed
  <2>5. Accounted(q, t) /\ Reuses(q)
    BY <1>1, <2>1, <2>3 DEF Proven, Accounted, Reuses
  <2>6. Proven(q, t, sound)
    BY <2>4, <2>5 DEF Proven
  <2> QED BY <2>1, <2>2, <2>6 DEF Proves
<1>3. ASSUME NEW status \in {"SOLVER_FAILED", "CANCELLED"}, Becomes(s, Finish(r, status))
      PROVE  Proves(s)
  <2>1. status \in Statuses /\ status # "RUN_COMPLETED"
    BY DEF Statuses
  <2>2. Proven(Finish(r, status), t, sound) /\ Finish(r, status).at = "done"
    BY <1>1, <2>1, FinishProven, FinishTyped DEF Proven
  <2> QED BY <1>3, <2>2 DEF Proves
<1>4. \/ \E new \in 0..(Frozen + 1) :
           Becomes(s, [r EXCEPT !.at = "materialise", !.attempt = @ + 1,
                                !.delta = new, !.pending = TRUE])
      \/ \E status \in {"SOLVER_FAILED", "CANCELLED"} : Becomes(s, Finish(r, status))
  BY DEF Repair
<1> HIDE DEF r
<1> QED BY <1>2, <1>3, <1>4
-----------------------------------------------------------------------------
(* The invariant.                                                           *)

\* What a step leaves of the entry when it does not touch the solves.
LEMMA EntryStays ==
  ASSUME IInv, PInv, NEW s \in Solves, Proves(s), UNCHANGED <<task, sound>>,
         entry' \in {entry, NoEntry}
  PROVE  PInv'
<1>1. PICK q : /\ Proven(q, task[s], sound) /\ Becomes(s, q)
               /\ q.at = "restore" => run[s].at = "restore" \/ Verified
  BY DEF Proves
<1>2. run'[s] = q /\ \A u \in Solves \ {s} : run'[u] = run[u]
  BY <1>1 DEF IInv, Becomes
<1>3. \A u \in Solves : Proven(run'[u], task'[u], sound')
  BY <1>1, <1>2 DEF PInv
<1>4. EntryProven'
  <2>1. CASE entry' = entry
    BY <1>1, <1>2, <2>1 DEF PInv, EntryProven, Verified
  <2>2. CASE entry' = NoEntry
    BY <2>2 DEF EntryProven, NoEntry
  <2> QED BY <2>1, <2>2
<1> QED BY <1>3, <1>4 DEF PInv

\* What is published is the whole mesh that its own check accepted.
LEMMA PublishKeepsEntry ==
  ASSUME IInv, PInv, NEW s \in Solves, Publish(s), Proves(s)
  PROVE  PInv'
<1>1. CASE entry.there
  <2>1. UNCHANGED <<task, sound, entry>>
    BY <1>1 DEF Publish
  <2> QED BY <2>1, EntryStays
<1>2. CASE ~entry.there
  <2> DEFINE r == run[s]
  <2>1. /\ r \in Run /\ Shown(r, sound) /\ Cached(r) /\ r.at = "publish"
        /\ r.temporary \in SUBSET Files
    BY DEF IInv, PInv, Proven, Publish, Run
  <2>2. r.temporary = Files /\ sound
    BY <2>1 DEF Shown, Cached, Passed
  <2>3. /\ entry' = [there |-> TRUE, files |-> Files, manifest |-> Files]
        /\ UNCHANGED <<task, sound>>
    BY <1>2, <2>2 DEF Publish
  <2>4. PICK q : Proven(q, task[s], sound) /\ Becomes(s, q)
    BY DEF Proves
  <2>5. \A u \in Solves : Proven(run'[u], task'[u], sound')
    BY <2>3, <2>4 DEF PInv, IInv, Becomes
  <2>6. EntryProven'
    BY <2>2, <2>3 DEF EntryProven, Verified
  <2> QED BY <2>5, <2>6 DEF PInv
<1> QED BY <1>1, <1>2

LEMMA InitProven == Init => PInv
<1> SUFFICES ASSUME Init PROVE PInv
  OBVIOUS
<1>1. EntryProven
  BY DEF Init, NoEntry, EntryProven
<1>2. ASSUME NEW s \in Solves PROVE Proven(run[s], task[s], sound)
  <2> DEFINE r == run[s]
  <2>1. /\ r.at = "materialise" /\ r.rest = <<>> /\ r.reused = {} /\ r.result = Unrun
        /\ r.made = {} /\ r.lookup = "none" /\ r.pending = FALSE /\ r.status = "NONE"
    BY DEF Init, NewRun
  <2> HIDE DEF r
  <2>2. \A c \in Stages : Unrun[c] = "none"
    BY DEF Unrun
  <2>3. "check" \in Stages /\ Later \subseteq Stages /\ Ordered(<<>>)
    BY DEF Stages, Later, Ordered
  <2>4. Shown(r, sound) /\ Ahead(r)
    BY <2>1, <2>2, <2>3 DEF Shown, Ahead, Passed
  <2>5. Accounted(r, task[s]) /\ Reuses(r) /\ Cached(r) /\ Completed(r, task[s])
    BY <2>1, <2>2 DEF Accounted, Reuses, Cached, Completed
  <2> QED BY <2>4, <2>5 DEF Proven, r
<1> QED BY <1>1, <1>2 DEF PInv

LEMMA NextProven == IInv /\ PInv /\ [Next]_vars => PInv'
<1> SUFFICES ASSUME IInv, PInv, [Next]_vars PROVE PInv'
  OBVIOUS
<1>1. ASSUME NEW s \in Solves, Advance(s) PROVE PInv'
  <2>1. Proves(s)
    BY <1>1, MaterialiseProves, CacheProves, FreezePolicyProves, StepEndsProves,
       StepTimesOutProves, RunnerStopsProves, StoreProves, AssessProves,
       RepairProves
    DEF Advance
  <2>2. CASE Publish(s)
    BY <2>1, <2>2, PublishKeepsEntry
  <2>3. CASE ~Publish(s)
    <3>1. UNCHANGED <<task, sound>> /\ entry' \in {entry, NoEntry}
      BY <1>1, <2>3 DEF Advance, Materialise, Lookup, Quarantine, RestoreFile,
         RestoreHit, RestoreFails, FreezePolicy, StepEnds, StepTimesOut,
         RunnerStops,
         ExtractEvidence, StoreFile, StoreFails, Assess, Repair, Alone
    <3> QED BY <2>1, <3>1, EntryStays
  <2> QED BY <2>2, <2>3
<1>2. ASSUME NEW s \in Solves, Crash(s) PROVE PInv'
  <2> DEFINE q == Gone(run[s], "crashed")
  <2>1. run[s] \in Run /\ Proven(run[s], task[s], sound) /\ run[s].at # "done"
    BY <1>2 DEF Crash, IInv, PInv
  <2>2. Proven(q, task[s], sound) /\ q.at = "crashed"
    BY <2>1, CrashProven, GoneFields DEF Places
  <2>3. Becomes(s, q) /\ UNCHANGED <<task, sound, entry>>
    BY <1>2 DEF Crash
  <2> HIDE DEF q
  <2>4. Proves(s)
    BY <2>2, <2>3 DEF Proves
  <2> QED BY <2>3, <2>4, EntryStays
\* Nobody copies the entry that is damaged.
<1>3. ASSUME Rot PROVE PInv'
  <2>1. UNCHANGED <<task, run, sound>> /\ \A s \in Solves : run[s].at # "restore"
    BY <1>3 DEF Rot
  <2>2. entry'.there = entry.there /\ entry'.manifest = entry.manifest
    BY <1>3 DEF Rot, IInv, WorldOK
  <2>3. EntryProven'
    BY <2>1, <2>2 DEF PInv, EntryProven
  <2> QED BY <2>1, <2>3 DEF PInv
<1>4. ASSUME UNCHANGED vars PROVE PInv'
  BY <1>4 DEF vars, PInv, EntryProven, Verified
<1> QED BY <1>1, <1>2, <1>3, <1>4 DEF Next

\* Whatever is damaged in the derived cache, moved away while another solve copies
\* it, or published by a process that then dies, never shows as a failure of a
\* case: the mesh of a hit is whole and its check does not refuse it, and a solve
\* that missed the cache starts its mesh commands with none of its files.
THEOREM CorruptionHarmless == Spec => []CorruptionIsNotFailure
<1>1. IInv /\ PInv => CorruptionIsNotFailure
  BY DEF PInv, Proven, Shown, Cached, CorruptionIsNotFailure
<1> QED BY <1>1, InitGood, NextGood, InitProven, NextProven, PTL DEF Spec

\* A run completes on proof only, over any chain of repairs and reuses: its solver
\* reached the normal end on a whole mesh, its own check accepted the mesh that
\* its task judges, and what is reported as reused was made.
THEOREM CompletionProven == Spec => []CompletedIsProven
<1>1. PInv => ReusedIsProven
  BY DEF PInv, Proven, Shown, ReusedIsProven
<1>2. PInv => CompletedIsSolved /\ QualityIsOwn
  BY DEF PInv, Proven, Completed, CompletedIsSolved, SkipsSolve, QualityIsOwn
<1>3. IInv /\ PInv => CompletedIsProven
  BY <1>1, <1>2 DEF CompletedIsProven
<1> QED BY <1>3, InitGood, NextGood, InitProven, NextProven, PTL DEF Spec
-----------------------------------------------------------------------------
(* A solve comes nearer to its end with each of its steps.                 *)

\* The places that are ahead in an attempt.
Turn == [place \in Places |->
  CASE place = "materialise" -> 9 [] place = "lookup" -> 8
    [] place \in {"quarantine", "restore"} -> 7 [] place = "policy" -> 6
    [] place = "runner" -> 5 [] place = "store" -> 4 [] place = "publish" -> 3
    [] place = "assess" -> 2 [] place = "repair" -> 1
    [] place \in {"done", "crashed"} -> 0]

\* Turn at each place, as the steps below compare it.
LEMMA TurnIs ==
  /\ Turn["materialise"] = 9 /\ Turn["lookup"] = 8 /\ Turn["quarantine"] = 7
  /\ Turn["restore"] = 7 /\ Turn["policy"] = 6 /\ Turn["runner"] = 5
  /\ Turn["store"] = 4 /\ Turn["publish"] = 3 /\ Turn["assess"] = 2
  /\ Turn["repair"] = 1
BY DEF Turn, Places

\* In its place a solve copies one more file of the finite mesh, or writes one, or
\* has fewer commands ahead.
NearerInPlace(r, q) ==
  \/ r.at = "restore" /\ r.files \subseteq q.files /\ r.files # q.files
  \/ /\ r.at = "store" /\ q.files = r.files
     /\ r.temporary \subseteq q.temporary /\ r.temporary # q.temporary
  \/ r.at = "runner" /\ Len(q.rest) < Len(r.rest)

\* It is done, or in its next attempt, or at a later place, or nearer in its place.
Nearer(r, q) ==
  \/ q.at = "done"
  \/ q.attempt > r.attempt
  \/ q.attempt = r.attempt /\ Turn[q.at] < Turn[r.at]
  \/ q.attempt = r.attempt /\ q.at = r.at /\ NearerInPlace(r, q)

NearerNow(s) == Nearer(run[s], run'[s])

\* A step that gives a solve another record is the step to that record.
LEMMA BecameNearer ==
  ASSUME run \in [Solves -> Run], NEW s \in Solves, NEW q, Becomes(s, q),
         Nearer(run[s], q)
  PROVE  NearerNow(s)
BY DEF Becomes, NearerNow

\* A solve that finishes is done.
LEMMA FinishNearer ==
  ASSUME run \in [Solves -> Run], NEW s \in Solves, NEW r \in Run,
         NEW status \in Statuses, Becomes(s, Finish(r, status))
  PROVE  NearerNow(s)
<1>1. Nearer(run[s], Finish(r, status))
  BY FinishTyped DEF Nearer
<1> QED BY <1>1, BecameNearer

\* A case is made at the head of an attempt.
LEMMA NewCaseAt ==
  ASSUME NEW r \in Run, NEW t, NEW files
  PROVE  LET q == NewCase(r, t, files)
         IN  q.at \in {"lookup", "policy"} /\ q.attempt = r.attempt
                /\ "at" \in DOMAIN q /\ "attempt" \in DOMAIN q
<1> DEFINE rest == Plan(t, {})
           at == IF r.attempt = 1 /\ t.cached THEN "lookup" ELSE "policy"
<1>1. NewCase(r, t, files)
        = [r EXCEPT !.at = at, !.rest = rest, !.reused = {}, !.result = Unrun,
                    !.made = {}, !.files = files, !.lookup = "none",
                    !.courant = FALSE, !.pending = FALSE]
  BY DEF NewCase
<1>2. at \in {"lookup", "policy"}
  OBVIOUS
<1> HIDE DEF rest, at
<1> QED BY <1>1, <1>2 DEF Run

LEMMA ReusedCaseAt ==
  ASSUME NEW r \in Run, NEW t
  PROVE  LET q == ReusedCase(r, t)
         IN  q.at \in {"lookup", "policy"} /\ q.attempt = r.attempt
<1> DEFINE new == NewCase(r, t, r.files)
           skipped == SkippedStages(EarliestStage(t))
           rest == Plan(t, skipped)
           made == r.made \cap skipped
<1>1. ReusedCase(r, t) = [new EXCEPT !.rest = rest, !.reused = skipped, !.made = made]
  BY DEF ReusedCase
<1>2. /\ new.at \in {"lookup", "policy"} /\ new.attempt = r.attempt
      /\ "at" \in DOMAIN new /\ "attempt" \in DOMAIN new
  BY NewCaseAt
<1> HIDE DEF new, skipped, rest, made
<1> QED BY <1>1, <1>2

LEMMA MaterialiseNearer ==
  ASSUME IInv, NEW s \in Solves, Materialise(s)
  PROVE  NearerNow(s)
<1>1. run \in [Solves -> Run] /\ run[s] \in Run /\ run[s].at = "materialise"
  BY DEF IInv, Materialise
<1>2. ASSUME NEW q, Becomes(s, q), q.at \in {"lookup", "policy"},
             q.attempt = run[s].attempt
      PROVE  NearerNow(s)
  <2>1. Nearer(run[s], q)
    BY <1>1, <1>2, TurnIs DEF Nearer
  <2> QED BY <1>1, <1>2, <2>1, BecameNearer
<1>3. ASSUME NEW files, Becomes(s, NewCase(run[s], task[s], files)) PROVE NearerNow(s)
  BY <1>1, <1>2, <1>3, NewCaseAt
<1>4. CASE Becomes(s, ReusedCase(run[s], task[s]))
  BY <1>1, <1>2, <1>4, ReusedCaseAt
<1>5. ASSUME NEW status \in {"CASE_GENERATION_FAILED", "STATIC_INSPECTION_FAILED"},
             Becomes(s, Finish(run[s], status))
      PROVE  NearerNow(s)
  BY <1>1, <1>5, FinishNearer DEF Statuses
<1> QED BY <1>3, <1>4, <1>5 DEF Materialise

\* The cache is asked, its entry copied file by file or put aside.
LEMMA CacheNearer ==
  ASSUME IInv, NEW s \in Solves,
         Lookup(s) \/ Quarantine(s) \/ RestoreFile(s) \/ RestoreHit(s) \/ RestoreFails(s)
  PROVE  NearerNow(s)
<1>1. run \in [Solves -> Run] /\ run[s] \in Run /\ run[s].attempt \in Nat
  BY DEF IInv, Run, Attempts
<1>2. ASSUME NEW q, Becomes(s, q), q.attempt = run[s].attempt, Turn[q.at] < Turn[run[s].at]
      PROVE  NearerNow(s)
  BY <1>1, <1>2, BecameNearer DEF Nearer
<1>3. CASE Lookup(s)
  <2>1. CASE Becomes(s, [run[s] EXCEPT !.at = "policy", !.lookup = "miss"])
    <3> DEFINE q == [run[s] EXCEPT !.at = "policy", !.lookup = "miss"]
    <3>1. q.at = "policy" /\ q.attempt = run[s].attempt
      BY <1>1 DEF Run
    <3> HIDE DEF q
    <3>2. Turn[q.at] < Turn[run[s].at]
      BY <1>3, <3>1, TurnIs DEF Lookup
    <3>3. Becomes(s, q)
      BY <2>1 DEF q
    <3> QED BY <1>2, <3>1, <3>2, <3>3
  <2>2. ASSUME NEW place \in {"restore", "quarantine"},
               Becomes(s, [run[s] EXCEPT !.at = place])
        PROVE  NearerNow(s)
    <3> DEFINE q == [run[s] EXCEPT !.at = place]
    <3>1. q.at = place /\ q.attempt = run[s].attempt
      BY <1>1 DEF Run
    <3> HIDE DEF q
    <3>2. Turn[q.at] < Turn[run[s].at]
      BY <1>3, <3>1, TurnIs DEF Lookup
    <3>3. Becomes(s, q)
      BY <2>2 DEF q
    <3> QED BY <1>2, <3>1, <3>2, <3>3
  <2> QED BY <1>3, <2>1, <2>2 DEF Lookup
<1>4. CASE Quarantine(s)
  <2> DEFINE q == [run[s] EXCEPT !.at = "policy", !.lookup = "miss"]
  <2>1. q.at = "policy" /\ q.attempt = run[s].attempt
    BY <1>1 DEF Run
  <2>2. Becomes(s, q) /\ run[s].at = "quarantine"
    BY <1>4 DEF Quarantine
  <2> HIDE DEF q
  <2> QED BY <1>2, <2>1, <2>2, TurnIs
<1>5. CASE RestoreFile(s)
  <2>1. PICK f \in entry.files \ run[s].files :
          Becomes(s, [run[s] EXCEPT !.files = @ \cup {f}])
    BY <1>5 DEF RestoreFile
  <2> DEFINE q == [run[s] EXCEPT !.files = @ \cup {f}]
  <2>2. q.at = run[s].at /\ q.attempt = run[s].attempt /\ q.files = run[s].files \cup {f}
    BY <1>1 DEF Run
  <2>3. Becomes(s, q) /\ run[s].at = "restore"
    BY <1>5, <2>1 DEF RestoreFile
  <2> HIDE DEF q
  <2>4. Nearer(run[s], q)
    BY <2>2, <2>3 DEF Nearer, NearerInPlace
  <2> QED BY <1>1, <2>3, <2>4, BecameNearer
<1>6. CASE RestoreHit(s)
  <2> DEFINE rest == Plan(task[s], {"mesh"})
             q == [run[s] EXCEPT !.at = "policy", !.lookup = "hit", !.reused = {"mesh"},
                                 !.made = {"mesh"}, !.rest = rest]
  <2>1. Becomes(s, q) /\ run[s].at = "restore"
    BY <1>6 DEF RestoreHit
  <2> HIDE DEF rest
  <2>2. q.at = "policy" /\ q.attempt = run[s].attempt
    BY <1>1 DEF Run
  <2> HIDE DEF q
  <2> QED BY <1>2, <2>1, <2>2, TurnIs
<1>7. CASE RestoreFails(s)
  <2> DEFINE q == [run[s] EXCEPT !.at = "policy", !.lookup = "miss", !.files = {}]
  <2>1. q.at = "policy" /\ q.attempt = run[s].attempt
    BY <1>1 DEF Run
  <2>2. Becomes(s, q) /\ run[s].at = "restore"
    BY <1>7 DEF RestoreFails
  <2> HIDE DEF q
  <2> QED BY <1>2, <2>1, <2>2, TurnIs
<1> QED BY <1>3, <1>4, <1>5, <1>6, <1>7

LEMMA FreezePolicyNearer ==
  ASSUME IInv, NEW s \in Solves, FreezePolicy(s)
  PROVE  NearerNow(s)
<1>1. run \in [Solves -> Run] /\ run[s] \in Run /\ run[s].at = "policy"
  BY DEF IInv, FreezePolicy
<1>2. CASE Becomes(s, Finish(run[s], "BLOCKED_ENVIRONMENT"))
  BY <1>1, <1>2, FinishNearer DEF Statuses
<1>3. ASSUME NEW backend, Becomes(s, [run[s] EXCEPT !.at = "runner", !.backend = backend])
      PROVE  NearerNow(s)
  <2> DEFINE q == [run[s] EXCEPT !.at = "runner", !.backend = backend]
  <2>1. q.at = "runner" /\ q.attempt = run[s].attempt
    BY <1>1 DEF Run
  <2> HIDE DEF q
  <2>2. Becomes(s, q)
    BY <1>3 DEF q
  <2>3. Nearer(run[s], q)
    BY <1>1, <2>1, TurnIs DEF Nearer
  <2> QED BY <1>1, <2>2, <2>3, BecameNearer
<1> QED BY <1>2, <1>3 DEF FreezePolicy

\* After a command fewer are ahead, and none after one that failed.
LEMMA SteppedNearer ==
  ASSUME NEW r \in Run, r.at = "runner", r.rest # <<>>, NEW c \in Stages,
         NEW o \in StepResults, NEW seconds \in Nat, NEW files \in SUBSET Files,
         NEW courant \in BOOLEAN
  PROVE  Nearer(r, Stepped(r, c, o, seconds, files, courant))
<1> DEFINE q == Stepped(r, c, o, seconds, files, courant)
<1>1. Fields(r, c, o, files, q)
  BY SteppedFields
<1>2. q.at = r.at /\ q.attempt = r.attempt
      /\ q.rest = IF Succeeds(o) THEN Tail(r.rest) ELSE <<>>
  BY <1>1 DEF Fields
<1>3. r.rest \in Seq(Stages)
  BY DEF Run, Commands
<1>4. Len(Tail(r.rest)) < Len(r.rest) /\ Len(<<>>) < Len(r.rest)
  BY <1>3
<1> HIDE DEF q
<1>5. Len(q.rest) < Len(r.rest)
  BY <1>2, <1>4
<1>6. Nearer(r, q)
  BY <1>2, <1>5 DEF Nearer, NearerInPlace
<1> QED BY <1>6 DEF q

LEMMA RunnerNearer ==
  ASSUME IInv, NEW s \in Solves, StepEnds(s) \/ StepTimesOut(s) \/ RunnerStops(s)
  PROVE  NearerNow(s)
<1> DEFINE r == run[s]
           c == Head(r.rest)
<1>1. /\ run \in [Solves -> Run] /\ r \in Run /\ r.at = "runner" /\ r.rest # <<>>
      /\ c \in Stages
  <2>1. run \in [Solves -> Run] /\ r \in Run
    BY DEF IInv
  <2>2. r.at = "runner" /\ r.rest # <<>>
    BY DEF StepEnds, StepTimesOut, RunnerStops
  <2> QED BY <2>1, <2>2 DEF Run, Commands
<1>2. ASSUME NEW o \in StepResults, NEW seconds \in Nat, NEW files \in SUBSET Files,
             NEW courant \in BOOLEAN, Becomes(s, Stepped(r, c, o, seconds, files, courant))
      PROVE  NearerNow(s)
  <2>1. Nearer(r, Stepped(r, c, o, seconds, files, courant))
    BY <1>1, <1>2, SteppedNearer
  <2> QED BY <1>1, <1>2, <2>1, BecameNearer
<1>3. ASSUME NEW o, NEW files \in FilesAfter(r, c, o), NEW courant \in CourantAfter(r, c)
      PROVE  files \in SUBSET Files /\ courant \in BOOLEAN
  BY <1>1, <1>3 DEF FilesAfter, CourantAfter, Run
<1>4. CASE StepEnds(s)
  <2>1. Limit(s, c) \in Nat
    BY <1>1, <1>4, LimitTyped DEF StepEnds
  <2>2. Outcomes(s, c) \subseteq StepResults
    BY DEF Outcomes, StepResults
  <2>3. PICK o \in Outcomes(s, c), seconds \in 1..Limit(s, c) :
          \E files \in FilesAfter(r, c, o), courant \in CourantAfter(r, c) :
            Becomes(s, Stepped(r, c, o, seconds, files, courant))
    BY <1>4 DEF StepEnds
  <2>4. PICK files \in FilesAfter(r, c, o), courant \in CourantAfter(r, c) :
          Becomes(s, Stepped(r, c, o, seconds, files, courant))
    BY <2>3
  <2>5. o \in StepResults /\ seconds \in Nat /\ files \in SUBSET Files /\ courant \in BOOLEAN
    BY <1>3, <2>1, <2>2, <2>3, <2>4
  <2> QED BY <1>2, <2>4, <2>5
<1>5. CASE StepTimesOut(s)
  <2>1. Limit(s, c) \in Nat /\ Grace \in Nat
    BY <1>1, <1>5, LimitTyped, ExecutionAssumption DEF StepTimesOut, ExecutionAssumption
  <2>2. PICK seconds \in Limit(s, c)..(Limit(s, c) + Grace) :
          \E files \in FilesAfter(r, c, "timeout"), courant \in CourantAfter(r, c) :
            LET stopped == Stepped(r, c, "timeout", seconds, files, courant)
            IN  Becomes(s, IF Limit(s, c) < Own[c] THEN Finish(stopped, Exhausted)
                           ELSE stopped)
    BY <1>5 DEF StepTimesOut, Exhausted
  <2>3. PICK files \in FilesAfter(r, c, "timeout"), courant \in CourantAfter(r, c) :
            LET stopped == Stepped(r, c, "timeout", seconds, files, courant)
            IN  Becomes(s, IF Limit(s, c) < Own[c] THEN Finish(stopped, Exhausted)
                           ELSE stopped)
    BY <2>2
  <2>4. "timeout" \in StepResults /\ seconds \in Nat /\ files \in SUBSET Files
        /\ courant \in BOOLEAN
    BY <1>3, <2>1, <2>2, <2>3 DEF StepResults
  <2> DEFINE stopped == Stepped(r, c, "timeout", seconds, files, courant)
  <2>5. stopped \in Run
    BY <1>1, <2>4, SteppedTyped
  <2>6. CASE Becomes(s, Finish(stopped, Exhausted))
    BY <1>1, <2>5, <2>6, FinishNearer DEF Statuses, Exhausted
  <2>7. CASE Becomes(s, stopped)
    BY <1>2, <2>4, <2>7
  <2> QED BY <2>3, <2>6, <2>7
<1>6. CASE RunnerStops(s)
  <2>1. [r EXCEPT !.result[c] = "cancelled"] \in Run
    <3>1. [r.result EXCEPT ![c] = "cancelled"] \in [Stages -> StepResults]
      BY <1>1 DEF Run, StepResults
    <3> DEFINE result == [r.result EXCEPT ![c] = "cancelled"]
    <3>2. [r EXCEPT !.result[c] = "cancelled"] = [r EXCEPT !.result = result]
      BY <1>1 DEF Run
    <3> HIDE DEF result
    <3>3. [r EXCEPT !.result = result] \in Run
      BY <1>1, <3>1 DEF Run, result
    <3> QED BY <3>2, <3>3
  <2>2. ASSUME NEW status \in {Exhausted, "BLOCKED_ENVIRONMENT"}, Becomes(s, Finish(r, status))
        PROVE  NearerNow(s)
    BY <1>1, <2>2, FinishNearer DEF Statuses, Exhausted
  <2>3. CASE Becomes(s, Finish([r EXCEPT !.result[c] = "cancelled"], "CANCELLED"))
    BY <1>1, <2>1, <2>3, FinishNearer DEF Statuses
  <2> QED BY <1>6, <2>2, <2>3 DEF RunnerStops, Exhausted
<1> QED BY <1>4, <1>5, <1>6

\* The evidence is taken and a new mesh published.
LEMMA StoreNearer ==
  ASSUME IInv, NEW s \in Solves,
         ExtractEvidence(s) \/ StoreFile(s) \/ Publish(s) \/ StoreFails(s)
  PROVE  NearerNow(s)
<1>1. run \in [Solves -> Run] /\ run[s] \in Run
  BY DEF IInv
<1>2. ASSUME NEW q, Becomes(s, q), q.attempt = run[s].attempt, Turn[q.at] < Turn[run[s].at]
      PROVE  NearerNow(s)
  BY <1>1, <1>2, BecameNearer DEF Nearer
<1>3. ASSUME NEW place, Becomes(s, [run[s] EXCEPT !.at = place]),
             Turn[place] < Turn[run[s].at]
      PROVE  NearerNow(s)
  <2> DEFINE q == [run[s] EXCEPT !.at = place]
  <2>1. q.at = place /\ q.attempt = run[s].attempt
    BY <1>1 DEF Run
  <2> HIDE DEF q
  <2>2. Becomes(s, q)
    BY <1>3 DEF q
  <2> QED BY <1>2, <1>3, <2>1, <2>2
<1>4. CASE ExtractEvidence(s)
  <2>1. \E place \in {"store", "assess"} : Becomes(s, [run[s] EXCEPT !.at = place])
    BY <1>4 DEF ExtractEvidence
  <2>2. run[s].at = "runner"
    BY <1>4 DEF ExtractEvidence
  <2> QED BY <1>3, <2>1, <2>2, TurnIs
<1>5. CASE StoreFile(s)
  <2>1. run[s].at = "store"
    BY <1>5 DEF StoreFile
  <2>2. ASSUME NEW f \in run[s].files \ run[s].temporary,
               Becomes(s, [run[s] EXCEPT !.temporary = @ \cup {f}])
        PROVE  NearerNow(s)
    <3> DEFINE q == [run[s] EXCEPT !.temporary = @ \cup {f}]
    <3>1. /\ q.at = run[s].at /\ q.attempt = run[s].attempt /\ q.files = run[s].files
          /\ q.temporary = run[s].temporary \cup {f}
      BY <1>1 DEF Run
    <3> HIDE DEF q
    <3>2. Becomes(s, q)
      BY <2>2 DEF q
    <3>3. Nearer(run[s], q)
      BY <2>1, <2>2, <3>1 DEF Nearer, NearerInPlace
    <3> QED BY <1>1, <3>2, <3>3, BecameNearer
  <2>3. CASE Becomes(s, [run[s] EXCEPT !.at = "publish"])
    BY <1>3, <2>1, <2>3, TurnIs
  <2> QED BY <1>5, <2>2, <2>3 DEF StoreFile
<1>6. CASE Publish(s) \/ StoreFails(s)
  <2> DEFINE q == [run[s] EXCEPT !.at = "assess", !.temporary = {}]
  <2>1. q.at = "assess" /\ q.attempt = run[s].attempt
    BY <1>1 DEF Run
  <2>2. Becomes(s, q) /\ run[s].at \in {"store", "publish"}
    BY <1>6 DEF Publish, StoreFails
  <2> HIDE DEF q
  <2> QED BY <1>2, <2>1, <2>2, TurnIs
<1> QED BY <1>4, <1>5, <1>6

\* An attempt is judged, and a repair begins the next one or ends the solve.
LEMMA JudgedNearer ==
  ASSUME IInv, NEW s \in Solves, Assess(s) \/ Repair(s)
  PROVE  NearerNow(s)
<1> DEFINE r == run[s]
<1>1. run \in [Solves -> Run] /\ r \in Run /\ r.attempt \in Nat
  BY DEF IInv, Run, Attempts
<1>2. ASSUME NEW status \in Statuses, Becomes(s, Finish(r, status)) PROVE NearerNow(s)
  BY <1>1, <1>2, FinishNearer
<1>3. CASE Assess(s)
  <2>1. AssessNativeRun(r, task[s]) \in Statuses
    BY DEF AssessNativeRun, Statuses
  <2>2. ASSUME NEW fingerprint,
               Becomes(s, [r EXCEPT !.at = "repair", !.fingerprint = fingerprint])
        PROVE  NearerNow(s)
    <3> DEFINE q == [r EXCEPT !.at = "repair", !.fingerprint = fingerprint]
    <3>1. q.at = "repair" /\ q.attempt = r.attempt
      BY <1>1 DEF Run
    <3>2. r.at = "assess"
      BY <1>3 DEF Assess
    <3> HIDE DEF q
    <3>3. Becomes(s, q)
      BY <2>2 DEF q
    <3>4. Nearer(r, q)
      BY <3>1, <3>2, TurnIs DEF Nearer
    <3> QED BY <1>1, <3>3, <3>4, BecameNearer
  <2>3. {"RUN_COMPLETED", "ACCEPTANCE_FAILED"} \subseteq Statuses
    BY DEF Statuses
  <2> QED BY <1>2, <1>3, <2>1, <2>2, <2>3 DEF Assess
<1>4. CASE Repair(s)
  <2>1. ASSUME NEW new, Becomes(s, [r EXCEPT !.at = "materialise", !.attempt = @ + 1,
                                             !.delta = new, !.pending = TRUE])
        PROVE  NearerNow(s)
    <3> DEFINE q == [r EXCEPT !.at = "materialise", !.attempt = @ + 1,
                              !.delta = new, !.pending = TRUE]
    <3>1. q.attempt = r.attempt + 1
      BY <1>1 DEF Run
    <3> HIDE DEF q
    <3>2. Becomes(s, q)
      BY <2>1 DEF q
    <3>3. Nearer(r, q)
      BY <1>1, <3>1 DEF Nearer
    <3> QED BY <1>1, <3>2, <3>3, BecameNearer
  <2>2. {"SOLVER_FAILED", "CANCELLED"} \subseteq Statuses
    BY DEF Statuses
  <2> QED BY <1>2, <1>4, <2>1, <2>2 DEF Repair
<1> QED BY <1>3, <1>4

LEMMA AdvanceNearer ==
  ASSUME IInv, NEW s \in Solves, Advance(s)
  PROVE  NearerNow(s)
BY MaterialiseNearer, CacheNearer, FreezePolicyNearer, RunnerNearer, StoreNearer,
   JudgedNearer DEF Advance

\* Whoever takes a step, it is the step of one solve.
LEMMA OthersStay ==
  ASSUME IInv, [Next]_vars, NEW s \in Solves, ~Advance(s)
  PROVE  run'[s] = run[s] \/ run'[s].at = "crashed"
<1>0. run \in [Solves -> Run] /\ run[s] \in Run
  BY DEF IInv
<1>1. ASSUME NEW u \in Solves, u # s, NEW q, Becomes(u, q) PROVE run'[s] = run[s]
  BY <1>0, <1>1 DEF Becomes
<1>2. ASSUME NEW u \in Solves, u # s, Advance(u) PROVE run'[s] = run[s]
  <2>1. IInv /\ (\E q : Becomes(u, q))
    BY <1>2 DEF Advance, Materialise, Lookup, Quarantine, RestoreFile, RestoreHit,
       RestoreFails, FreezePolicy, StepEnds, StepTimesOut, RunnerStops,
       ExtractEvidence, StoreFile, Publish, StoreFails, Assess, Repair
  <2> QED BY <1>1, <1>2, <2>1
<1>3. ASSUME NEW u \in Solves, u # s, Crash(u) PROVE run'[s] = run[s]
  BY <1>1, <1>3 DEF Crash
<1>4. CASE Crash(s)
  <2>1. run'[s] = Gone(run[s], "crashed")
    BY <1>0, <1>4 DEF Crash, Becomes
  <2> QED BY <1>0, <2>1, GoneTyped DEF Places
<1> QED BY <1>2, <1>3, <1>4 DEF Next, Rot, vars

\* Whatever the commands come to, whatever happens to the cache and whatever other
\* solves do with it, each step of a solve brings its end nearer, in an order bounded
\* by its task's attempts, the places of an attempt, the files of a mesh and the
\* commands of a plan, and nothing but its death interferes: what remains of
\* ExecutionEnds is that a live process keeps taking steps.
THEOREM ExecutionDescends ==
  Spec => [][\A s \in Solves :
               /\ Advance(s) => Nearer(run[s], run'[s]) /\ run'[s].attempt <= task[s].attempts
               /\ ~Advance(s) => run'[s] = run[s] \/ run'[s].at = "crashed"]_vars
<1>1. ASSUME IInv, IInv', [Next]_vars, NEW s \in Solves
      PROVE  /\ Advance(s) => Nearer(run[s], run'[s]) /\ run'[s].attempt <= task[s].attempts
             /\ ~Advance(s) => run'[s] = run[s] \/ run'[s].at = "crashed"
  <2>1. Advance(s) => Nearer(run[s], run'[s])
    BY <1>1, AdvanceNearer DEF NearerNow
  <2>2. task' = task
    BY <1>1 DEF Next, Advance, Crash, Rot, vars, Alone, Materialise, Lookup, Quarantine,
       RestoreFile, RestoreHit, RestoreFails, FreezePolicy, StepEnds, StepTimesOut,
       RunnerStops, ExtractEvidence, StoreFile, Publish, StoreFails, Assess, Repair
  <2>3. run'[s].attempt <= task'[s].attempts
    BY <1>1 DEF IInv, Good, WithinAttempts
  <2> QED BY <1>1, <2>1, <2>2, <2>3, OthersStay
<1>2. IInv /\ IInv' /\ [Next]_vars =>
        [\A s \in Solves :
           /\ Advance(s) => Nearer(run[s], run'[s]) /\ run'[s].attempt <= task[s].attempts
           /\ ~Advance(s) => run'[s] = run[s] \/ run'[s].at = "crashed"]_vars
  BY <1>1
<1> QED BY <1>2, InitGood, NextGood, PTL DEF Spec
==============================================================================
