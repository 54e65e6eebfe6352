-------------------------- MODULE DesktopJobProofs --------------------------
(***************************************************************************)
(* Proofs about DesktopJob, for every number of jobs, of deaths and of     *)
(* times the window is closed: the window is told at most once that a job  *)
(* has finished, and no second job starts while one is at work.            *)
(*                                                                         *)
(* The first rests on what the controller is bound to: a store that was    *)
(* not reported is a job that had not finished when the controller was     *)
(* bound to it.  The second on the order of the jobs: while a job is at    *)
(* work that the controller never saw unclaimed, no later job exists, so   *)
(* the scan from the latest job finds it, and what the controller knows of *)
(* it keeps saying that something runs until it does not.                  *)
(*                                                                         *)
(* A third result is what StartedIsReported rests on besides a running     *)
(* event loop: a job that was started is polled until it is reported.      *)
(***************************************************************************)
EXTENDS DesktopJob, TLAPS

Places == {"closed", "idle", "scan", "attach", "observe", "read", "reconcile",
           "report", "refused", "refused for nothing"}

Controls ==
  [at : Places, store : 0..Last, decision : Decisions, shown : Decisions,
   timer : BOOLEAN, emitted : BOOLEAN, process : {"none", "validate", "other"},
   seen : {"absent"} \cup ActiveStates \cup TerminalStates, next : 0..Last,
   first : Decisions, after : {"none", "set", "show"}, held : Decisions,
   busy : BOOLEAN, started : 0..Last]

Typed ==
  /\ job \in [Jobs -> JobRecord]
  /\ ctl \in Controls
  /\ finished \in [Jobs -> Nat]
  /\ missed \subseteq Jobs /\ old \subseteq Jobs

Exists(j) == job[j].state # "absent"

\* A worker that has not claimed its job has done nothing to it, and one that has
\* keeps it active.
WorkersAct ==
  \A j \in Jobs :
    /\ job[j].worker \in {"launched", "locked"} =>
         job[j].state = "SUBMITTED" /\ ~job[j].child /\ ~job[j].run
    /\ job[j].worker = "alive" => job[j].state \in ActiveStates
    /\ ~Exists(j) => job[j] = NoJob
    /\ Exists(j) => \A i \in Jobs : i < j => Exists(i)

\* What the controller names exists.
NamesExist ==
  /\ ctl.store # 0 => Exists(ctl.store)
  /\ ctl.first # Undecided => ctl.first.job \in Jobs /\ Exists(ctl.first.job)
  /\ ctl.at \in {"attach", "observe"} => ctl.held.job \in Jobs /\ Exists(ctl.held.job)
  /\ ctl.at \in {"read", "reconcile", "report"} \/ ctl.timer => ctl.store # 0

\* What a call does after its poll.
AfterByPlace ==
  /\ ctl.at \in {"attach", "observe"} => ctl.after = "set"
  /\ ctl.at \in {"closed", "idle", "scan", "refused", "refused for nothing"} =>
       ctl.after = "none"

CInv == Typed /\ WorkersAct /\ NamesExist /\ AfterByPlace
-----------------------------------------------------------------------------
(* The window is told once.                                                 *)

\* A job of which nothing was said and that had not finished before.
Unreported(j) == finished[j] = 0 /\ j \notin old

ReportedHaveEnded ==
  \A j \in Jobs : /\ finished[j] <= 1
                  /\ finished[j] = 1 => Terminal(j) /\ j \notin old
                  /\ j \in old => Terminal(j)

StoreIsUnreported ==
  /\ ctl.store # 0 /\ ~ctl.emitted => Unreported(ctl.store)
  /\ ctl.at = "attach" => Unreported(ctl.held.job)

SeenHasEnded ==
  /\ ctl.at \in {"reconcile", "report"} /\ ctl.seen \in TerminalStates
  => Terminal(ctl.store)

FInv == ReportedHaveEnded /\ StoreIsUnreported /\ SeenHasEnded
-----------------------------------------------------------------------------
(* One job at a time.                                                       *)

\* A job at work that the controller never saw before its worker claimed it.
AtWork(i) == Alive(i) /\ i \notin missed

RunningStates == {"RUNNING", "UNRESPONSIVE", "ORPHANED_ACTIVE"}

AtWorkIsLatest ==
  \A i \in Jobs : AtWork(i) => \A h \in Jobs : h > i => ~Exists(h)

FreeToTurn ==
  ctl.at \in {"scan", "attach", "observe"} \/ (ctl.at = "idle" /\ ~ctl.busy) =>
     ~IsRunning(ctl)

ScanFinds ==
  \A i \in Jobs : AtWork(i) =>
    /\ ctl.at = "scan" => ctl.next >= i /\ ctl.first = Undecided
    /\ ctl.at = "attach" =>
         ctl.held.job = i /\ job[i].worker = "alive" /\ ctl.held.state \in Attachable
    /\ ctl.at # "observe"

BoundKnows ==
  \A i \in Jobs :
    AtWork(i) /\ ctl.at \notin {"closed", "scan", "attach", "observe"} =>
      /\ ctl.store = i
      /\ ctl.after # "show"
      /\ ctl.after = "set" => ctl.held.state \in Attachable
      /\ ctl.after = "none" =>
           ctl.decision = Undecided \/ ctl.decision.state \in RunningStates
      /\ job[i].worker # "alive" => ctl.decision = Undecided /\ ctl.after = "none"

BInv == AtWorkIsLatest /\ FreeToTurn /\ ScanFinds /\ BoundKnows

Inv == CInv /\ FInv /\ BInv
-----------------------------------------------------------------------------
(* The operators of the controller.                                         *)

Verdicts == [state : Diagnoses, code : DecisionCodes, actions : SUBSET Actions]

\* The decision about a terminal job without a run.
LEMMA TerminalIs ==
    ASSUME NEW e
    PROVE  /\ WithoutRun(e) \in Verdicts
           /\ WithoutRun(e).state \in {"FINALIZED", "EVIDENCE_DAMAGED"}
<1>1. CASE e.state = "CANCELLED" /\ e.code = "USER_CANCELLED"
  BY <1>1 DEF WithoutRun, Decision, Verdicts, Diagnoses, Actions, DecisionCodes
<1>2. CASE /\ ~(e.state = "CANCELLED" /\ e.code = "USER_CANCELLED")
           /\ e.state = "FAILED"
           /\ e.code \in {"JOB_BOOTSTRAP_FAILED", "JOB_STATUS_WRITE_FAILED"}
  <2>1. WithoutRun(e) = Decision("FINALIZED", e.code, {"inspect"})
    BY <1>2 DEF WithoutRun
  <2>2. e.code \in DecisionCodes
    BY <1>2 DEF DecisionCodes
  <2> QED BY <2>1, <2>2 DEF Decision, Verdicts, Diagnoses, Actions, DecisionCodes
<1>3. CASE /\ ~(e.state = "CANCELLED" /\ e.code = "USER_CANCELLED")
           /\ ~(/\ e.state = "FAILED"
                /\ e.code \in {"JOB_BOOTSTRAP_FAILED", "JOB_STATUS_WRITE_FAILED"})
  <2>1. CASE e.solves
    BY <1>3, <2>1 DEF WithoutRun, Decision, Verdicts, Diagnoses, Actions, DecisionCodes
  <2>2. CASE ~e.solves
    BY <1>3, <2>2 DEF WithoutRun, Decision, Verdicts, Diagnoses, Actions, DecisionCodes
  <2> QED BY <2>1, <2>2
<1> QED BY <1>1, <1>2, <1>3

\* The decision about a job that stopped.
LEMMA StoppedIs ==
    ASSUME NEW e
    PROVE  Stopped(e) \in Verdicts /\ Stopped(e).state = "ORPHANED_STOPPED"
<1> USE DEF Stopped, Decision, Verdicts, Diagnoses, Actions, DecisionCodes
<1>1. CASE e.run /\ e.control
  BY <1>1
<1>2. CASE e.run /\ ~e.control
  BY <1>2
<1>3. CASE ~e.run /\ e.control
  BY <1>3
<1>4. CASE ~e.run /\ ~e.control
  BY <1>4
<1> QED BY <1>1, <1>2, <1>3, <1>4

\* The decision of reconcile_job: attachable with a live owner that holds the
\* lock, orphaned with no worker and nobody at the lock.
LEMMA DecideIs ==
    ASSUME NEW e
    PROVE  /\ Decide(e) \in Verdicts
           /\ Decide(e).state \in Attachable <=> Owned(e)
           /\ Decide(e).state = "ORPHANED_ACTIVE" => Orphan(e)
           /\ Decide(e).state = "ORPHANED_STOPPED" => Silent(e)
<1> USE DEF Decision, Verdicts, Diagnoses, Actions, DecisionCodes, Attachable
<1>1. CASE Owned(e)
  <2>1. CASE e.fresh
    BY <1>1, <2>1 DEF Decide
  <2>2. CASE ~e.fresh
    BY <1>1, <2>2 DEF Decide
  <2> QED BY <2>1, <2>2
<1>2. CASE ~Owned(e) /\ Orphan(e)
  BY <1>2 DEF Decide
<1>3. CASE ~Owned(e) /\ ~Orphan(e) /\ e.run /\ ~e.path /\ e.artifact = "valid"
  <2>1. CASE e.resume
    BY <1>3, <2>1 DEF Decide
  <2>2. CASE ~e.resume
    BY <1>3, <2>2 DEF Decide
  <2> QED BY <2>1, <2>2
<1>4. CASE ~Owned(e) /\ ~Orphan(e) /\ ~(e.run /\ ~e.path /\ e.artifact = "valid")
  <2>1. CASE Damaged(e)
    BY <1>4, <2>1 DEF Decide
  <2>2. CASE ~Damaged(e) /\ e.state \in TerminalStates
    <3>1. Decide(e) = WithoutRun(e)
      BY <1>4, <2>2 DEF Decide
    <3> QED BY <1>4, <3>1, TerminalIs
  <2>3. CASE ~Damaged(e) /\ e.state \notin TerminalStates /\ Silent(e)
    <3>1. Decide(e) = Stopped(e)
      BY <1>4, <2>3 DEF Decide
    <3> QED BY <1>4, <2>3, <3>1, StoppedIs
  <2>4. CASE ~Damaged(e) /\ e.state \notin TerminalStates /\ ~Silent(e)
    BY <1>4, <2>4 DEF Decide
  <2> QED BY <2>1, <2>2, <2>3, <2>4
<1> QED BY <1>1, <1>2, <1>3, <1>4

\* What reconcile_job says of a job names the job, and says that its worker lives
\* exactly when it has claimed the job.
LEMMA ReconciledIs ==
    ASSUME Typed, WorkersAct, NEW j \in Jobs, NEW d \in Reconciled(j)
    PROVE  /\ d \in Decisions
           /\ d.job = j
           /\ d.state \in Attachable <=> job[j].worker = "alive"
           /\ d.state \in {"ORPHANED_ACTIVE", "ORPHANED_STOPPED"} =>
                job[j].worker \notin {"locked", "alive"}
           /\ d.state = "ORPHANED_ACTIVE" => job[j].child
<1>1. PICK fresh \in BOOLEAN : d = About(j, Decide(EvidenceOf(j, fresh)))
  BY DEF Reconciled
<1>2. PICK e : e = EvidenceOf(j, fresh)
  OBVIOUS
<1>3. /\ e.worker = (job[j].worker = "alive")
      /\ e.lock = (job[j].worker \in {"locked", "alive"})
      /\ e.child = job[j].child
      /\ e.state = job[j].state
  BY <1>2 DEF EvidenceOf
<1>4. Owned(e) <=> job[j].worker = "alive"
  BY <1>3 DEF Owned, WorkersAct
<1>5. Orphan(e) \/ Silent(e) => job[j].worker \notin {"locked", "alive"}
  BY <1>3 DEF Orphan, Silent
<1>6. d = About(j, Decide(e))
  BY <1>1, <1>2
<1>7. /\ d.job = j /\ d.state = Decide(e).state
      /\ d \in Decisions
  BY <1>6, DecideIs, DesktopAssumption
  DEF About, Decisions, Verdicts, Jobs, DesktopAssumption
<1>8. Orphan(e) => job[j].child
  BY <1>3 DEF Orphan
<1> QED BY <1>4, <1>5, <1>7, <1>8, DecideIs
-----------------------------------------------------------------------------
LEMMA UndecidedIs ==
    /\ Undecided \in Decisions
    /\ Undecided.job = 0
    /\ \A d \in Decisions : d.job \in Jobs => d # Undecided
BY DesktopAssumption
DEF Undecided, About, Decision, Decisions, Diagnoses, Actions, DecisionCodes, Jobs,
    DesktopAssumption

LEMMA LastIs ==
    0 \in 0..Last /\ Last \in 0..Last /\ \A i \in Jobs : Last >= i
BY DesktopAssumption DEF Jobs, DesktopAssumption

LEMMA ClosedIs ==
    Closed \in Controls
BY UndecidedIs, DesktopAssumption DEF Closed, Controls, Places, DesktopAssumption

\* The end of a call changes its place and the buttons only.
LEMMA IdleIs ==
    ASSUME NEW c \in Controls
    PROVE  /\ Idle(c) \in Controls
           /\ Idle(c).at = "idle"
           /\ Idle(c).busy = IsRunning(c)
           /\ IsRunning(Idle(c)) <=> IsRunning(c)
           /\ Idle(c) = [c EXCEPT !.at = "idle", !.busy = Idle(c).busy]
<1>1. IsRunning(c) \in BOOLEAN
  BY DEF IsRunning
<1>2. PICK b \in BOOLEAN : b = IsRunning(c)
  BY <1>1
<1>3. Idle(c) = [c EXCEPT !.at = "idle", !.busy = b]
  BY <1>2 DEF Idle
<1>4. /\ Idle(c) \in Controls
      /\ Idle(c).at = "idle" /\ Idle(c).busy = b
      /\ Idle(c).process = c.process /\ Idle(c).store = c.store
      /\ Idle(c).decision = c.decision
  BY <1>3 DEF Controls, Places
<1>5. IsRunning(Idle(c)) <=> IsRunning(c)
  BY <1>4 DEF IsRunning
<1> QED BY <1>2, <1>3, <1>4, <1>5

\* A decision is shown and may stop the polling; the store keeps its place.
LEMMA SetDecisionIs ==
    ASSUME NEW c \in Controls, NEW d \in Decisions
    PROVE  \E s \in Decisions, t \in BOOLEAN :
             /\ t => c.timer
             /\ SetDecision(c, d) =
                  [c EXCEPT !.decision = d, !.shown = s, !.timer = t]
<1> DEFINE s == IF d # c.decision THEN d ELSE c.shown
           t == /\ c.timer
                /\ d.state \notin {"ORPHANED_STOPPED", "FINALIZED", "EVIDENCE_DAMAGED"}
<1>1. s \in Decisions /\ t \in BOOLEAN /\ (t => c.timer)
  BY DEF Controls
<1>2. SetDecision(c, d) = [c EXCEPT !.decision = d, !.shown = s, !.timer = t]
  BY DEF SetDecision, Controls
<1> HIDE DEF s, t
<1> QED BY <1>1, <1>2

\* What a poll leaves behind.
LEMMA AfterwardsIs ==
    ASSUME NEW c \in Controls
    PROVE  LET d == Afterwards(c)
           IN /\ d \in Controls
              /\ d.at = "idle" /\ d.after = "none"
              /\ d.store = c.store /\ d.emitted = c.emitted /\ d.first = c.first
              /\ d.started = c.started
              /\ d.timer => c.timer
              /\ c.after = "none" => d.timer = c.timer /\ d.shown = c.shown
              /\ d.decision = IF c.after = "set" THEN c.held ELSE c.decision
              /\ d.busy = IsRunning(d)
<1> DEFINE d == [c EXCEPT !.after = "none", !.held = Undecided, !.seen = "absent"]
<1>1. /\ d \in Controls /\ d.after = "none" /\ d.store = c.store
      /\ d.emitted = c.emitted /\ d.first = c.first /\ d.timer = c.timer
      /\ d.decision = c.decision /\ d.shown = c.shown /\ d.started = c.started
  BY UndecidedIs DEF Controls
<1>2. c.held \in Decisions /\ c.after \in {"none", "set", "show"}
  BY DEF Controls
<1> HIDE DEF d
<1>3. ASSUME NEW b \in Controls, Afterwards(c) = Idle(b),
             b.after = "none", b.store = c.store, b.emitted = c.emitted,
             b.first = c.first, b.timer => c.timer, b.started = c.started,
             c.after = "none" => b.timer = c.timer /\ b.shown = c.shown,
             b.decision = IF c.after = "set" THEN c.held ELSE c.decision
      PROVE  LET a == Afterwards(c)
             IN /\ a \in Controls
                /\ a.at = "idle" /\ a.after = "none"
                /\ a.store = c.store /\ a.emitted = c.emitted /\ a.first = c.first
                /\ a.started = c.started
                /\ a.timer => c.timer
                /\ c.after = "none" => a.timer = c.timer /\ a.shown = c.shown
                /\ a.decision = IF c.after = "set" THEN c.held ELSE c.decision
                /\ a.busy = IsRunning(a)
  <2>1. /\ Idle(b) \in Controls /\ Idle(b).at = "idle"
        /\ Idle(b).busy = IsRunning(Idle(b))
        /\ Idle(b) = [b EXCEPT !.at = "idle", !.busy = Idle(b).busy]
    BY IdleIs DEF IsRunning
  <2>2. /\ Idle(b).after = b.after /\ Idle(b).store = b.store
        /\ Idle(b).emitted = b.emitted /\ Idle(b).first = b.first
        /\ Idle(b).timer = b.timer /\ Idle(b).decision = b.decision
        /\ Idle(b).started = b.started /\ Idle(b).shown = b.shown
    BY <2>1 DEF Controls
  <2> QED BY <1>3, <2>1, <2>2
<1>4. CASE c.after = "set"
  <2>1. Afterwards(c) = Idle(SetDecision(d, c.held))
    BY <1>4 DEF Afterwards, d
  <2>2. PICK s \in Decisions, t \in BOOLEAN :
          /\ t => d.timer
          /\ SetDecision(d, c.held) =
               [d EXCEPT !.decision = c.held, !.shown = s, !.timer = t]
    BY <1>1, <1>2, SetDecisionIs
  <2>3. /\ SetDecision(d, c.held) \in Controls
        /\ SetDecision(d, c.held).after = "none"
        /\ SetDecision(d, c.held).store = c.store
        /\ SetDecision(d, c.held).started = c.started
        /\ SetDecision(d, c.held).emitted = c.emitted
        /\ SetDecision(d, c.held).first = c.first
        /\ SetDecision(d, c.held).timer => c.timer
        /\ SetDecision(d, c.held).decision = c.held
    BY <1>1, <1>2, <2>2 DEF Controls
  <2> QED BY <1>3, <1>4, <2>1, <2>3
<1>5. CASE c.after = "show"
  <2>1. Afterwards(c) = Idle([d EXCEPT !.shown = c.held])
    BY <1>5 DEF Afterwards, d
  <2> DEFINE b == [d EXCEPT !.shown = c.held]
  <2>2. /\ b \in Controls /\ b.after = "none" /\ b.store = c.store
        /\ b.emitted = c.emitted /\ b.first = c.first /\ b.timer = c.timer
        /\ b.decision = c.decision /\ b.started = c.started
    BY <1>1, <1>2 DEF Controls
  <2> HIDE DEF b
  <2>3. Afterwards(c) = Idle(b)
    BY <2>1 DEF b
  <2> QED BY <1>3, <1>5, <2>2, <2>3
<1>6. CASE c.after = "none"
  <2>1. Afterwards(c) = Idle(d)
    BY <1>6 DEF Afterwards, d
  <2> QED BY <1>1, <1>3, <1>6, <2>1
<1> QED BY <1>2, <1>4, <1>5, <1>6
-----------------------------------------------------------------------------
(* What a step may do to the jobs while the controller looks on.            *)

Evolves ==
  /\ job' \in [Jobs -> JobRecord]
  /\ \A j \in Jobs :
       /\ Exists(j)' <=> Exists(j)
       /\ job'[j].state \in ActiveStates => job[j].state \in ActiveStates
       /\ Terminal(j) => Terminal(j)'
       /\ Alive(j)' => Alive(j)
       /\ job[j].worker = "alive" => job'[j].worker \in {"alive", "gone"}

\* The step of one job.
LEMMA OneEvolves ==
    ASSUME Typed, WorkersAct, NEW j \in Jobs, NEW r \in JobRecord,
           job' = [job EXCEPT ![j] = r],
           Exists(j), r.state # "absent",
           r.worker \in {"launched", "locked"} =>
             r.state = "SUBMITTED" /\ ~r.child /\ ~r.run,
           r.worker = "alive" => r.state \in ActiveStates,
           r.state \in ActiveStates => job[j].state \in ActiveStates,
           Terminal(j) => r.state \in TerminalStates,
           r.worker \in {"launched", "locked", "alive"} => Alive(j),
           job[j].worker = "alive" => r.worker \in {"alive", "gone"}
    PROVE  Evolves /\ WorkersAct'
<1>1. /\ job' \in [Jobs -> JobRecord]
      /\ job'[j] = r
      /\ \A i \in Jobs \ {j} : job'[i] = job[i]
  BY DEF Typed
<1>2. Evolves
  BY <1>1 DEF Evolves, Exists, Terminal, Alive
<1>3. ASSUME NEW i \in Jobs
      PROVE  (/\ job[i].worker \in {"launched", "locked"} =>
                   job[i].state = "SUBMITTED" /\ ~job[i].child /\ ~job[i].run
              /\ job[i].worker = "alive" => job[i].state \in ActiveStates
              /\ ~Exists(i) => job[i] = NoJob
              /\ Exists(i) => \A h \in Jobs : h < i => Exists(h))'
  <2>1. CASE i = j
    BY <1>1, <1>2, <2>1 DEF WorkersAct, Exists, Evolves
  <2>2. CASE i # j
    BY <1>1, <1>2, <2>2 DEF WorkersAct, Exists, Evolves
  <2> QED BY <2>1, <2>2
<1> QED BY <1>2, <1>3 DEF WorkersAct

\* A job that is at work exists and is active.
LEMMA AtWorkIs ==
    ASSUME Typed, WorkersAct, NEW i \in Jobs, Alive(i)
    PROVE  Exists(i) /\ job[i].state \in ActiveStates /\ ~Terminal(i)
BY DEF Typed, WorkersAct, Alive, Exists, NoJob, Terminal, ActiveStates, TerminalStates

\* The controller's knowledge survives whatever the workers do.
LEMMA JobStepKeeps ==
    ASSUME Inv, Evolves, WorkersAct', UNCHANGED <<ctl, missed, old, finished>>
    PROVE  Inv'
<1> USE DEF Inv
<1>1. Typed'
  BY DEF CInv, Typed, Evolves
<1>2. NamesExist'
  BY DEF CInv, Typed, NamesExist, Evolves, Controls, Jobs, Exists
<1>3. AfterByPlace'
  BY DEF CInv, AfterByPlace
<1>4. ReportedHaveEnded'
  BY DEF FInv, ReportedHaveEnded, Evolves, CInv, Typed
<1>5. StoreIsUnreported'
  BY DEF FInv, StoreIsUnreported, Unreported
<1>6. SeenHasEnded'
  <2>1. ctl.at \in {"reconcile", "report"} => ctl.store \in Jobs
    BY DEF CInv, Typed, NamesExist, Controls, Jobs
  <2> QED BY <2>1 DEF FInv, SeenHasEnded, Evolves, CInv, Typed
<1>7. \A i \in Jobs : AtWork(i)' => AtWork(i)
  BY DEF AtWork, Evolves
<1>8. AtWorkIsLatest'
  BY <1>7 DEF BInv, AtWorkIsLatest, Evolves
<1>9. FreeToTurn'
  <2>1. IsRunning(ctl)' => IsRunning(ctl)
    BY DEF IsRunning, Evolves, CInv, Typed, Controls, Jobs
  <2> QED BY <2>1 DEF BInv, FreeToTurn
<1>10. \A i \in Jobs : /\ AtWork(i)' /\ job[i].worker = "alive" => job'[i].worker = "alive"
  BY DEF Evolves, AtWork, Alive
<1>11. ScanFinds'
  BY <1>7, <1>10 DEF BInv, ScanFinds
<1>12. BoundKnows'
  BY <1>7, <1>10 DEF BInv, BoundKnows
<1> QED
  BY <1>1, <1>2, <1>3, <1>4, <1>5, <1>6, <1>8, <1>9, <1>11, <1>12
  DEF CInv, FInv, BInv
-----------------------------------------------------------------------------
(* The steps of a worker.                                                   *)

LEMMA WorkerKeeps ==
    ASSUME Inv, NEW j \in Jobs, Worker(j)
    PROVE  Inv'
<1>1. Typed /\ WorkersAct /\ job[j] \in JobRecord
  BY DEF Inv, CInv, Typed
<1>2. ASSUME NEW r \in JobRecord, job' = [job EXCEPT ![j] = r],
             UNCHANGED <<ctl, missed, old, finished>>,
             job[j].worker # "none", r.state # "absent",
             r.worker \in {"launched", "locked"} =>
               r.state = "SUBMITTED" /\ ~r.child /\ ~r.run,
             r.worker = "alive" => r.state \in ActiveStates,
             r.state \in ActiveStates => job[j].state \in ActiveStates,
             Terminal(j) => r.state \in TerminalStates,
             r.worker \in {"launched", "locked", "alive"} => Alive(j),
             job[j].worker = "alive" => r.worker \in {"alive", "gone"}
      PROVE  Inv'
  <2>1. Exists(j)
    BY <1>1, <1>2 DEF WorkersAct, NoJob
  <2>2. Evolves /\ WorkersAct'
    BY <1>1, <1>2, <2>1, OneEvolves
  <2> QED BY <1>2, <2>2, JobStepKeeps
<1>3. CASE TakeLock(j)
  <2> DEFINE r == [job[j] EXCEPT !.worker = "locked"]
  <2>1. /\ r \in JobRecord /\ r.worker = "locked" /\ r.state = "SUBMITTED"
        /\ ~r.child /\ ~r.run /\ job[j].worker = "launched"
        /\ job[j].state = "SUBMITTED"
    BY <1>1, <1>3 DEF TakeLock, WorkersAct, JobRecord
  <2>2. job' = [job EXCEPT ![j] = r] /\ UNCHANGED <<ctl, missed, old, finished>>
    BY <1>3 DEF TakeLock, Becomes, world
  <2> HIDE DEF r
  <2> QED BY <1>2, <2>1, <2>2 DEF Alive, Terminal, ActiveStates, TerminalStates
<1>4. CASE Claim(j)
  <2> DEFINE r == [job[j] EXCEPT !.worker = "alive", !.state = "STARTING"]
  <2>1. /\ r \in JobRecord /\ r.worker = "alive" /\ r.state = "STARTING"
        /\ job[j].worker = "locked" /\ job[j].state = "SUBMITTED"
    BY <1>1, <1>4 DEF Claim, WorkersAct, JobRecord, ActiveStates
  <2>2. job' = [job EXCEPT ![j] = r] /\ UNCHANGED <<ctl, missed, old, finished>>
    BY <1>4 DEF Claim, Becomes, world
  <2> HIDE DEF r
  <2> QED BY <1>2, <2>1, <2>2 DEF Alive, Terminal, ActiveStates, TerminalStates
\* What a worker writes while it works keeps its job active.
<1>5. ASSUME NEW r \in JobRecord, Becomes(j, r), Working(j),
             r.worker = "alive", r.state \in ActiveStates
      PROVE  Inv'
  <2>1. job[j].worker = "alive" /\ job[j].state \in ActiveStates
    BY <1>1, <1>5 DEF WorkersAct, Working
  <2>2. job' = [job EXCEPT ![j] = r] /\ UNCHANGED <<ctl, missed, old, finished>>
    BY <1>5 DEF Becomes, world
  <2> QED
    BY <1>2, <1>5, <2>1, <2>2 DEF Alive, Terminal, ActiveStates, TerminalStates
<1>6. CASE Work(j)
  <2>1. Working(j) /\ job[j].worker = "alive" /\ job[j].state \in ActiveStates
    BY <1>1, <1>6 DEF Work, Working, WorkersAct
  <2>2. CASE Becomes(j, [job[j] EXCEPT !.state = "RUNNING"])
    BY <1>1, <1>5, <2>1, <2>2 DEF JobRecord, ActiveStates
  <2>3. CASE Becomes(j, [job[j] EXCEPT !.state = "CANCEL_REQUESTED"])
    BY <1>1, <1>5, <2>1, <2>3 DEF JobRecord, ActiveStates
  <2>4. CASE Becomes(j, [job[j] EXCEPT !.run = TRUE])
    BY <1>1, <1>5, <2>1, <2>4 DEF JobRecord, ActiveStates
  <2>5. CASE Becomes(j, [job[j] EXCEPT !.child = TRUE])
    BY <1>1, <1>5, <2>1, <2>5 DEF JobRecord, ActiveStates
  <2>6. CASE Becomes(j, [job[j] EXCEPT !.child = FALSE])
    BY <1>1, <1>5, <2>1, <2>6 DEF JobRecord, ActiveStates
  <2> QED BY <1>6, <2>2, <2>3, <2>4, <2>5, <2>6 DEF Work
<1>7. CASE SealRun(j)
  <2>1. Working(j) /\ job[j].worker = "alive" /\ job[j].state \in ActiveStates
    BY <1>1, <1>7 DEF SealRun, Working, WorkersAct
  <2>2. CASE Becomes(j, [job[j] EXCEPT !.artifact = "damaged"])
    BY <1>1, <1>5, <2>1, <2>2 DEF JobRecord, ActiveStates
  <2>3. CASE Becomes(j, [job[j] EXCEPT !.artifact = "valid"])
    BY <1>1, <1>5, <2>1, <2>3 DEF JobRecord, ActiveStates
  <2> QED BY <1>7, <2>2, <2>3 DEF SealRun
<1>8. CASE Settle(j)
  <2>1. PICK state \in TerminalStates :
          Becomes(j, [job[j] EXCEPT !.state = state, !.worker = "gone"])
    BY <1>8 DEF Settle, TerminalStates
  <2> DEFINE r == [job[j] EXCEPT !.state = state, !.worker = "gone"]
  <2>2. /\ r \in JobRecord /\ r.worker = "gone" /\ r.state = state
        /\ job[j].worker = "alive"
    BY <1>1, <1>8 DEF JobRecord, Settle, Working
  <2>3. job' = [job EXCEPT ![j] = r] /\ UNCHANGED <<ctl, missed, old, finished>>
    BY <2>1 DEF Becomes, world
  <2> HIDE DEF r
  <2> QED BY <1>2, <2>2, <2>3 DEF Alive, Terminal, ActiveStates, TerminalStates
<1>9. CASE Die(j)
  <2> DEFINE r == [job[j] EXCEPT !.worker = "gone"]
  <2>1. /\ r \in JobRecord /\ r.worker = "gone" /\ r.state = job[j].state
        /\ job[j].worker \in {"launched", "locked", "alive"}
    BY <1>1, <1>9 DEF JobRecord, Die, Alive
  <2>2. job' = [job EXCEPT ![j] = r] /\ UNCHANGED <<ctl, missed, old, finished>>
    BY <1>1, <1>9 DEF Die, Typed
  <2>3. r.state # "absent"
    BY <1>1, <2>1 DEF WorkersAct, ActiveStates
  <2> HIDE DEF r
  <2> QED BY <1>2, <2>1, <2>2, <2>3 DEF Alive, Terminal
<1>10. CASE ChildExits(j)
  <2> DEFINE r == [job[j] EXCEPT !.child = FALSE]
  <2>1. /\ r \in JobRecord /\ r.worker = "gone" /\ r.state = job[j].state
        /\ job[j].worker = "gone"
    BY <1>1, <1>10 DEF JobRecord, ChildExits
  <2>2. job' = [job EXCEPT ![j] = r] /\ UNCHANGED <<ctl, missed, old, finished>>
    BY <1>10 DEF ChildExits, Becomes, world
  <2>3. r.state # "absent"
    BY <1>1, <2>1 DEF WorkersAct, NoJob, Exists
  <2> HIDE DEF r
  <2> QED BY <1>2, <2>1, <2>2, <2>3 DEF Alive, Terminal
<1> QED BY <1>3, <1>4, <1>6, <1>7, <1>8, <1>9, <1>10 DEF Worker
-----------------------------------------------------------------------------
(* The steps of the controller that read the jobs only.                     *)

LEMMA OpenKeeps ==
    ASSUME Inv, Open
    PROVE  Inv'
<1> USE DEF Inv
<1>1. /\ ctl' \in Controls /\ ctl'.at = "scan" /\ ctl'.next = Last
      /\ ctl'.store = 0 /\ ctl'.first = Undecided /\ ctl'.after = "none"
      /\ ctl'.timer = FALSE /\ ctl'.process = "none"
  <2>1. ctl' = [Closed EXCEPT !.at = "scan", !.next = Last]
    BY DEF Open
  <2>2. ctl' \in Controls
    BY <2>1, ClosedIs, LastIs DEF Controls, Places
  <2>3. /\ ctl'.at = "scan" /\ ctl'.next = Last /\ ctl'.store = 0
        /\ ctl'.first = Undecided /\ ctl'.after = "none"
        /\ ctl'.timer = FALSE /\ ctl'.process = "none"
    BY <2>1 DEF Closed
  <2> QED BY <2>2, <2>3
<1>2. /\ job' = job /\ missed' = missed
      /\ old' = {j \in Jobs : Terminal(j)} /\ finished' = [j \in Jobs |-> 0]
  BY DEF Open
<1>3. CInv'
  <2>1. Typed'
    BY <1>1, <1>2 DEF CInv, Typed
  <2>2. WorkersAct' /\ NamesExist' /\ AfterByPlace'
    BY <1>1, <1>2 DEF CInv, WorkersAct, NamesExist, AfterByPlace, Exists
  <2> QED BY <2>1, <2>2 DEF CInv
<1>4. FInv'
  BY <1>1, <1>2
  DEF FInv, ReportedHaveEnded, StoreIsUnreported, SeenHasEnded, Terminal
<1>5. BInv'
  BY <1>1, <1>2, LastIs
  DEF BInv, AtWorkIsLatest, FreeToTurn, ScanFinds, BoundKnows, AtWork, Alive,
      Exists, IsRunning
<1> QED BY <1>3, <1>4, <1>5

LEMMA OpenAgainKeeps ==
    ASSUME Inv, OpenAgain
    PROVE  Inv'
<1> USE DEF Inv
<1>1. ctl' = [ctl EXCEPT !.at = "scan", !.next = Last, !.first = Undecided]
  BY DEF OpenAgain, Control
<1>2. /\ ctl' \in Controls /\ ctl'.at = "scan" /\ ctl'.next = Last
      /\ ctl'.first = Undecided /\ ctl'.store = ctl.store /\ ctl'.after = ctl.after
      /\ ctl'.timer = ctl.timer /\ ctl'.process = ctl.process
      /\ ctl'.decision = ctl.decision /\ ctl'.emitted = ctl.emitted
  BY <1>1, UndecidedIs, LastIs DEF CInv, Typed, Controls, Places
<1>3. UNCHANGED <<job, missed, old, finished>> /\ ctl.at = "idle" /\ ~ctl.busy
  BY DEF OpenAgain, Control, world
<1>4. CInv'
  BY <1>2, <1>3 DEF CInv, Typed, WorkersAct, NamesExist, AfterByPlace, Exists
<1>5. FInv'
  BY <1>2, <1>3
  DEF FInv, ReportedHaveEnded, StoreIsUnreported, SeenHasEnded, Terminal, Unreported
<1>6. ~IsRunning(ctl)'
  BY <1>2, <1>3 DEF BInv, FreeToTurn, IsRunning
<1>7. BInv'
  BY <1>2, <1>3, <1>6, LastIs
  DEF BInv, AtWorkIsLatest, FreeToTurn, ScanFinds, BoundKnows, AtWork, Alive, Exists
<1> QED BY <1>4, <1>5, <1>7

\* A job at work is the latest, so the scan comes to it with nothing found.
LEMMA ScanKeeps ==
    ASSUME Inv, Scan
    PROVE  Inv'
<1> USE DEF Inv
<1>1. /\ ctl.at = "scan" /\ UNCHANGED <<job, old, finished>> /\ ctl \in Controls
      /\ ~IsRunning(ctl) /\ ctl.after = "none"
  BY DEF Scan, CInv, Typed, BInv, FreeToTurn, AfterByPlace
<1>2. ASSUME missed' \subseteq Jobs, missed \subseteq missed', ctl' \in Controls,
             ctl'.store = ctl.store, ctl'.process = ctl.process,
             ctl'.decision = ctl.decision, ctl'.timer = ctl.timer,
             ctl'.emitted = ctl.emitted,
             ctl'.at \in {"scan", "idle", "attach", "observe"},
             ctl'.at = "idle" => ctl'.busy = IsRunning(ctl),
             ctl'.at \in {"attach", "observe"} =>
               ctl'.after = "set" /\ ctl'.held.job \in Jobs /\ Exists(ctl'.held.job),
             ctl'.at \in {"scan", "idle"} => ctl'.after = "none",
             ctl'.at = "attach" => Unreported(ctl'.held.job),
             ctl'.first # Undecided =>
               ctl'.first.job \in Jobs /\ Exists(ctl'.first.job),
             \A i \in Jobs : AtWork(i)' =>
               \/ ctl'.at = "scan" /\ ctl'.next >= i /\ ctl'.first = Undecided
               \/ /\ ctl'.at = "attach" /\ ctl'.held.job = i
                  /\ job[i].worker = "alive" /\ ctl'.held.state \in Attachable
      PROVE  Inv'
  <2>1. CInv'
    BY <1>1, <1>2 DEF CInv, Typed, WorkersAct, NamesExist, AfterByPlace, Exists
  <2>2. FInv'
    BY <1>1, <1>2
    DEF FInv, ReportedHaveEnded, StoreIsUnreported, SeenHasEnded, Terminal, Unreported
  <2>3. ~IsRunning(ctl)'
    BY <1>1, <1>2 DEF IsRunning
  <2>4. \A i \in Jobs : AtWork(i)' => AtWork(i)
    BY <1>1, <1>2 DEF AtWork, Alive
  <2>5. AtWorkIsLatest' /\ FreeToTurn'
    BY <1>1, <2>3, <2>4 DEF BInv, AtWorkIsLatest, FreeToTurn, Exists
  <2>6. ScanFinds' /\ BoundKnows'
    BY <1>1, <1>2 DEF ScanFinds, BoundKnows
  <2> QED BY <2>1, <2>2, <2>5, <2>6 DEF BInv
\* The scan is over.
<1>3. CASE /\ ctl.next = 0
           /\ ctl' = IF ctl.first = Undecided THEN Idle(ctl)
                     ELSE [ctl EXCEPT !.at = "observe", !.after = "set",
                                      !.held = ctl.first, !.first = Undecided]
           /\ UNCHANGED missed
  <2>1. \A i \in Jobs : ~AtWork(i) /\ ~AtWork(i)'
    BY <1>1, <1>3 DEF BInv, ScanFinds, Jobs, AtWork, Alive
  <2>2. CASE ctl.first = Undecided
    <3>1. ctl' = [ctl EXCEPT !.at = "idle", !.busy = Idle(ctl).busy]
      BY <1>1, <1>3, <2>2, IdleIs
    <3>2. /\ ctl' \in Controls /\ ctl'.at = "idle" /\ ctl'.busy = IsRunning(ctl)
      BY <1>1, <1>3, <2>2, IdleIs
    <3>3. /\ ctl'.store = ctl.store /\ ctl'.process = ctl.process
          /\ ctl'.decision = ctl.decision /\ ctl'.timer = ctl.timer
          /\ ctl'.emitted = ctl.emitted /\ ctl'.after = "none"
          /\ ctl'.first = Undecided
      BY <1>1, <2>2, <3>1 DEF Controls
    <3> QED BY <1>1, <1>2, <1>3, <2>1, <3>2, <3>3 DEF CInv, Typed
  <2>3. CASE ctl.first # Undecided
    <3>1. ctl' = [ctl EXCEPT !.at = "observe", !.after = "set",
                             !.held = ctl.first, !.first = Undecided]
      BY <1>3, <2>3
    <3>2. /\ ctl' \in Controls /\ ctl'.at = "observe"
          /\ ctl'.store = ctl.store /\ ctl'.process = ctl.process
          /\ ctl'.decision = ctl.decision /\ ctl'.timer = ctl.timer
          /\ ctl'.emitted = ctl.emitted /\ ctl'.after = "set"
          /\ ctl'.first = Undecided /\ ctl'.held = ctl.first
      BY <1>1, <3>1, UndecidedIs DEF Controls, Places
    <3>3. ctl.first.job \in Jobs /\ Exists(ctl.first.job)
      BY <2>3 DEF CInv, NamesExist
    <3> QED BY <1>1, <1>2, <1>3, <2>1, <3>2, <3>3 DEF CInv, Typed
  <2> QED BY <2>2, <2>3
<1>4. CASE /\ ctl.next # 0 /\ job[ctl.next].state = "absent"
           /\ ctl' = [ctl EXCEPT !.next = @ - 1]
           /\ UNCHANGED missed
  <2>1. ctl.next \in Jobs /\ ctl.next - 1 \in 0..Last
    BY <1>1, <1>4, DesktopAssumption DEF Controls, Jobs, DesktopAssumption
  <2>2. /\ ctl' \in Controls /\ ctl'.at = "scan" /\ ctl'.next = ctl.next - 1
        /\ ctl'.store = ctl.store /\ ctl'.process = ctl.process
        /\ ctl'.decision = ctl.decision /\ ctl'.timer = ctl.timer
        /\ ctl'.emitted = ctl.emitted /\ ctl'.after = "none"
        /\ ctl'.first = ctl.first
    BY <1>1, <1>4, <2>1 DEF Controls
  <2>3. ASSUME NEW i \in Jobs, AtWork(i)'
        PROVE  ctl'.next >= i /\ ctl'.first = Undecided
    <3>1. AtWork(i)
      BY <1>1, <1>4, <2>3 DEF AtWork, Alive
    <3>2. Exists(i)
      BY <3>1, AtWorkIs DEF CInv, AtWork
    <3>3. ctl.next >= i /\ ctl.first = Undecided /\ i # ctl.next
      BY <1>1, <1>4, <3>1, <3>2 DEF BInv, ScanFinds, Exists
    <3> QED BY <2>1, <2>2, <3>3 DEF Jobs
  <2>4. missed' \subseteq Jobs
    BY <1>4 DEF CInv, Typed
  <2>5. ctl.first # Undecided => ctl.first.job \in Jobs /\ Exists(ctl.first.job)
    BY DEF CInv, NamesExist
  <2> QED BY <1>1, <1>2, <1>4, <2>2, <2>3, <2>4, <2>5
\* A job that cannot be reconciled counts as missed.
<1>6. CASE /\ ctl.next # 0 /\ job[ctl.next].state # "absent"
           /\ ctl' = [ctl EXCEPT !.next = @ - 1]
           /\ missed' = missed \cup {j \in {ctl.next} : Alive(j)}
  <2>1. ctl.next \in Jobs /\ ctl.next - 1 \in 0..Last
    BY <1>1, <1>6, DesktopAssumption DEF Controls, Jobs, DesktopAssumption
  <2>2. /\ ctl' \in Controls /\ ctl'.at = "scan" /\ ctl'.next = ctl.next - 1
        /\ ctl'.store = ctl.store /\ ctl'.process = ctl.process
        /\ ctl'.decision = ctl.decision /\ ctl'.timer = ctl.timer
        /\ ctl'.emitted = ctl.emitted /\ ctl'.after = "none"
        /\ ctl'.first = ctl.first
    BY <1>1, <1>6, <2>1 DEF Controls
  <2>3. ASSUME NEW i \in Jobs, AtWork(i)'
        PROVE  ctl'.next >= i /\ ctl'.first = Undecided
    <3>1. AtWork(i) /\ i # ctl.next
      <4>1. AtWork(i)
        BY <1>1, <1>6, <2>3 DEF AtWork, Alive
      <4>2. Alive(i) /\ i \notin missed'
        BY <2>3, <4>1 DEF AtWork
      <4> QED BY <1>6, <4>1, <4>2
    <3>2. ctl.next >= i /\ ctl.first = Undecided
      BY <1>1, <3>1 DEF BInv, ScanFinds
    <3> QED BY <2>1, <2>2, <3>1, <3>2 DEF Jobs
  <2>4. missed' \subseteq Jobs /\ missed \subseteq missed'
    BY <1>6, <2>1 DEF CInv, Typed
  <2>5. ctl.first # Undecided => ctl.first.job \in Jobs /\ Exists(ctl.first.job)
    BY DEF CInv, NamesExist
  <2> QED BY <1>1, <1>2, <2>2, <2>3, <2>4, <2>5
<1>5. ASSUME ctl.next # 0, job[ctl.next].state # "absent",
             NEW d \in Reconciled(ctl.next),
             ctl' = IF d.state \in Attachable \cup Pending
                    THEN [ctl EXCEPT !.after = "set", !.held = d,
                                     !.next = 0, !.first = Undecided,
                                     !.at = IF d.state \in Attachable THEN "attach"
                                            ELSE "observe"]
                    ELSE [ctl EXCEPT !.next = @ - 1,
                                     !.first = IF @ = Undecided THEN d ELSE @],
             missed' = missed \cup
               {j \in {ctl.next} : job[j].worker \in {"launched", "locked"}}
      PROVE  Inv'
  <2>1. ctl.next \in Jobs /\ ctl.next - 1 \in 0..Last /\ Exists(ctl.next)
    BY <1>1, <1>5, DesktopAssumption DEF Controls, Jobs, DesktopAssumption, Exists
  <2>2. /\ d \in Decisions /\ d.job = ctl.next
        /\ d.state \in Attachable <=> job[ctl.next].worker = "alive"
    BY <1>5, <2>1, ReconciledIs DEF CInv
  <2>3. missed' \subseteq Jobs /\ missed \subseteq missed'
    BY <1>5, <2>1 DEF CInv, Typed
  <2>4. ASSUME NEW i \in Jobs, AtWork(i)'
        PROVE  i = ctl.next /\ job[i].worker = "alive"
    <3>1. AtWork(i) /\ Alive(i)
      BY <1>1, <2>3, <2>4 DEF AtWork, Alive
    <3>2. ctl.next >= i
      BY <1>1, <3>1 DEF BInv, ScanFinds
    <3>3. ~(ctl.next > i)
      BY <2>1, <3>1 DEF BInv, AtWorkIsLatest
    <3>4. i = ctl.next
      BY <2>1, <3>2, <3>3 DEF Jobs
    <3>5. i \notin missed'
      BY <2>4 DEF AtWork
    <3> QED BY <1>5, <3>1, <3>4, <3>5 DEF Alive
  <2>5. CASE d.state \in Attachable
    <3>1. /\ ctl' \in Controls /\ ctl'.at = "attach" /\ ctl'.held = d
          /\ ctl'.store = ctl.store /\ ctl'.process = ctl.process
          /\ ctl'.decision = ctl.decision /\ ctl'.timer = ctl.timer
          /\ ctl'.emitted = ctl.emitted /\ ctl'.after = "set"
          /\ ctl'.first = Undecided
      BY <1>1, <1>5, <2>2, <2>5, UndecidedIs, LastIs DEF Controls, Places
    <3>2. ~Terminal(ctl.next)
      BY <2>1, <2>2, <2>5, AtWorkIs DEF CInv, Alive
    <3>3. Unreported(ctl.next)
      BY <2>1, <3>2 DEF Unreported, FInv, ReportedHaveEnded, CInv, Typed
    <3> QED BY <1>1, <1>2, <2>1, <2>2, <2>3, <2>4, <2>5, <3>1, <3>3
  <2>6. CASE d.state \in Pending /\ d.state \notin Attachable
    <3>1. /\ ctl' \in Controls /\ ctl'.at = "observe" /\ ctl'.held = d
          /\ ctl'.store = ctl.store /\ ctl'.process = ctl.process
          /\ ctl'.decision = ctl.decision /\ ctl'.timer = ctl.timer
          /\ ctl'.emitted = ctl.emitted /\ ctl'.after = "set"
          /\ ctl'.first = Undecided
      BY <1>1, <1>5, <2>2, <2>6, UndecidedIs, LastIs DEF Controls, Places
    <3>2. \A i \in Jobs : ~AtWork(i)'
      BY <2>2, <2>4, <2>6
    <3> QED BY <1>1, <1>2, <2>1, <2>2, <2>3, <3>1, <3>2
  <2>7. CASE d.state \notin Attachable \cup Pending
    <3>1. ctl' = [ctl EXCEPT !.next = ctl.next - 1,
                             !.first = IF ctl.first = Undecided THEN d ELSE ctl.first]
      BY <1>1, <1>5, <2>7 DEF Controls
    <3>2. /\ ctl' \in Controls /\ ctl'.at = "scan"
          /\ ctl'.store = ctl.store /\ ctl'.process = ctl.process
          /\ ctl'.decision = ctl.decision /\ ctl'.timer = ctl.timer
          /\ ctl'.emitted = ctl.emitted /\ ctl'.after = "none"
          /\ ctl'.first = IF ctl.first = Undecided THEN d ELSE ctl.first
      BY <1>1, <2>1, <2>2, <3>1 DEF Controls
    <3>3. ctl.first # Undecided => ctl.first.job \in Jobs /\ Exists(ctl.first.job)
      BY DEF CInv, NamesExist
    <3>4. \A i \in Jobs : ~AtWork(i)'
      BY <2>2, <2>4, <2>7
    <3> QED BY <1>1, <1>2, <2>1, <2>2, <2>3, <3>2, <3>3, <3>4
  <2> QED BY <2>5, <2>6, <2>7
<1> QED BY <1>3, <1>4, <1>5, <1>6 DEF Scan
-----------------------------------------------------------------------------
(* Attaching to a job, observing it, and polling it.                        *)

\* What a step of the controller has to show when it changes nothing else.
LEMMA ControlKeeps ==
    ASSUME Inv, UNCHANGED <<job, missed, old, finished>>, ctl' \in Controls,
           NamesExist', AfterByPlace', StoreIsUnreported', SeenHasEnded',
           FreeToTurn', ScanFinds', BoundKnows'
    PROVE  Inv'
<1> USE DEF Inv
<1>1. CInv'
  BY DEF CInv, Typed, WorkersAct, Exists
<1>2. FInv'
  BY DEF FInv, ReportedHaveEnded, Terminal
<1>3. BInv'
  BY DEF BInv, AtWorkIsLatest, AtWork, Alive, Exists
<1> QED BY <1>1, <1>2, <1>3

LEMMA AttachKeeps ==
    ASSUME Inv, Attach
    PROVE  Inv'
<1> USE DEF Inv
<1> DEFINE j == ctl.held.job
<1>1. /\ ctl.at = "attach" /\ UNCHANGED <<job, missed, old, finished>>
      /\ ctl \in Controls /\ ~IsRunning(ctl) /\ ctl.after = "set"
      /\ j \in Jobs /\ Exists(j) /\ Unreported(j)
      /\ ctl.first # Undecided => ctl.first.job \in Jobs /\ Exists(ctl.first.job)
  BY DEF Attach, Control, world, CInv, Typed, BInv, FreeToTurn, AfterByPlace,
         NamesExist, FInv, StoreIsUnreported
<1>2. CASE /\ job[j].state \in ActiveStates \ {"SUBMITTED"}
           /\ job[j].worker # "alive"
  <2> DEFINE c == [ctl EXCEPT !.after = "none", !.held = Undecided]
  <2>1. ctl' = Idle(c)
    BY <1>1, <1>2 DEF Attach, Control
  <2>2. /\ c \in Controls /\ c.after = "none" /\ c.store = ctl.store
        /\ c.timer = ctl.timer /\ c.first = ctl.first /\ c.emitted = ctl.emitted
    BY <1>1, UndecidedIs DEF Controls
  <2> HIDE DEF c
  <2>3. /\ ctl' \in Controls /\ ctl'.at = "idle" /\ ctl'.busy = IsRunning(ctl')
        /\ ctl' = [c EXCEPT !.at = "idle", !.busy = Idle(c).busy]
    BY <2>1, <2>2, IdleIs DEF IsRunning
  <2>4. /\ ctl'.after = "none" /\ ctl'.store = ctl.store /\ ctl'.timer = ctl.timer
        /\ ctl'.first = ctl.first /\ ctl'.emitted = ctl.emitted
    BY <2>2, <2>3 DEF Controls
  <2>5. \A i \in Jobs : ~AtWork(i)
    BY <1>1, <1>2 DEF BInv, ScanFinds
  <2>6. NamesExist' /\ AfterByPlace'
    BY <1>1, <2>3, <2>4 DEF CInv, NamesExist, AfterByPlace, Exists
  <2>7. StoreIsUnreported' /\ SeenHasEnded'
    BY <1>1, <2>3, <2>4 DEF FInv, StoreIsUnreported, SeenHasEnded, Unreported
  <2>8. FreeToTurn' /\ ScanFinds' /\ BoundKnows'
    <3>1. \A i \in Jobs : ~AtWork(i)'
      BY <1>1, <2>5 DEF AtWork, Alive
    <3>2. IsRunning(ctl)' <=> IsRunning(ctl')
      BY <1>1 DEF IsRunning
    <3> QED BY <2>3, <3>1, <3>2 DEF FreeToTurn, ScanFinds, BoundKnows
  <2> QED BY <1>1, <2>3, <2>6, <2>7, <2>8, ControlKeeps
<1>3. CASE ~(/\ job[j].state \in ActiveStates \ {"SUBMITTED"}
             /\ job[j].worker # "alive")
  <2>1. ctl' = [ctl EXCEPT !.at = "read", !.store = j, !.timer = TRUE,
                           !.emitted = FALSE, !.shown = Undecided, !.started = 0]
    BY <1>1, <1>3 DEF Attach, Control
  <2>2. j \in 0..Last /\ j # 0
    BY <1>1 DEF Jobs
  <2>3. /\ ctl' \in Controls /\ ctl'.at = "read" /\ ctl'.store = j
        /\ ctl'.after = "set" /\ ctl'.first = ctl.first /\ ctl'.held = ctl.held
    BY <1>1, <2>1, <2>2, UndecidedIs, LastIs DEF Controls, Places
  <2>4. NamesExist' /\ AfterByPlace'
    BY <1>1, <2>2, <2>3 DEF NamesExist, AfterByPlace, Exists
  <2>5. StoreIsUnreported' /\ SeenHasEnded'
    BY <1>1, <2>3 DEF StoreIsUnreported, SeenHasEnded, Unreported
  <2>6. FreeToTurn' /\ ScanFinds'
    BY <2>3 DEF FreeToTurn, ScanFinds
  <2>7. BoundKnows'
    BY <1>1, <2>3 DEF BInv, ScanFinds, BoundKnows, AtWork, Alive
  <2> QED BY <1>1, <2>3, <2>4, <2>5, <2>6, <2>7, ControlKeeps
<1> QED BY <1>2, <1>3

LEMMA ObserveKeeps ==
    ASSUME Inv, Observe
    PROVE  Inv'
<1> USE DEF Inv
<1> DEFINE j == ctl.held.job
<1>1. /\ ctl.at = "observe" /\ UNCHANGED <<job, missed, old, finished>>
      /\ ctl \in Controls /\ ctl.after = "set"
      /\ j \in Jobs /\ Exists(j)
      /\ ctl.first # Undecided => ctl.first.job \in Jobs /\ Exists(ctl.first.job)
  BY DEF Observe, Control, world, CInv, Typed, AfterByPlace, NamesExist
<1>2. PICK b \in BOOLEAN : b = Terminal(j)
  <2>1. Terminal(j) \in BOOLEAN
    BY DEF Terminal
  <2> QED BY <2>1
<1>3. ctl' = [ctl EXCEPT !.at = "read", !.store = j, !.timer = TRUE,
                         !.emitted = b, !.started = 0]
  BY <1>2 DEF Observe, Control
<1>4. j \in 0..Last /\ j # 0
  BY <1>1 DEF Jobs
<1>5. /\ ctl' \in Controls /\ ctl'.at = "read" /\ ctl'.store = j
      /\ ctl'.after = "set" /\ ctl'.first = ctl.first /\ ctl'.emitted = b
  BY <1>1, <1>3, <1>4, LastIs DEF Controls, Places
<1>6. NamesExist' /\ AfterByPlace'
  BY <1>1, <1>4, <1>5 DEF NamesExist, AfterByPlace, Exists
<1>7. StoreIsUnreported' /\ SeenHasEnded'
  BY <1>1, <1>2, <1>5
  DEF StoreIsUnreported, SeenHasEnded, Unreported, FInv, ReportedHaveEnded, CInv, Typed
<1>8. FreeToTurn' /\ ScanFinds' /\ BoundKnows'
  <2>1. \A i \in Jobs : ~AtWork(i)'
    BY <1>1 DEF BInv, ScanFinds, AtWork, Alive
  <2> QED BY <1>5, <2>1 DEF FreeToTurn, ScanFinds, BoundKnows
<1> QED BY <1>1, <1>5, <1>6, <1>7, <1>8, ControlKeeps

LEMMA TickKeeps ==
    ASSUME Inv, Tick
    PROVE  Inv'
<1> USE DEF Inv
<1>1. /\ ctl.at = "idle" /\ ctl.timer /\ UNCHANGED <<job, missed, old, finished>>
      /\ ctl \in Controls /\ ctl' = [ctl EXCEPT !.at = "read"]
  BY DEF Tick, Control, world, CInv, Typed
<1>2. /\ ctl' \in Controls /\ ctl'.at = "read" /\ ctl'.store = ctl.store
      /\ ctl'.after = ctl.after /\ ctl'.first = ctl.first /\ ctl'.held = ctl.held
      /\ ctl'.emitted = ctl.emitted /\ ctl'.decision = ctl.decision
      /\ ctl'.timer = ctl.timer
  BY <1>1 DEF Controls, Places
<1>3. NamesExist' /\ AfterByPlace'
  BY <1>1, <1>2 DEF CInv, NamesExist, AfterByPlace, Exists
<1>4. StoreIsUnreported' /\ SeenHasEnded'
  BY <1>1, <1>2 DEF FInv, StoreIsUnreported, SeenHasEnded, Unreported
<1>5. FreeToTurn' /\ ScanFinds' /\ BoundKnows'
  BY <1>1, <1>2 DEF BInv, FreeToTurn, ScanFinds, BoundKnows, AtWork, Alive
<1> QED BY <1>1, <1>2, <1>3, <1>4, <1>5, ControlKeeps

LEMMA ReadKeeps ==
    ASSUME Inv, Read
    PROVE  Inv'
<1> USE DEF Inv
<1>1. /\ ctl.at = "read" /\ UNCHANGED <<job, missed, old, finished>>
      /\ ctl \in Controls /\ ctl.store \in Jobs /\ job[ctl.store] \in JobRecord
      /\ ctl' = [ctl EXCEPT !.at = "reconcile", !.seen = job[ctl.store].state]
  BY DEF Read, Control, world, CInv, Typed, NamesExist, Controls, Jobs
<1>2. /\ ctl' \in Controls /\ ctl'.at = "reconcile" /\ ctl'.store = ctl.store
      /\ ctl'.after = ctl.after /\ ctl'.first = ctl.first /\ ctl'.held = ctl.held
      /\ ctl'.emitted = ctl.emitted /\ ctl'.decision = ctl.decision
      /\ ctl'.timer = ctl.timer /\ ctl'.seen = job[ctl.store].state
  BY <1>1 DEF Controls, Places, JobRecord
<1>3. NamesExist' /\ AfterByPlace'
  BY <1>1, <1>2 DEF CInv, NamesExist, AfterByPlace, Exists
<1>4. StoreIsUnreported' /\ SeenHasEnded'
  BY <1>1, <1>2 DEF FInv, StoreIsUnreported, SeenHasEnded, Unreported, Terminal
<1>5. FreeToTurn' /\ ScanFinds' /\ BoundKnows'
  BY <1>1, <1>2 DEF BInv, FreeToTurn, ScanFinds, BoundKnows, AtWork, Alive
<1> QED BY <1>1, <1>2, <1>3, <1>4, <1>5, ControlKeeps

\* A poll that cannot read says nothing, and takes the decision of its call.
LEMMA UnreadableKeeps ==
    ASSUME Inv, Unreadable
    PROVE  Inv'
<1> USE DEF Inv
<1>1. /\ ctl.at = "read" /\ UNCHANGED <<job, missed, old, finished>>
      /\ ctl \in Controls /\ ctl.store \in Jobs
      /\ ctl' = Afterwards(ctl)
  BY DEF Unreadable, Control, world, CInv, Typed, NamesExist, Controls, Jobs
<1>2. /\ ctl' \in Controls /\ ctl'.at = "idle" /\ ctl'.after = "none"
      /\ ctl'.store = ctl.store /\ ctl'.emitted = ctl.emitted
      /\ ctl'.first = ctl.first
      /\ ctl'.timer => ctl.timer
      /\ ctl'.decision = IF ctl.after = "set" THEN ctl.held ELSE ctl.decision
      /\ ctl'.busy = IsRunning(ctl')
  <2>1. LET d == Afterwards(ctl)
        IN /\ d \in Controls /\ d.at = "idle" /\ d.after = "none"
           /\ d.store = ctl.store /\ d.emitted = ctl.emitted
           /\ d.first = ctl.first
           /\ d.timer => ctl.timer
           /\ d.decision = IF ctl.after = "set" THEN ctl.held ELSE ctl.decision
           /\ d.busy = IsRunning(d)
    BY <1>1, AfterwardsIs
  <2> QED BY <1>1, <2>1
<1>3. NamesExist' /\ AfterByPlace'
  BY <1>1, <1>2 DEF CInv, NamesExist, AfterByPlace, Exists, Jobs
<1>4. StoreIsUnreported' /\ SeenHasEnded'
  <2>1. ~ctl.emitted => Unreported(ctl.store)
    BY <1>1 DEF FInv, StoreIsUnreported, Jobs
  <2> QED BY <1>1, <1>2, <2>1 DEF StoreIsUnreported, SeenHasEnded, Unreported
<1>5. FreeToTurn'
  BY <1>1, <1>2 DEF FreeToTurn, IsRunning
<1>6. ScanFinds' /\ BoundKnows'
  BY <1>1, <1>2
  DEF BInv, ScanFinds, BoundKnows, AtWork, Alive, Attachable, RunningStates, Controls
<1> QED BY <1>1, <1>2, <1>3, <1>4, <1>5, <1>6, ControlKeeps

\* A decision is taken when there was one, or when the job has ended: of a job at
\* work only when its worker lives, and then it says so.
LEMMA PollReconcileKeeps ==
    ASSUME Inv, PollReconcile
    PROVE  Inv'
<1> USE DEF Inv
<1>1. /\ ctl.at = "reconcile" /\ UNCHANGED <<job, missed, old, finished>>
      /\ ctl \in Controls /\ ctl.store \in Jobs
  BY DEF PollReconcile, Control, world, CInv, Typed, NamesExist, Controls, Jobs
<1>2. ASSUME ctl' \in Controls, ctl'.at = "report", ctl'.store = ctl.store,
             ctl'.after = ctl.after, ctl'.first = ctl.first, ctl'.held = ctl.held,
             ctl'.emitted = ctl.emitted, ctl'.seen = ctl.seen,
             \A i \in Jobs : AtWork(i) =>
               \/ ctl'.decision = ctl.decision
               \/ job[i].worker = "alive" /\ ctl'.decision.state \in RunningStates
      PROVE  Inv'
  <2>1. NamesExist' /\ AfterByPlace'
    BY <1>1, <1>2 DEF CInv, NamesExist, AfterByPlace, Exists, Jobs
  <2>2. StoreIsUnreported' /\ SeenHasEnded'
    BY <1>1, <1>2 DEF FInv, StoreIsUnreported, SeenHasEnded, Unreported, Terminal
  <2>3. FreeToTurn' /\ ScanFinds' /\ BoundKnows'
    BY <1>1, <1>2 DEF BInv, FreeToTurn, ScanFinds, BoundKnows, AtWork, Alive
  <2> QED BY <1>1, <1>2, <2>1, <2>2, <2>3, ControlKeeps
<1>3. CASE Control([ctl EXCEPT !.at = "report"])
  <2>1. ctl' = [ctl EXCEPT !.at = "report"]
    BY <1>3 DEF Control
  <2> QED BY <1>1, <1>2, <2>1 DEF Controls, Places
<1>4. ASSUME ctl.decision # Undecided \/ ctl.seen \in TerminalStates,
             NEW d \in Reconciled(ctl.store),
             Control([SetDecision(ctl, d) EXCEPT !.at = "report"])
      PROVE  Inv'
  <2>1. /\ d \in Decisions
        /\ d.state \in Attachable <=> job[ctl.store].worker = "alive"
    BY <1>1, <1>4, ReconciledIs DEF CInv
  <2>2. PICK s \in Decisions, t \in BOOLEAN :
          /\ t => ctl.timer
          /\ SetDecision(ctl, d) =
               [ctl EXCEPT !.decision = d, !.shown = s, !.timer = t]
    BY <1>1, <2>1, SetDecisionIs
  <2>3. ctl' = [SetDecision(ctl, d) EXCEPT !.at = "report"]
    BY <1>4 DEF Control
  <2>4. /\ ctl' \in Controls /\ ctl'.at = "report" /\ ctl'.store = ctl.store
        /\ ctl'.after = ctl.after /\ ctl'.first = ctl.first /\ ctl'.held = ctl.held
        /\ ctl'.emitted = ctl.emitted /\ ctl'.seen = ctl.seen /\ ctl'.decision = d
    BY <1>1, <2>1, <2>2, <2>3 DEF Controls, Places
  <2>5. ASSUME NEW i \in Jobs, AtWork(i)
        PROVE  job[i].worker = "alive" /\ d.state \in RunningStates
    <3>1. ctl.store = i /\ (job[i].worker # "alive" => ctl.decision = Undecided)
      BY <1>1, <2>5 DEF BInv, BoundKnows
    <3>2. ~Terminal(i)
      BY <2>5, AtWorkIs DEF CInv, AtWork
    <3>3. ctl.decision # Undecided
      BY <1>1, <1>4, <3>1, <3>2 DEF FInv, SeenHasEnded
    <3> QED BY <2>1, <3>1, <3>3 DEF Attachable, RunningStates
  <2> QED BY <1>2, <2>4, <2>5
<1> QED BY <1>3, <1>4 DEF PollReconcile

\* The report is made once for a store, and of a job that has ended.
LEMMA ReportKeeps ==
    ASSUME Inv, Report
    PROVE  Inv'
<1> USE DEF Inv
<1> DEFINE reports == ctl.seen \in TerminalStates /\ ~ctl.emitted
           j == ctl.store
<1>1. /\ ctl.at = "report" /\ UNCHANGED <<job, missed, old>>
      /\ ctl \in Controls /\ j \in Jobs
      /\ finished' = [finished EXCEPT ![j] = IF reports THEN @ + 1 ELSE @]
      /\ ctl' = Afterwards([ctl EXCEPT !.emitted = @ \/ reports,
                                       !.timer = @ /\ ~reports])
  BY DEF Report, CInv, Typed, NamesExist, Controls, Jobs
<1>2. PICK b \in BOOLEAN, t \in BOOLEAN :
         b = (ctl.emitted \/ reports) /\ t = (ctl.timer /\ ~reports)
  <2>1. (ctl.emitted \/ reports) \in BOOLEAN /\ (ctl.timer /\ ~reports) \in BOOLEAN
    OBVIOUS
  <2> QED BY <2>1
<1>3. ctl' = Afterwards([ctl EXCEPT !.emitted = b, !.timer = t])
  BY <1>1, <1>2 DEF Controls
<1> DEFINE c == [ctl EXCEPT !.emitted = b, !.timer = t]
<1>4. /\ c \in Controls /\ c.after = ctl.after /\ c.store = j
      /\ c.first = ctl.first /\ c.held = ctl.held /\ c.decision = ctl.decision
      /\ c.emitted = b /\ c.timer = t
  BY <1>1, <1>2 DEF Controls
<1> HIDE DEF c
<1>5. /\ ctl' \in Controls /\ ctl'.at = "idle" /\ ctl'.after = "none"
      /\ ctl'.store = j /\ ctl'.emitted = b /\ ctl'.first = ctl.first
      /\ ctl'.timer => t
      /\ ctl'.decision = IF ctl.after = "set" THEN ctl.held ELSE ctl.decision
      /\ ctl'.busy = IsRunning(ctl')
  <2>1. ctl' = Afterwards(c)
    BY <1>3 DEF c
  <2>2. LET d == Afterwards(c)
        IN /\ d \in Controls /\ d.at = "idle" /\ d.after = "none"
           /\ d.store = j /\ d.emitted = b /\ d.first = ctl.first
           /\ d.timer => t
           /\ d.decision = IF ctl.after = "set" THEN ctl.held ELSE ctl.decision
           /\ d.busy = IsRunning(d)
    BY <1>4, AfterwardsIs
  <2> QED BY <2>1, <2>2
<1>6. finished \in [Jobs -> Nat]
  BY DEF CInv, Typed
<1>7. reports => Terminal(j) /\ Unreported(j)
  BY <1>1 DEF FInv, SeenHasEnded, StoreIsUnreported, Jobs
<1>8. CInv'
  <2>1. finished' \in [Jobs -> Nat]
    BY <1>1, <1>6
  <2>2. Typed' /\ WorkersAct'
    BY <1>1, <1>5, <2>1 DEF CInv, Typed, WorkersAct, Exists
  <2>3. NamesExist' /\ AfterByPlace'
    BY <1>1, <1>5 DEF CInv, NamesExist, AfterByPlace, Exists, Jobs
  <2> QED BY <2>2, <2>3 DEF CInv
<1>9. FInv'
  <2>1. finished'[j] = IF reports THEN 1 ELSE finished[j]
    BY <1>1, <1>6, <1>7 DEF Unreported
  <2>2. \A i \in Jobs \ {j} : finished'[i] = finished[i]
    BY <1>1, <1>6
  <2>3. ReportedHaveEnded'
    BY <1>1, <1>7, <2>1, <2>2 DEF FInv, ReportedHaveEnded, Terminal, Unreported
  <2>4. StoreIsUnreported' /\ SeenHasEnded'
    BY <1>1, <1>2, <1>5, <2>1
    DEF FInv, StoreIsUnreported, SeenHasEnded, Unreported, Jobs
  <2> QED BY <2>3, <2>4 DEF FInv
<1>10. BInv'
  <2>1. \A i \in Jobs : AtWork(i)' <=> AtWork(i)
    BY <1>1 DEF AtWork, Alive
  <2>2. AtWorkIsLatest'
    BY <1>1, <2>1 DEF BInv, AtWorkIsLatest, Exists
  <2>3. FreeToTurn'
    BY <1>1, <1>5 DEF FreeToTurn, IsRunning
  <2>4. ScanFinds' /\ BoundKnows'
    BY <1>1, <1>5, <2>1
    DEF BInv, ScanFinds, BoundKnows, Attachable, RunningStates, Controls
  <2> QED BY <2>2, <2>3, <2>4 DEF BInv
<1> QED BY <1>8, <1>9, <1>10
-----------------------------------------------------------------------------
(* Commands and jobs that the user starts.                                  *)

LEMMA DismissKeeps ==
    ASSUME Inv, Dismiss
    PROVE  Inv'
<1> USE DEF Inv
<1>1. /\ ctl.at \in {"refused", "refused for nothing"}
      /\ UNCHANGED <<job, missed, old, finished>>
      /\ ctl \in Controls /\ ctl' = Idle(ctl)
  BY DEF Dismiss, Control, world, CInv, Typed
<1>2. /\ ctl' \in Controls /\ ctl'.at = "idle" /\ ctl'.busy = IsRunning(ctl')
      /\ ctl' = [ctl EXCEPT !.at = "idle", !.busy = Idle(ctl).busy]
  BY <1>1, IdleIs DEF IsRunning
<1>3. /\ ctl'.store = ctl.store /\ ctl'.after = ctl.after /\ ctl'.held = ctl.held
      /\ ctl'.first = ctl.first /\ ctl'.emitted = ctl.emitted
      /\ ctl'.decision = ctl.decision /\ ctl'.timer = ctl.timer
  BY <1>1, <1>2 DEF Controls
<1>4. NamesExist' /\ AfterByPlace'
  BY <1>1, <1>2, <1>3 DEF CInv, NamesExist, AfterByPlace, Exists
<1>5. StoreIsUnreported' /\ SeenHasEnded'
  BY <1>1, <1>2, <1>3 DEF FInv, StoreIsUnreported, SeenHasEnded, Unreported
<1>6. FreeToTurn' /\ ScanFinds' /\ BoundKnows'
  BY <1>1, <1>2, <1>3
  DEF BInv, FreeToTurn, ScanFinds, BoundKnows, AtWork, Alive, IsRunning
<1> QED BY <1>1, <1>2, <1>4, <1>5, <1>6, ControlKeeps

\* The controller of a call that a user or the end of a process makes.
Calls(c) ==
  /\ ctl.at = "idle" /\ c \in Controls
  /\ c.at = "idle" /\ c.store = ctl.store /\ c.decision = ctl.decision
  /\ c.timer = ctl.timer /\ c.emitted = ctl.emitted /\ c.after = ctl.after
  /\ c.first = ctl.first /\ c.held = ctl.held

LEMMA RefuseKeeps ==
    ASSUME Inv, NEW c, Calls(c), Refuse(c)
    PROVE  Inv'
<1> USE DEF Inv
<1>1. PICK p \in {"refused", "refused for nothing"} : ctl' = [c EXCEPT !.at = p]
  BY DEF Refuse, Control
<1>2. UNCHANGED <<job, missed, old, finished>> /\ ctl.at = "idle"
  BY DEF Refuse, Control, world, Calls
<1>3. /\ ctl' \in Controls /\ ctl'.at = p
      /\ ctl'.store = ctl.store /\ ctl'.after = ctl.after /\ ctl'.held = ctl.held
      /\ ctl'.first = ctl.first /\ ctl'.emitted = ctl.emitted
      /\ ctl'.decision = ctl.decision /\ ctl'.timer = ctl.timer
  BY <1>1 DEF Calls, Controls, Places
<1>4. NamesExist' /\ AfterByPlace'
  BY <1>2, <1>3 DEF CInv, NamesExist, AfterByPlace, Exists
<1>5. StoreIsUnreported' /\ SeenHasEnded'
  BY <1>2, <1>3 DEF FInv, StoreIsUnreported, SeenHasEnded, Unreported
<1>6. FreeToTurn' /\ ScanFinds' /\ BoundKnows'
  BY <1>2, <1>3 DEF BInv, FreeToTurn, ScanFinds, BoundKnows, AtWork, Alive
<1> QED BY <1>2, <1>3, <1>4, <1>5, <1>6, ControlKeeps

\* A job is made only when none is at work: what the controller is bound to would
\* say that it runs.
LEMMA SubmitKeeps ==
    ASSUME Inv, NEW c, Calls(c), ~IsRunning(c), NEW solves \in BOOLEAN,
           Submit(c, solves)
    PROVE  Inv'
<1> USE DEF Inv
<1>1. PICK j \in Jobs, launched \in BOOLEAN :
        /\ job[j] = NoJob /\ \A i \in 1..(j - 1) : job[i] # NoJob
        /\ job' = [job EXCEPT ![j] =
             [NoJob EXCEPT !.state = "SUBMITTED", !.solves = solves,
                           !.worker = IF launched THEN "launched" ELSE "gone"]]
        /\ ctl' = [c EXCEPT
             !.store = j, !.decision = Undecided, !.emitted = FALSE,
             !.shown = IF launched THEN Undecided ELSE @, !.busy = TRUE,
             !.timer = launched \/ @, !.started = IF launched THEN j ELSE 0]
        /\ UNCHANGED <<missed, old, finished>>
  BY DEF Submit
<1>2. \A i \in Jobs : ~AtWork(i)
  <2> SUFFICES ASSUME NEW i \in Jobs, AtWork(i) PROVE FALSE
    OBVIOUS
  <2>1. job[i].state \in ActiveStates
    BY AtWorkIs DEF CInv, AtWork
  <2>2. /\ c.store = i /\ i # 0
        /\ c.decision = Undecided \/ c.decision.state \in RunningStates
    BY DEF BInv, BoundKnows, Calls, CInv, AfterByPlace, Jobs
  <2> QED BY <2>1, <2>2 DEF IsRunning, RunningStates
<1> DEFINE r == [NoJob EXCEPT !.state = "SUBMITTED", !.solves = solves,
                              !.worker = IF launched THEN "launched" ELSE "gone"]
<1>3. /\ r \in JobRecord /\ r.state = "SUBMITTED" /\ ~r.child /\ ~r.run
      /\ r.worker \in {"launched", "gone"}
  BY DEF NoJob, JobRecord, ActiveStates
<1>4. job' = [job EXCEPT ![j] = r]
  BY <1>1
<1> HIDE DEF r
<1>5. /\ job \in [Jobs -> JobRecord] /\ job' \in [Jobs -> JobRecord] /\ job'[j] = r
      /\ \A i \in Jobs \ {j} : job'[i] = job[i]
      /\ ~Exists(j) /\ Exists(j)'
      /\ \A i \in Jobs \ {j} : Exists(i)' <=> Exists(i)
      /\ ~Terminal(j)
  BY <1>1, <1>3, <1>4
  DEF CInv, Typed, Exists, NoJob, Terminal, TerminalStates
<1>6. \A h \in Jobs : /\ h > j => ~Exists(h)
                      /\ h < j => Exists(h)
  <2>1. ASSUME NEW h \in Jobs, h > j PROVE ~Exists(h)
    BY <1>5, <2>1 DEF CInv, WorkersAct, Jobs
  <2>2. ASSUME NEW h \in Jobs, h < j PROVE Exists(h)
    <3>1. h \in 1..(j - 1)
      BY <2>2 DEF Jobs
    <3> QED BY <1>1, <3>1 DEF CInv, WorkersAct
  <2> QED BY <2>1, <2>2
<1>7. PICK s \in Decisions, t \in BOOLEAN, k \in 0..Last :
        ctl' = [c EXCEPT !.store = j, !.decision = Undecided, !.emitted = FALSE,
                         !.shown = s, !.busy = TRUE, !.timer = t, !.started = k]
  <2>1. /\ (IF launched THEN Undecided ELSE c.shown) \in Decisions
        /\ (launched \/ c.timer) \in BOOLEAN
        /\ (IF launched THEN j ELSE 0) \in 0..Last
    BY UndecidedIs, LastIs DEF Calls, Controls, Jobs
  <2> QED BY <1>1, <2>1 DEF Calls, Controls
<1>8. /\ ctl' \in Controls /\ ctl'.at = "idle" /\ ctl'.store = j
      /\ ctl'.decision = Undecided /\ ~ctl'.emitted /\ ctl'.busy
      /\ ctl'.after = ctl.after /\ ctl'.first = ctl.first
  <2>1. j \in 0..Last
    BY DEF Jobs
  <2>2. c \in Controls /\ c.at = "idle" /\ c.after = ctl.after /\ c.first = ctl.first
    BY DEF Calls
  <2> QED BY <1>7, <2>1, <2>2, UndecidedIs DEF Controls
<1>9. CInv'
  <2>1. Typed'
    BY <1>1, <1>5, <1>8 DEF CInv, Typed
  <2>2. ASSUME NEW i \in Jobs
        PROVE  (/\ job[i].worker \in {"launched", "locked"} =>
                     job[i].state = "SUBMITTED" /\ ~job[i].child /\ ~job[i].run
                /\ job[i].worker = "alive" => job[i].state \in ActiveStates
                /\ ~Exists(i) => job[i] = NoJob
                /\ Exists(i) => \A h \in Jobs : h < i => Exists(h))'
    <3>1. CASE i = j
      BY <1>3, <1>5, <1>6, <3>1
    <3>2. CASE i # j
      BY <1>3, <1>5, <1>6, <3>2 DEF CInv, WorkersAct
    <3> QED BY <3>1, <3>2
  <2>3. WorkersAct'
    BY <2>2 DEF WorkersAct
  <2>4. NamesExist' /\ AfterByPlace'
    BY <1>5, <1>8 DEF CInv, NamesExist, AfterByPlace, Calls, Jobs
  <2> QED BY <2>1, <2>3, <2>4 DEF CInv
<1>10. FInv'
  <2>1. ReportedHaveEnded'
    BY <1>1, <1>5 DEF FInv, ReportedHaveEnded, Terminal
  <2>2. Unreported(j)
    BY <1>5 DEF FInv, ReportedHaveEnded, Unreported, CInv, Typed
  <2>3. StoreIsUnreported' /\ SeenHasEnded'
    BY <1>1, <1>8, <2>2 DEF StoreIsUnreported, SeenHasEnded, Unreported
  <2> QED BY <2>1, <2>3 DEF FInv
<1>11. BInv'
  <2>1. \A i \in Jobs : AtWork(i)' => i = j
    BY <1>1, <1>2, <1>5 DEF AtWork, Alive
  <2>2. AtWorkIsLatest'
    BY <1>5, <1>6, <2>1 DEF AtWorkIsLatest, Jobs
  <2>3. FreeToTurn' /\ ScanFinds' /\ BoundKnows'
    BY <1>8, <2>1
    DEF FreeToTurn, ScanFinds, BoundKnows, CInv, AfterByPlace, Calls
  <2> QED BY <2>2, <2>3 DEF BInv
<1> QED BY <1>9, <1>10, <1>11

LEMMA StartCliKeeps ==
    ASSUME Inv, NEW c, Calls(c), NEW solves \in BOOLEAN, StartCli(c, solves)
    PROVE  Inv'
BY RefuseKeeps, SubmitKeeps DEF StartCli

LEMMA StartJobKeeps ==
    ASSUME Inv, StartJob
    PROVE  Inv'
<1>1. PICK solves \in BOOLEAN : StartCli(ctl, solves)
  BY DEF StartJob
<1>2. Calls(ctl)
  BY DEF Inv, CInv, Typed, StartJob, Calls
<1> QED BY <1>1, <1>2, StartCliKeeps

\* A command that is no job takes the decision away, and the buttons with it.
LEMMA StartProcessKeeps ==
    ASSUME Inv, StartProcess
    PROVE  Inv'
<1> USE DEF Inv
<1>1. Calls(ctl) /\ ctl \in Controls /\ ctl.at = "idle"
  BY DEF CInv, Typed, StartProcess, Calls
<1>2. CASE IsRunning(ctl)
  <2>1. Refuse(ctl)
    BY <1>2 DEF StartProcess
  <2> QED BY <1>1, <2>1, RefuseKeeps
<1>3. CASE ~IsRunning(ctl)
  <2>1. PICK process \in {"validate", "other"} :
          Control([ctl EXCEPT !.process = process, !.decision = Undecided,
                              !.shown = Undecided, !.busy = TRUE])
    BY <1>3 DEF StartProcess
  <2>2. ctl' = [ctl EXCEPT !.process = process, !.decision = Undecided,
                           !.shown = Undecided, !.busy = TRUE]
    BY <2>1 DEF Control
  <2>3. /\ ctl' \in Controls /\ ctl'.at = "idle" /\ ctl'.busy
        /\ ctl'.store = ctl.store /\ ctl'.after = ctl.after /\ ctl'.held = ctl.held
        /\ ctl'.first = ctl.first /\ ctl'.emitted = ctl.emitted
        /\ ctl'.decision = Undecided /\ ctl'.timer = ctl.timer
    BY <1>1, <2>2, UndecidedIs DEF Controls
  <2>4. UNCHANGED <<job, missed, old, finished>>
    BY <2>1 DEF Control, world
  <2>5. NamesExist' /\ AfterByPlace'
    BY <1>1, <2>3, <2>4 DEF CInv, NamesExist, AfterByPlace, Exists
  <2>6. StoreIsUnreported' /\ SeenHasEnded'
    BY <1>1, <2>3, <2>4 DEF FInv, StoreIsUnreported, SeenHasEnded, Unreported
  <2>7. FreeToTurn' /\ ScanFinds' /\ BoundKnows'
    BY <1>1, <2>3, <2>4 DEF BInv, FreeToTurn, ScanFinds, BoundKnows, AtWork, Alive
  <2> QED BY <2>3, <2>4, <2>5, <2>6, <2>7, ControlKeeps
<1> QED BY <1>2, <1>3

LEMMA ProcessEndsKeeps ==
    ASSUME Inv, ProcessEnds
    PROVE  Inv'
<1> USE DEF Inv
<1> DEFINE c == [ctl EXCEPT !.process = "none"]
<1>1. Calls(c) /\ ctl \in Controls /\ ctl.at = "idle"
  BY DEF CInv, Typed, ProcessEnds, Calls, Controls
<1>2. StartCli(c, TRUE) \/ Control(Idle(c))
  BY DEF ProcessEnds
<1> HIDE DEF c
<1>3. CASE StartCli(c, TRUE)
  BY <1>1, <1>3, StartCliKeeps
<1>4. CASE Control(Idle(c))
  <2>1. ctl' = Idle(c) /\ UNCHANGED <<job, missed, old, finished>>
    BY <1>4 DEF Control, world
  <2>2. /\ ctl' \in Controls /\ ctl'.at = "idle" /\ ctl'.busy = IsRunning(ctl')
        /\ ctl' = [c EXCEPT !.at = "idle", !.busy = Idle(c).busy]
    BY <1>1, <2>1, IdleIs DEF IsRunning, Calls
  <2>3. /\ ctl'.store = ctl.store /\ ctl'.after = ctl.after /\ ctl'.held = ctl.held
        /\ ctl'.first = ctl.first /\ ctl'.emitted = ctl.emitted
        /\ ctl'.decision = ctl.decision /\ ctl'.timer = ctl.timer
    BY <1>1, <2>2 DEF Controls, Calls
  <2>4. NamesExist' /\ AfterByPlace'
    BY <1>1, <2>1, <2>2, <2>3 DEF CInv, NamesExist, AfterByPlace, Exists
  <2>5. StoreIsUnreported' /\ SeenHasEnded'
    BY <1>1, <2>1, <2>2, <2>3 DEF FInv, StoreIsUnreported, SeenHasEnded, Unreported
  <2>6. FreeToTurn' /\ ScanFinds' /\ BoundKnows'
    BY <1>1, <2>1, <2>2, <2>3
    DEF BInv, FreeToTurn, ScanFinds, BoundKnows, AtWork, Alive, IsRunning
  <2> QED BY <2>1, <2>2, <2>4, <2>5, <2>6, ControlKeeps
<1> QED BY <1>2, <1>3, <1>4
-----------------------------------------------------------------------------
(* Cancellation, recovery, and closing the window.                          *)

LEMMA RequestCancelKeeps ==
    ASSUME Inv, RequestCancel
    PROVE  Inv'
<1> USE DEF Inv
<1> DEFINE j == ctl.store
           r == [job[j] EXCEPT !.cancel = TRUE]
<1>1. /\ j \in Jobs /\ job[j] \in JobRecord /\ ctl.at = "idle" /\ ctl \in Controls
      /\ job' = [job EXCEPT ![j] = r] /\ ctl' = [ctl EXCEPT !.at = "read"]
      /\ UNCHANGED <<missed, old, finished>>
  BY DEF RequestCancel, world, CInv, Typed, Controls, Jobs
<1>2. /\ r \in JobRecord /\ r.state = job[j].state /\ r.worker = job[j].worker
      /\ r.child = job[j].child /\ r.run = job[j].run
  BY <1>1 DEF JobRecord
<1>3. Exists(j)
  BY <1>1 DEF CInv, NamesExist, Jobs
<1> HIDE DEF r
<1>4. Evolves /\ WorkersAct'
  <2>1. /\ r.state # "absent"
        /\ r.worker \in {"launched", "locked"} =>
             r.state = "SUBMITTED" /\ ~r.child /\ ~r.run
        /\ r.worker = "alive" => r.state \in ActiveStates
        /\ r.state \in ActiveStates => job[j].state \in ActiveStates
        /\ Terminal(j) => r.state \in TerminalStates
        /\ r.worker \in {"launched", "locked", "alive"} => Alive(j)
        /\ job[j].worker = "alive" => r.worker \in {"alive", "gone"}
    BY <1>1, <1>2, <1>3 DEF CInv, WorkersAct, Exists, Terminal, Alive
  <2> QED BY <1>1, <1>2, <1>3, <2>1, OneEvolves DEF CInv
<1>5. /\ ctl' \in Controls /\ ctl'.at = "read" /\ ctl'.store = j
      /\ ctl'.after = ctl.after /\ ctl'.held = ctl.held
      /\ ctl'.first = ctl.first /\ ctl'.emitted = ctl.emitted
      /\ ctl'.decision = ctl.decision /\ ctl'.timer = ctl.timer
  BY <1>1 DEF Controls, Places
<1>6. CInv'
  <2>1. Typed'
    BY <1>1, <1>4, <1>5 DEF CInv, Typed, Evolves
  <2>2. NamesExist' /\ AfterByPlace'
    BY <1>1, <1>4, <1>5 DEF CInv, NamesExist, AfterByPlace, Evolves, Jobs
  <2> QED BY <1>4, <2>1, <2>2 DEF CInv
<1>7. FInv'
  <2>1. ReportedHaveEnded'
    BY <1>1, <1>4 DEF FInv, ReportedHaveEnded, Evolves
  <2>2. StoreIsUnreported' /\ SeenHasEnded'
    BY <1>1, <1>5 DEF FInv, StoreIsUnreported, SeenHasEnded, Unreported
  <2> QED BY <2>1, <2>2 DEF FInv
<1>8. BInv'
  <2>1. /\ \A i \in Jobs : AtWork(i)' => AtWork(i)
        /\ \A i \in Jobs : job'[i].worker = job[i].worker
    BY <1>1, <1>2, <1>4 DEF Evolves, AtWork, CInv, Typed
  <2>2. AtWorkIsLatest'
    BY <1>4, <2>1 DEF BInv, AtWorkIsLatest, Evolves
  <2>3. FreeToTurn' /\ ScanFinds' /\ BoundKnows'
    BY <1>1, <1>5, <2>1 DEF BInv, FreeToTurn, ScanFinds, BoundKnows
  <2> QED BY <2>2, <2>3 DEF BInv
<1> QED BY <1>6, <1>7, <1>8

\* A job is recovered when nobody is at work on it.
LEMMA RecoversKeeps ==
    ASSUME Inv, NEW j \in Jobs, j = ctl.store, NEW action, NEW diagnosis,
           NEW r \in JobRecord, Recovers(j, action, diagnosis, r),
           r.worker = job[j].worker, r.worker \notin {"launched", "locked", "alive"},
           r.state # "absent",
           r.state \in ActiveStates => job[j].state \in ActiveStates,
           Terminal(j) => r.state \in TerminalStates
    PROVE  Inv'
<1> USE DEF Inv
<1>1. /\ ctl.at = "idle" /\ ctl \in Controls /\ Exists(j)
      /\ job' = [job EXCEPT ![j] = r] /\ UNCHANGED <<missed, old, finished>>
  BY DEF Recovers, world, CInv, Typed, NamesExist, Jobs
<1>2. Evolves /\ WorkersAct'
  BY <1>1, OneEvolves DEF CInv
<1>3. PICK d \in Reconciled(j)' :
        ctl' = [SetDecision(ctl, d) EXCEPT !.at = "read", !.after = "show",
                                           !.held = d]
  BY DEF Recovers
<1>4. d \in Decisions
  <2>1. PICK e, q : e = q /\ d = About(j, Decide(e))
    BY <1>3 DEF Reconciled
  <2>2. j \in 0..Last
    BY DEF Jobs
  <2>3. Decide(e) \in Verdicts
    BY DecideIs
  <2> QED BY <2>1, <2>2, <2>3 DEF About, Decisions, Verdicts
<1>5. PICK s \in Decisions, t \in BOOLEAN :
        /\ t => ctl.timer
        /\ SetDecision(ctl, d) =
             [ctl EXCEPT !.decision = d, !.shown = s, !.timer = t]
  BY <1>1, <1>4, SetDecisionIs
<1>6. /\ ctl' \in Controls /\ ctl'.at = "read" /\ ctl'.store = j
      /\ ctl'.after = "show" /\ ctl'.first = ctl.first
      /\ ctl'.emitted = ctl.emitted
  BY <1>1, <1>3, <1>4, <1>5 DEF Controls, Places
<1>7. CInv'
  <2>1. Typed'
    BY <1>1, <1>2, <1>6 DEF CInv, Typed, Evolves
  <2>2. NamesExist' /\ AfterByPlace'
    BY <1>1, <1>2, <1>6 DEF CInv, NamesExist, AfterByPlace, Evolves, Jobs
  <2> QED BY <1>2, <2>1, <2>2 DEF CInv
<1>8. FInv'
  <2>1. ReportedHaveEnded'
    BY <1>1, <1>2 DEF FInv, ReportedHaveEnded, Evolves
  <2>2. StoreIsUnreported' /\ SeenHasEnded'
    BY <1>1, <1>6 DEF FInv, StoreIsUnreported, SeenHasEnded, Unreported
  <2> QED BY <2>1, <2>2 DEF FInv
<1>9. BInv'
  <2>1. \A i \in Jobs : AtWork(i)' => AtWork(i)
    BY <1>1, <1>2 DEF Evolves, AtWork
  <2>2. \A i \in Jobs : ~AtWork(i)'
    <3>1. \A i \in Jobs : AtWork(i) => i = j
      BY <1>1 DEF BInv, BoundKnows
    <3>2. ~AtWork(j)
      BY DEF AtWork, Alive
    <3> QED BY <2>1, <3>1, <3>2
  <2> QED
    BY <1>6, <2>2 DEF BInv, AtWorkIsLatest, FreeToTurn, ScanFinds, BoundKnows
<1> QED BY <1>7, <1>8, <1>9

LEMMA TerminateOrphanKeeps ==
    ASSUME Inv, TerminateOrphan
    PROVE  Inv'
<1> USE DEF Inv
<1>1. PICK j \in Jobs \cap {ctl.store} :
        Recovers(j, "terminate_orphan", "ORPHANED_ACTIVE",
                 [job[j] EXCEPT !.child = FALSE])
  BY DEF TerminateOrphan
<1>2. PICK d \in Reconciled(j) : d.state = "ORPHANED_ACTIVE"
  BY <1>1 DEF Recovers
<1>3. job[j].worker \notin {"locked", "alive"} /\ job[j].child
  BY <1>2, ReconciledIs DEF CInv
<1> DEFINE r == [job[j] EXCEPT !.child = FALSE]
<1>4. /\ r \in JobRecord /\ r.worker = job[j].worker /\ r.state = job[j].state
      /\ r.worker \notin {"launched", "locked", "alive"}
  <2>1. job[j] \in JobRecord
    BY DEF CInv, Typed
  <2>2. job[j].worker # "launched"
    BY <1>3 DEF CInv, WorkersAct
  <2> QED BY <1>3, <2>1, <2>2 DEF JobRecord
<1>5. Exists(j) /\ j = ctl.store /\ j \in Jobs
  BY <1>1 DEF CInv, NamesExist, Jobs
<1>6. Recovers(j, "terminate_orphan", "ORPHANED_ACTIVE", r)
  BY <1>1
<1> HIDE DEF r
<1> QED BY <1>4, <1>5, <1>6, RecoversKeeps DEF Exists, Terminal

LEMMA RecoverFinalizeKeeps ==
    ASSUME Inv, RecoverFinalize
    PROVE  Inv'
<1> USE DEF Inv
<1>1. PICK j \in Jobs \cap {ctl.store} :
        /\ job[j].run
        /\ Recovers(j, "recover_finalize", "ORPHANED_STOPPED",
                    [job[j] EXCEPT !.state = "INTERRUPTED", !.artifact = "valid"])
  BY DEF RecoverFinalize
<1>2. PICK d \in Reconciled(j) : d.state = "ORPHANED_STOPPED"
  BY <1>1 DEF Recovers
<1>3. job[j].worker \notin {"locked", "alive"}
  BY <1>2, ReconciledIs DEF CInv
<1> DEFINE r == [job[j] EXCEPT !.state = "INTERRUPTED", !.artifact = "valid"]
<1>4. /\ r \in JobRecord /\ r.worker = job[j].worker /\ r.state = "INTERRUPTED"
      /\ r.worker \notin {"launched", "locked", "alive"}
  <2>1. job[j] \in JobRecord
    BY DEF CInv, Typed
  <2>2. job[j].worker # "launched"
    BY <1>1 DEF CInv, WorkersAct
  <2> QED BY <1>3, <2>1, <2>2 DEF JobRecord, TerminalStates
<1>5. j = ctl.store /\ j \in Jobs
  BY <1>1
<1>6. Recovers(j, "recover_finalize", "ORPHANED_STOPPED", r)
  BY <1>1
<1> HIDE DEF r
<1> QED
  BY <1>4, <1>5, <1>6, RecoversKeeps DEF Exists, Terminal, ActiveStates, TerminalStates

LEMMA CloseKeeps ==
    ASSUME Inv, Close
    PROVE  Inv'
<1> USE DEF Inv
<1>1. ctl' = Closed /\ UNCHANGED <<job, missed, old, finished>>
  BY DEF Close
<1>2. /\ ctl' \in Controls /\ ctl'.at = "closed" /\ ctl'.store = 0
      /\ ctl'.after = "none" /\ ctl'.first = Undecided /\ ctl'.timer = FALSE
  BY <1>1, ClosedIs DEF Closed
<1>3. NamesExist' /\ AfterByPlace'
  BY <1>2 DEF NamesExist, AfterByPlace
<1>4. StoreIsUnreported' /\ SeenHasEnded'
  BY <1>2 DEF StoreIsUnreported, SeenHasEnded
<1>5. FreeToTurn' /\ ScanFinds' /\ BoundKnows'
  BY <1>2 DEF FreeToTurn, ScanFinds, BoundKnows
<1> QED BY <1>1, <1>2, <1>3, <1>4, <1>5, ControlKeeps
-----------------------------------------------------------------------------
LEMMA InitInv ==
    Init => Inv
<1> SUFFICES ASSUME Init PROVE Inv
  OBVIOUS
<1>1. /\ ctl \in Controls /\ ctl.at = "closed" /\ ctl.store = 0
      /\ ctl.after = "none" /\ ctl.first = Undecided /\ ctl.timer = FALSE
  BY ClosedIs DEF Init, Closed
<1>2. NoJob \in JobRecord /\ NoJob.state = "absent" /\ NoJob.worker = "none"
  BY DEF NoJob, JobRecord
<1>3. CInv
  BY <1>1, <1>2
  DEF Init, CInv, Typed, WorkersAct, NamesExist, AfterByPlace, Exists
<1>4. FInv
  BY <1>1 DEF Init, FInv, ReportedHaveEnded, StoreIsUnreported, SeenHasEnded
<1>5. BInv
  BY <1>1, <1>2
  DEF Init, BInv, AtWorkIsLatest, FreeToTurn, ScanFinds, BoundKnows, AtWork, Alive
<1> QED BY <1>3, <1>4, <1>5 DEF Inv

LEMMA NextInv ==
    Inv /\ [Next]_vars => Inv'
<1> SUFFICES ASSUME Inv, [Next]_vars PROVE Inv'
  OBVIOUS
<1>1. CASE UNCHANGED vars
  <2>1. Evolves /\ WorkersAct'
    BY <1>1
    DEF vars, Inv, CInv, Typed, WorkersAct, Evolves, Exists, Terminal, Alive
  <2> QED BY <1>1, <2>1, JobStepKeeps DEF vars, world
<1>2. CASE Poll
  BY <1>2, DismissKeeps, ScanKeeps, AttachKeeps, ObserveKeeps, TickKeeps, ReadKeeps,
     UnreadableKeeps, PollReconcileKeeps, ReportKeeps DEF Poll
<1>3. CASE User
  BY <1>3, OpenKeeps, OpenAgainKeeps, StartJobKeeps, StartProcessKeeps,
     RequestCancelKeeps, TerminateOrphanKeeps, RecoverFinalizeKeeps, CloseKeeps DEF User
<1>4. CASE ProcessEnds
  BY <1>4, ProcessEndsKeeps
<1>5. ASSUME NEW j \in Jobs, Worker(j) PROVE Inv'
  BY <1>5, WorkerKeeps
<1> QED BY <1>1, <1>2, <1>3, <1>4, <1>5 DEF Next

\* What the controller knows of its jobs, and the type of its state.
THEOREM Invariance == Spec => []Inv
BY InitInv, NextInv, PTL DEF Spec

THEOREM TypeCorrect == Spec => []TypeOK
<1>1. Inv => TypeOK
  BY DEF Inv, CInv, Typed, Controls, Places, TypeOK
<1> QED BY <1>1, Invariance, PTL

\* The window is told at most once that a job has finished, however often it is opened,
\* closed, or turned to another job, and never of one that had finished before.
THEOREM ReportedOnce == Spec => []FinishedOnce
<1>1. Inv => FinishedOnce
  BY DEF Inv, CInv, Typed, FInv, ReportedHaveEnded, FinishedOnce
<1> QED BY <1>1, Invariance, PTL

\* No second job starts while one is at work, unless the window came back before
\* the worker of that one had claimed it, or could not reconcile it then.
THEOREM OneWorker == Spec => []OneAtATime
<1>1. Inv => OneAtATime
  <2> SUFFICES ASSUME Inv, NEW i \in Jobs, NEW j \in Jobs, i # j,
                      Alive(i), Alive(j), i \notin missed, j \notin missed
               PROVE FALSE
    BY DEF OneAtATime
  <2>1. AtWork(i) /\ AtWork(j) /\ Exists(i) /\ Exists(j)
    BY AtWorkIs DEF AtWork, Inv, CInv
  <2>2. i > j \/ j > i
    BY DEF Jobs
  <2> QED BY <2>1, <2>2 DEF Inv, BInv, AtWorkIsLatest
<1> QED BY <1>1, Invariance, PTL
-----------------------------------------------------------------------------
(* What StartedIsReported rests on besides fairness.                        *)

\* A job that was started in this window and not reported is the one that is
\* polled, or the poll that reports it is under way.
StartedIsWatched ==
  ctl.started # 0 /\ finished[ctl.started] = 0 =>
    /\ ctl.store = ctl.started /\ ~ctl.emitted
    /\ ctl.timer \/ (ctl.at = "report" /\ ctl.seen \in TerminalStates)

\* Nothing has stopped the timer, since no decision was taken about the job: one
\* that ends it would come from a poll that saw the end, or from a recovery, for
\* which the window would have to show a decision.
Watching ==
  /\ ctl.store = ctl.started /\ ~ctl.emitted
  /\ \/ ctl.timer /\ ctl.decision = Undecided /\ ctl.shown = Undecided
     \/ ctl.at = "report" /\ ctl.seen \in TerminalStates
  /\ ctl.at \in {"read", "reconcile", "report"} => ctl.after = "none"

WInv == ctl.started # 0 /\ finished[ctl.started] = 0 => Watching

\* A step of a call that is not its report, and turns to no other job.
LEMMA WatchingStays ==
    ASSUME WInv, ctl.at # "report", UNCHANGED finished,
           ctl'.started # 0 =>
             /\ ctl'.started = ctl.started /\ ctl'.store = ctl.store
             /\ ctl'.emitted = ctl.emitted /\ ctl'.timer = ctl.timer
             /\ ctl'.decision = ctl.decision /\ ctl'.shown = ctl.shown
             /\ ctl'.at \in {"read", "reconcile", "report"} => ctl'.after = "none"
    PROVE  WInv'
BY DEF WInv, Watching

\* The end of a call.
LEMMA IdleLeaves ==
    ASSUME NEW c \in Controls
    PROVE  /\ Idle(c).at = "idle" /\ Idle(c).started = c.started
           /\ Idle(c).store = c.store /\ Idle(c).emitted = c.emitted
           /\ Idle(c).timer = c.timer /\ Idle(c).decision = c.decision
           /\ Idle(c).shown = c.shown
<1>1. PICK b : Idle(c) = [c EXCEPT !.at = "idle", !.busy = b]
  BY DEF Idle
<1> QED BY <1>1 DEF Controls

\* What the controller does by itself, up to the decision of a poll.
LEMMA PollsWatch ==
    ASSUME Inv, WInv,
           Dismiss \/ Scan \/ Attach \/ Observe \/ Tick \/ Read
    PROVE  WInv'
<1>1. ctl \in Controls /\ AfterByPlace
  BY DEF Inv, CInv, Typed
<1>2. UNCHANGED finished /\ ctl.at # "report"
  BY DEF Dismiss, Scan, Attach, Observe, Tick, Read, Control, world
<1>3. CASE Dismiss
  <2>1. ctl' = Idle(ctl)
    BY <1>3 DEF Dismiss, Control
  <2> QED BY <1>1, <1>2, <2>1, IdleLeaves, WatchingStays
<1>4. CASE Scan
  <2>1. CASE ctl' = Idle(ctl)
    BY <1>1, <1>2, <2>1, IdleLeaves, WatchingStays
  <2>2. CASE ctl' = [ctl EXCEPT !.next = @ - 1]
    BY <1>1, <1>2, <1>4, <2>2, WatchingStays DEF Controls, Scan
  <2>3. CASE ctl' = [ctl EXCEPT !.at = "observe", !.after = "set",
                                !.held = ctl.first, !.first = Undecided]
    BY <1>1, <1>2, <2>3, WatchingStays DEF Controls
  <2>4. ASSUME NEW d,
               ctl' = [ctl EXCEPT !.after = "set", !.held = d,
                                  !.next = 0, !.first = Undecided,
                                  !.at = IF d.state \in Attachable THEN "attach"
                                         ELSE "observe"]
        PROVE  WInv'
    BY <1>1, <1>2, <2>4, WatchingStays DEF Controls
  <2>5. ASSUME NEW d,
               ctl.at = "scan",
               ctl' = [ctl EXCEPT !.next = @ - 1,
                                  !.first = IF @ = Undecided THEN d ELSE @]
        PROVE  WInv'
    BY <1>1, <1>2, <2>5, WatchingStays DEF Controls
  <2>6. CASE ctl.next = 0
    BY <1>4, <2>1, <2>3, <2>6 DEF Scan
  <2>7. CASE ctl.next # 0 /\ job[ctl.next].state = "absent"
    BY <1>4, <2>2, <2>7 DEF Scan
  <2>8. CASE ctl.next # 0 /\ job[ctl.next].state # "absent"
    BY <1>4, <2>2, <2>4, <2>5, <2>8 DEF Scan
  <2> QED BY <2>6, <2>7, <2>8
<1>5. CASE Attach
  <2>1. CASE ctl' = Idle([ctl EXCEPT !.after = "none", !.held = Undecided])
    <3> DEFINE c == [ctl EXCEPT !.after = "none", !.held = Undecided]
    <3>1. /\ c \in Controls /\ c.started = ctl.started /\ c.store = ctl.store
          /\ c.emitted = ctl.emitted /\ c.timer = ctl.timer
          /\ c.decision = ctl.decision /\ c.shown = ctl.shown
      BY <1>1, UndecidedIs DEF Controls
    <3> HIDE DEF c
    <3>2. ctl' = Idle(c)
      BY <2>1 DEF c
    <3> QED BY <1>2, <3>1, <3>2, IdleLeaves, WatchingStays
  <2>2. CASE ctl'.started = 0
    BY <1>2, <2>2, WatchingStays
  <2> QED BY <1>1, <1>5, <2>1, <2>2 DEF Attach, Control, Controls
<1>6. CASE Observe
  BY <1>1, <1>2, <1>6, WatchingStays DEF Observe, Control, Controls
<1>7. CASE Tick
  BY <1>1, <1>2, <1>7, WatchingStays DEF Tick, Control, Controls, AfterByPlace
<1>8. CASE Read
  <2>1. /\ ctl.at = "read"
        /\ ctl' = [ctl EXCEPT !.at = "reconcile", !.seen = job[ctl.store].state]
    BY <1>8 DEF Read, Control
  <2> QED BY <1>1, <1>2, <2>1 DEF WInv, Watching, Controls
<1> QED BY <1>3, <1>4, <1>5, <1>6, <1>7, <1>8

\* A poll that cannot read leaves the timer of a job that is watched.
LEMMA UnreadableWatches ==
    ASSUME Inv, WInv, Unreadable
    PROVE  WInv'
<1>1. /\ ctl \in Controls /\ ctl.at = "read" /\ UNCHANGED finished
      /\ ctl' = Afterwards(ctl)
  BY DEF Inv, CInv, Typed, Unreadable, Control, world
<1>2. /\ ctl'.started = ctl.started /\ ctl'.at = "idle"
      /\ ctl'.store = ctl.store /\ ctl'.emitted = ctl.emitted
      /\ ctl.after = "none" =>
           /\ ctl'.timer = ctl.timer /\ ctl'.shown = ctl.shown
           /\ ctl'.decision = ctl.decision
  <2>1. LET d == Afterwards(ctl)
        IN /\ d.started = ctl.started /\ d.at = "idle"
           /\ d.store = ctl.store /\ d.emitted = ctl.emitted
           /\ ctl.after = "none" =>
                /\ d.timer = ctl.timer /\ d.shown = ctl.shown
                /\ d.decision = ctl.decision
    BY <1>1, AfterwardsIs
  <2> QED BY <1>1, <2>1
<1> QED BY <1>1, <1>2 DEF WInv, Watching

\* A decision about a job that is watched is taken only when its end was seen.
LEMMA DecisionsWatch ==
    ASSUME Inv, WInv, PollReconcile
    PROVE  WInv'
<1>1. /\ ctl \in Controls /\ ctl.at = "reconcile" /\ UNCHANGED finished
  BY DEF Inv, CInv, Typed, PollReconcile, Control, world
<1>2. CASE ctl' = [ctl EXCEPT !.at = "report"]
  BY <1>1, <1>2 DEF WInv, Watching, Controls
<1>3. ASSUME ctl.decision # Undecided \/ ctl.seen \in TerminalStates,
             NEW d, ctl' = [SetDecision(ctl, d) EXCEPT !.at = "report"]
      PROVE  WInv'
  <2>1. /\ ctl'.at = "report" /\ ctl'.started = ctl.started
        /\ ctl'.store = ctl.store /\ ctl'.emitted = ctl.emitted
        /\ ctl'.seen = ctl.seen /\ ctl'.after = ctl.after
    BY <1>1, <1>3 DEF SetDecision, Controls
  <2> QED BY <1>1, <1>3, <2>1 DEF WInv, Watching
<1> QED BY <1>2, <1>3 DEF PollReconcile, Control

\* A report of a job whose end was seen tells of it; any other leaves the timer.
LEMMA ReportsWatch ==
    ASSUME Inv, WInv, Report
    PROVE  WInv'
<1> DEFINE reports == ctl.seen \in TerminalStates /\ ~ctl.emitted
<1>1. /\ ctl \in Controls /\ finished \in [Jobs -> Nat] /\ ctl.at = "report"
      /\ ctl.store \in Jobs
  BY DEF Inv, CInv, Typed, NamesExist, Report, Controls, Jobs
<1> SUFFICES ASSUME ctl'.started # 0, finished'[ctl'.started] = 0
             PROVE  Watching'
  BY DEF WInv
<1>2. PICK e, t :
         /\ e = (ctl.emitted \/ reports) /\ t = (ctl.timer /\ ~reports)
         /\ ctl' = Afterwards([ctl EXCEPT !.emitted = e, !.timer = t])
  BY DEF Report, Controls
<1> DEFINE c == [ctl EXCEPT !.emitted = e, !.timer = t]
<1>3. /\ c \in Controls /\ c.started = ctl.started /\ c.store = ctl.store
      /\ c.emitted = e /\ c.timer = t /\ c.decision = ctl.decision
      /\ c.shown = ctl.shown /\ c.after = ctl.after
  <2>1. e \in BOOLEAN /\ t \in BOOLEAN
    BY <1>2
  <2> QED BY <1>1, <2>1 DEF Controls
<1> HIDE DEF c
<1>4. ctl' = Afterwards(c)
  BY <1>2 DEF c
<1>5. /\ ctl'.started = ctl.started /\ ctl'.at = "idle"
      /\ ctl'.store = ctl.store /\ ctl'.emitted = e
      /\ ctl.after = "none" =>
           /\ ctl'.timer = t /\ ctl'.shown = ctl.shown
           /\ ctl'.decision = ctl.decision
  <2>1. LET d == Afterwards(c)
        IN /\ d.started = ctl.started /\ d.at = "idle"
           /\ d.store = ctl.store /\ d.emitted = e
           /\ ctl.after = "none" =>
                d.timer = t /\ d.shown = ctl.shown /\ d.decision = ctl.decision
    BY <1>3, AfterwardsIs
  <2> QED BY <1>4, <2>1
<1>6. finished[ctl.started] = 0 /\ ~(reports /\ ctl.started = ctl.store)
  BY <1>1, <1>5 DEF Report
<1>7. /\ Watching /\ ~reports /\ ctl.timer
      /\ ctl.decision = Undecided /\ ctl.shown = Undecided /\ ctl.after = "none"
  BY <1>1, <1>5, <1>6 DEF WInv, Watching
<1>8. ctl.emitted = FALSE /\ ctl.timer = TRUE
  BY <1>1, <1>7 DEF Watching, Controls
<1>9. e = FALSE /\ t = TRUE
  BY <1>2, <1>7, <1>8
<1> QED BY <1>5, <1>7, <1>9 DEF Watching

\* A job that start_cli launched is watched from the start; a refusal leaves it.
LEMMA StartsWatch ==
    ASSUME Inv, WInv, NEW c \in Controls, NEW solves \in BOOLEAN,
           StartCli(c, solves), ctl.at = "idle", c.at = "idle",
           c.started = ctl.started, c.store = ctl.store,
           c.emitted = ctl.emitted, c.timer = ctl.timer,
           c.decision = ctl.decision, c.shown = ctl.shown, c.after = "none"
    PROVE  WInv'
<1>1. CASE Refuse(c)
  <2>1. PICK place \in {"refused", "refused for nothing"} :
           ctl' = [c EXCEPT !.at = place]
    BY <1>1 DEF Refuse, Control
  <2>2. UNCHANGED finished
    BY <1>1 DEF Refuse, Control, world
  <2> QED BY <2>1, <2>2, WatchingStays DEF Controls
<1>2. CASE Submit(c, solves)
  <2>1. PICK j \in Jobs, launched \in BOOLEAN :
          ctl' = [c EXCEPT
            !.store = j, !.decision = Undecided, !.emitted = FALSE,
            !.shown = IF launched THEN Undecided ELSE @, !.busy = TRUE,
            !.timer = launched \/ @, !.started = IF launched THEN j ELSE 0]
    BY <1>2 DEF Submit
  <2>2. UNCHANGED finished
    BY <1>2 DEF Submit
  <2>3. CASE launched
    <3>1. /\ ctl'.store = j /\ ctl'.started = j /\ ~ctl'.emitted
          /\ ctl'.timer /\ ctl'.decision = Undecided /\ ctl'.shown = Undecided
          /\ ctl'.at = "idle"
      BY <2>1, <2>3 DEF Controls
    <3> QED BY <3>1 DEF WInv, Watching
  <2>4. CASE ~launched
    BY <2>1, <2>2, <2>4, WatchingStays DEF Controls
  <2> QED BY <2>3, <2>4
<1> QED BY <1>1, <1>2 DEF StartCli

\* What the user does, and the end of a command that is no job.
LEMMA UsersWatch ==
    ASSUME Inv, WInv, User \/ ProcessEnds
    PROVE  WInv'
<1>1. ctl \in Controls /\ AfterByPlace
  BY DEF Inv, CInv, Typed
<1>2. CASE Open \/ Close
  <2>1. Closed.started = 0 /\ [Closed EXCEPT !.at = "scan", !.next = Last].started = 0
    BY DEF Closed
  <2> QED BY <1>2, <2>1 DEF Open, Close, WInv
<1>3. CASE OpenAgain
  BY <1>1, <1>3, WatchingStays DEF OpenAgain, Control, world, Controls
<1>4. CASE StartJob
  BY <1>1, <1>4, StartsWatch DEF StartJob, AfterByPlace
<1>5. CASE StartProcess
  <2>1. ctl.at = "idle" /\ UNCHANGED finished
    BY <1>5 DEF StartProcess, Refuse, Control, world
  <2>2. CASE Refuse(ctl)
    <3>1. PICK place \in {"refused", "refused for nothing"} :
             ctl' = [ctl EXCEPT !.at = place]
      BY <2>2 DEF Refuse, Control
    <3> QED BY <1>1, <2>1, <3>1, WatchingStays DEF Controls
  <2>3. CASE \E process \in {"validate", "other"} :
               ctl' = [ctl EXCEPT !.process = process, !.decision = Undecided,
                                  !.shown = Undecided, !.busy = TRUE]
    BY <1>1, <2>1, <2>3 DEF WInv, Watching, Controls
  <2> QED BY <1>5, <2>2, <2>3 DEF StartProcess, Control
<1>6. CASE ProcessEnds
  <2> DEFINE c == [ctl EXCEPT !.process = "none"]
  <2>1. /\ c \in Controls /\ c.at = ctl.at /\ c.started = ctl.started
        /\ c.store = ctl.store /\ c.emitted = ctl.emitted /\ c.timer = ctl.timer
        /\ c.decision = ctl.decision /\ c.shown = ctl.shown /\ c.after = ctl.after
    BY <1>1 DEF Controls
  <2>2. /\ ctl.at = "idle" /\ ctl.after = "none"
        /\ StartCli(c, TRUE) \/ Control(Idle(c))
    BY <1>1, <1>6 DEF ProcessEnds, AfterByPlace
  <2> HIDE DEF c
  <2>3. CASE StartCli(c, TRUE)
    BY <2>1, <2>2, <2>3, StartsWatch
  <2>4. CASE Control(Idle(c))
    <3>1. ctl' = Idle(c) /\ UNCHANGED finished
      BY <2>4 DEF Control, world
    <3> QED BY <2>1, <2>2, <3>1, IdleLeaves, WatchingStays
  <2> QED BY <2>2, <2>3, <2>4
<1>7. CASE RequestCancel
  <2>1. /\ ctl.at = "idle" /\ ctl' = [ctl EXCEPT !.at = "read"]
        /\ UNCHANGED finished
    BY <1>7 DEF RequestCancel, world
  <2> QED BY <1>1, <2>1, WatchingStays DEF Controls, AfterByPlace
<1>8. CASE TerminateOrphan \/ RecoverFinalize
  <2>1. PICK action : ctl.at = "idle" /\ UNCHANGED finished /\ action \in ctl.shown.actions
    BY <1>8 DEF TerminateOrphan, RecoverFinalize, Recovers, world
  <2>2. ctl.shown # Undecided
    <3>1. Undecided.actions = {}
      BY DEF Undecided, About, Decision
    <3> QED BY <2>1, <3>1
  <2>3. PICK d : ctl' = [SetDecision(ctl, d) EXCEPT !.at = "read", !.after = "show",
                                                    !.held = d]
    BY <1>8 DEF TerminateOrphan, RecoverFinalize, Recovers
  <2>4. ctl'.started = ctl.started
    BY <1>1, <2>3 DEF SetDecision, Controls
  <2> QED BY <2>1, <2>2, <2>4 DEF WInv, Watching
<1> QED BY <1>2, <1>3, <1>4, <1>5, <1>6, <1>7, <1>8 DEF User

\* Every behaviour keeps WInv.
THEOREM WatchInvariance == Spec => []WInv
<1>1. Init => WInv
  BY DEF Init, Closed, WInv
<1>2. Inv /\ WInv /\ [Next]_vars => WInv'
  <2> SUFFICES ASSUME Inv, WInv, [Next]_vars PROVE WInv'
    OBVIOUS
  <2>1. CASE UNCHANGED vars
    BY <2>1 DEF vars, world, WInv, Watching
  <2>2. CASE Poll
    BY <2>2, PollsWatch, UnreadableWatches, DecisionsWatch, ReportsWatch DEF Poll
  <2>3. CASE User \/ ProcessEnds
    BY <2>3, UsersWatch
  <2>4. ASSUME NEW j \in Jobs, Worker(j) PROVE WInv'
    <3>1. UNCHANGED <<ctl, finished>>
      BY <2>4 DEF Worker, TakeLock, Claim, Work, SealRun, Settle, Die, ChildExits,
         Becomes, world
    <3> QED BY <3>1 DEF WInv, Watching
  <2> QED BY <2>1, <2>2, <2>3, <2>4 DEF Next
<1> QED BY <1>1, <1>2, Invariance, PTL DEF Spec

\* A job that start_cli launched is polled until the window is told of its end or
\* turns to another job: no decision, button, command or unreadable status stops the
\* timer before.  What remains of StartedIsReported is that the event loop runs and
\* that a status is not unreadable for ever.
THEOREM StartedJobIsWatched == Spec => []StartedIsWatched
<1>1. WInv => StartedIsWatched
  BY DEF WInv, Watching, StartedIsWatched
<1> QED BY <1>1, WatchInvariance, PTL
=============================================================================
