------------------------------ MODULE DesktopJob ------------------------------
(***************************************************************************)
(* The window of the desktop and its DesktopJobController: starting        *)
(* detached jobs and short commands, finding the jobs again after the      *)
(* window was closed, polling, cancelling, recovering, and when the window *)
(* is told that a job has finished.                                        *)
(*                                                                         *)
(* The controller is single-threaded, but a poll or an attachment reads    *)
(* the job several times while its worker goes on: each read is a step.    *)
(* The decision it takes each time is Decide of module Reconcile.  The     *)
(* worker is the one of JobWorker, reduced to what a reader of the job     *)
(* sees; terminate_orphan and recover_finalize are those of JobRecovery,   *)
(* in one step.                                                            *)
(***************************************************************************)
EXTENDS Integers, Reconcile

CONSTANTS
  Last,         \* job directories are 1..Last, named in the order of creation
  Drafts,       \* bound: the jobs that may be drafts, which make no run
  MaxCloses,    \* bound: times the window is closed
  MaxDeaths     \* bound: workers that die, or are never launched

ASSUME DesktopAssumption ==
  {Last, MaxCloses, MaxDeaths} \subseteq Nat /\ Drafts \subseteq 1..Last

Jobs == 1..Last

VARIABLES
  job,        \* what can be read of each job
  ctl,        \* the controller, and the window's copy of its decision
  missed,     \* jobs the controller looked at before their worker claimed them,
              \* or could not decide about while they were at work
  old,        \* jobs that were terminal when the window was opened
  finished,   \* how often the window was told that a job has finished
  closes, deaths

world == <<missed, old, finished, closes, deaths>>
vars == <<job, ctl, world>>

JobRecord ==
  [state : {"absent"} \cup ActiveStates \cup TerminalStates,
   worker : {"none", "launched", "locked", "alive", "gone"},
   child : BOOLEAN, run : BOOLEAN, artifact : {"absent", "valid", "damaged"},
   cancel : BOOLEAN, solves : BOOLEAN]

NoJob == [state |-> "absent", worker |-> "none", child |-> FALSE, run |-> FALSE,
          artifact |-> "absent", cancel |-> FALSE, solves |-> FALSE]

\* A decision about job j.
About(j, d) == [job |-> j, state |-> d.state, code |-> d.code, actions |-> d.actions]
Undecided == About(0, Decision("none", "none", {}))

\* at: where the controller is in a call; store: the job it is bound to;
\* decision: its recovery decision; shown: the window's; timer: polling is on;
\* emitted: job_finished was emitted for the store; process: a command that is
\* no job is running, and what follows it; seen: the state a poll has read;
\* next: the candidate of attach_latest; first: the latest finalized one;
\* after: what a call does with a decision after its poll; busy: what the
\* buttons were last set by; started: the store, if start_cli launched it
Closed ==
  [at |-> "closed", store |-> 0, decision |-> Undecided, shown |-> Undecided,
   timer |-> FALSE, emitted |-> FALSE, process |-> "none", seen |-> "absent",
   next |-> 0, first |-> Undecided, after |-> "none", held |-> Undecided,
   busy |-> FALSE, started |-> 0]

Init ==
  /\ job = [j \in Jobs |-> NoJob]
  /\ ctl = Closed
  /\ missed = {} /\ old = {}
  /\ finished = [j \in Jobs |-> 0]
  /\ closes = 0 /\ deaths = 0

-----------------------------------------------------------------------------
(* What the controller reads.                                              *)

EvidenceOf(j, fresh) ==
  [state |-> job[j].state,
   code |-> IF job[j].state = "CANCELLED" THEN "USER_CANCELLED" ELSE "other",
   worker |-> job[j].worker = "alive", child |-> job[j].child,
   lock |-> job[j].worker \in {"locked", "alive"}, fresh |-> fresh,
   run |-> job[j].run, path |-> FALSE, artifact |-> job[j].artifact,
   resume |-> FALSE, control |-> FALSE, solves |-> job[j].solves]

\* reconcile_job; the heartbeat may be late whenever the worker lives.
Reconciled(j) ==
  {About(j, Decide(EvidenceOf(j, fresh))) : fresh \in BOOLEAN}

Terminal(j) == job[j].state \in TerminalStates
Alive(j) == job[j].worker \in {"launched", "locked", "alive"}

\* Mutant: an unresponsive worker is not taken for a running one.
RunningIfFresh(c) ==
  \/ c.process # "none"
  \/ /\ c.store # 0
     /\ IF c.decision # Undecided
        THEN c.decision.state \in {"RUNNING", "ORPHANED_ACTIVE"}
        ELSE job[c.store].state \in ActiveStates

\* is_running
IsRunning(c) ==
  \/ c.process # "none"
  \/ /\ c.store # 0
     /\ IF c.decision # Undecided
        THEN c.decision.state \in {"RUNNING", "UNRESPONSIVE", "ORPHANED_ACTIVE"}
        ELSE job[c.store].state \in ActiveStates

Control(c) == ctl' = c /\ UNCHANGED <<job, world>>

\* The call is over: the window sets its buttons.
Idle(c) == [c EXCEPT !.at = "idle", !.busy = IsRunning(c)]

\* _set_recovery_decision, and the window that is told of a change.
SetDecision(c, d) ==
  [c EXCEPT !.decision = d,
            !.shown = IF d # c.decision THEN d ELSE @,
            !.timer = /\ @
                      /\ d.state \notin {"ORPHANED_STOPPED", "FINALIZED",
                                         "EVIDENCE_DAMAGED"}]

-----------------------------------------------------------------------------
(* Opening the window or a directory: attach_latest.                       *)

Open ==
  /\ ctl.at = "closed"
  /\ ctl' = [Closed EXCEPT !.at = "scan", !.next = Last]
  /\ old' = {j \in Jobs : Terminal(j)}
  /\ finished' = [j \in Jobs |-> 0]
  /\ UNCHANGED <<job, missed, closes, deaths>>

OpenAgain ==
  /\ ctl.at = "idle" /\ ~ctl.busy
  /\ Control([ctl EXCEPT !.at = "scan", !.next = Last, !.first = Undecided])

\* Decisions attach_latest attaches on, and those it observes at once; a job that
\* cannot be reconciled is passed over.
Attachable == {"RUNNING", "UNRESPONSIVE"}
Pending == {"ORPHANED_ACTIVE", "ORPHANED_STOPPED", "EVIDENCE_DAMAGED"}

Scan ==
  /\ ctl.at = "scan"
  /\ \/ /\ ctl.next = 0
        /\ ctl' = IF ctl.first = Undecided THEN Idle(ctl)
                  ELSE [ctl EXCEPT !.at = "observe", !.after = "set",
                                   !.held = ctl.first, !.first = Undecided]
        /\ UNCHANGED missed
     \/ /\ ctl.next # 0 /\ job[ctl.next].state = "absent"
        /\ ctl' = [ctl EXCEPT !.next = @ - 1]
        /\ UNCHANGED missed
     \/ /\ ctl.next # 0 /\ job[ctl.next].state # "absent"
        /\ ctl' = [ctl EXCEPT !.next = @ - 1]
        /\ missed' = missed \cup {j \in {ctl.next} : Alive(j)}
     \/ /\ ctl.next # 0 /\ job[ctl.next].state # "absent"
        /\ \E d \in Reconciled(ctl.next) :
             ctl' = IF d.state \in Attachable \cup Pending
                    THEN [ctl EXCEPT !.after = "set", !.held = d,
                                     !.next = 0, !.first = Undecided,
                                     !.at = IF d.state \in Attachable THEN "attach"
                                            ELSE "observe"]
                    ELSE [ctl EXCEPT !.next = @ - 1,
                                     !.first = IF @ = Undecided THEN d ELSE @]
        /\ missed' = missed \cup
             {j \in {ctl.next} : job[j].worker \in {"launched", "locked"}}
  /\ UNCHANGED <<job, old, finished, closes, deaths>>

\* attach_job: refused while something runs, or when the worker it reads of is
\* no longer there.
Attach ==
  LET j == ctl.held.job
      gone == /\ job[j].state \in ActiveStates \ {"SUBMITTED"}
              /\ job[j].worker # "alive"
  IN /\ ctl.at = "attach"
     /\ Control(IF IsRunning(ctl) \/ gone
                THEN Idle([ctl EXCEPT !.after = "none", !.held = Undecided])
                ELSE [ctl EXCEPT !.at = "read", !.store = j, !.timer = TRUE,
                                 !.emitted = FALSE, !.shown = Undecided,
                                 !.started = 0])

\* Mutant: a job that is terminal already is reported like any other.
ObserveAfresh ==
  /\ ctl.at = "observe"
  /\ Control([ctl EXCEPT !.at = "read", !.store = ctl.held.job, !.timer = TRUE,
                         !.emitted = FALSE, !.started = 0])

\* _observe_job: a job that is terminal already is not reported again.
Observe ==
  /\ ctl.at = "observe"
  /\ Control([ctl EXCEPT !.at = "read", !.store = ctl.held.job, !.timer = TRUE,
                         !.emitted = Terminal(ctl.held.job), !.started = 0])

-----------------------------------------------------------------------------
(* _poll_job.                                                              *)

Tick == ctl.at = "idle" /\ ctl.timer /\ Control([ctl EXCEPT !.at = "read"])

Read == /\ ctl.at = "read"
        /\ Control([ctl EXCEPT !.at = "reconcile", !.seen = job[ctl.store].state])

\* attach_latest sets its decision after the poll; a recovery action shows it.
Afterwards(c) ==
  LET d == [c EXCEPT !.after = "none", !.held = Undecided, !.seen = "absent"]
  IN Idle(CASE c.after = "set" -> SetDecision(d, c.held)
            [] c.after = "show" -> [d EXCEPT !.shown = c.held]
            [] c.after = "none" -> d)

\* The status, or a log, cannot be read: the poll is over, and the timer goes on.
Unreadable == ctl.at = "read" /\ Control(Afterwards(ctl))

\* An error of reconcile_job is passed over.
PollReconcile ==
  /\ ctl.at = "reconcile"
  /\ \/ /\ ctl.decision # Undecided \/ ctl.seen \in TerminalStates
        /\ \E d \in Reconciled(ctl.store) :
             Control([SetDecision(ctl, d) EXCEPT !.at = "report"])
     \/ Control([ctl EXCEPT !.at = "report"])

\* Mutant: only a timer that still runs reports.
ReportWhilePolling ==
  LET reports == ctl.seen \in TerminalStates /\ ~ctl.emitted /\ ctl.timer
  IN /\ ctl.at = "report"
     /\ ctl' = Afterwards([ctl EXCEPT !.emitted = @ \/ reports,
                                      !.timer = @ /\ ~reports])
     /\ finished' = [finished EXCEPT ![ctl.store] = IF reports THEN @ + 1 ELSE @]
     /\ UNCHANGED <<job, missed, old, closes, deaths>>

Report ==
  LET reports == ctl.seen \in TerminalStates /\ ~ctl.emitted
  IN /\ ctl.at = "report"
     /\ ctl' = Afterwards([ctl EXCEPT !.emitted = @ \/ reports,
                                      !.timer = @ /\ ~reports])
     /\ finished' = [finished EXCEPT ![ctl.store] = IF reports THEN @ + 1 ELSE @]
     /\ UNCHANGED <<job, missed, old, closes, deaths>>

-----------------------------------------------------------------------------
(* start_cli.                                                              *)

\* A detached job, bound before its worker is launched; the launch may fail.
Submit(c, solves) ==
  \E j \in Jobs :
    /\ solves \/ j \in Drafts
    /\ job[j] = NoJob /\ \A i \in 1..(j - 1) : job[i] # NoJob
    /\ \E launched \in BOOLEAN :
         /\ ~launched => deaths < MaxDeaths
         /\ job' = [job EXCEPT ![j] =
              [NoJob EXCEPT !.state = "SUBMITTED", !.solves = solves,
                            !.worker = IF launched THEN "launched" ELSE "gone"]]
         /\ deaths' = IF launched THEN deaths ELSE deaths + 1
         /\ ctl' = [c EXCEPT
              !.store = j, !.decision = Undecided, !.emitted = FALSE,
              !.shown = IF launched THEN Undecided ELSE @, !.busy = TRUE,
              !.timer = launched \/ @, !.started = IF launched THEN j ELSE 0]
    /\ UNCHANGED <<missed, old, finished, closes>>

\* DESKTOP_JOB_BUSY, shown to the user at once.
Refuse(c) ==
  Control([c EXCEPT !.at =
    IF c.process # "none" \/ Alive(c.store) \/ job[c.store].child
    THEN "refused" ELSE "refused for nothing"])

Dismiss ==
  /\ ctl.at \in {"refused", "refused for nothing"}
  /\ Control(Idle(ctl))

StartCli(c, solves) ==
  \/ IsRunning(c) /\ Refuse(c)
  \/ ~IsRunning(c) /\ Submit(c, solves)

\* A draft, a resume or a rerun is a job at once.
StartJob ==
  /\ ctl.at = "idle" /\ ~ctl.busy
  /\ \E solves \in BOOLEAN : StartCli(ctl, solves)

\* Every other command is a child process of the window: it takes the decision
\* away and leaves the store.  A solve validates its task in one first.
StartProcess ==
  /\ ctl.at = "idle" /\ ~ctl.busy
  /\ IF IsRunning(ctl) THEN Refuse(ctl)
     ELSE \E process \in {"validate", "other"} :
            Control([ctl EXCEPT !.process = process, !.decision = Undecided,
                                !.shown = Undecided, !.busy = TRUE])

\* _on_finished: a validated task is solved.
ProcessEnds ==
  LET c == [ctl EXCEPT !.process = "none"]
  IN /\ ctl.at = "idle" /\ ctl.process # "none"
     /\ \/ ctl.process = "validate" /\ StartCli(c, TRUE)
        \/ Control(Idle(c))

-----------------------------------------------------------------------------
(* Cancellation, recovery, and closing the window.                         *)

RequestCancel ==
  /\ ctl.at = "idle" /\ ctl.store # 0 /\ IsRunning(ctl)
  /\ IF ctl.shown = Undecided THEN ctl.busy ELSE "cancel" \in ctl.shown.actions
  /\ job' = [job EXCEPT ![ctl.store].cancel = TRUE]
  /\ ctl' = [ctl EXCEPT !.at = "read"]
  /\ UNCHANGED world

\* request_terminate_orphan and request_recover_finalize decide again; their
\* errors change nothing.
Recovers(j, action, diagnosis, after) ==
  /\ ctl.at = "idle" /\ action \in ctl.shown.actions
  /\ \E d \in Reconciled(j) : d.state = diagnosis
  /\ job' = [job EXCEPT ![j] = after]
  /\ \E d \in Reconciled(j)' :
       ctl' = [SetDecision(ctl, d) EXCEPT !.at = "read", !.after = "show", !.held = d]
  /\ UNCHANGED world

TerminateOrphan ==
  \E j \in Jobs \cap {ctl.store} :
    Recovers(j, "terminate_orphan", "ORPHANED_ACTIVE", [job[j] EXCEPT !.child = FALSE])

RecoverFinalize ==
  \E j \in Jobs \cap {ctl.store} :
    /\ ~ctl.busy
    /\ job[j].run
    /\ Recovers(j, "recover_finalize", "ORPHANED_STOPPED",
                [job[j] EXCEPT !.state = "INTERRUPTED", !.artifact = "valid"])

\* Closing is no cancellation, and a command that is no job dies with the window.
Close ==
  /\ ctl.at = "idle" /\ closes < MaxCloses
  /\ ctl' = Closed
  /\ closes' = closes + 1
  /\ UNCHANGED <<job, missed, old, finished, deaths>>

-----------------------------------------------------------------------------
(* The worker of a job, as a reader of its files and locks sees it.        *)

Becomes(j, r) == job' = [job EXCEPT ![j] = r] /\ UNCHANGED <<ctl, world>>

TakeLock(j) ==
  job[j].worker = "launched" /\ Becomes(j, [job[j] EXCEPT !.worker = "locked"])

\* The first status a worker writes names it.
Claim(j) ==
  /\ job[j].worker = "locked"
  /\ Becomes(j, [job[j] EXCEPT !.worker = "alive", !.state = "STARTING"])

Working(j) == job[j].worker = "alive"

Work(j) ==
  /\ Working(j)
  /\ \/ job[j].state = "STARTING" /\ Becomes(j, [job[j] EXCEPT !.state = "RUNNING"])
     \/ /\ job[j].state = "RUNNING" /\ job[j].cancel
        /\ Becomes(j, [job[j] EXCEPT !.state = "CANCEL_REQUESTED"])
     \/ /\ job[j].state = "RUNNING" /\ job[j].solves /\ ~job[j].run
        /\ Becomes(j, [job[j] EXCEPT !.run = TRUE])
     \/ /\ job[j].state = "RUNNING" /\ ~job[j].child /\ job[j].artifact = "absent"
        /\ Becomes(j, [job[j] EXCEPT !.child = TRUE])
     \/ job[j].child /\ Becomes(j, [job[j] EXCEPT !.child = FALSE])

\* Summary, then manifest, when no child is left.
SealRun(j) ==
  /\ Working(j) /\ job[j].run /\ ~job[j].child
  /\ \/ job[j].artifact = "absent" /\ Becomes(j, [job[j] EXCEPT !.artifact = "damaged"])
     \/ job[j].artifact = "damaged" /\ Becomes(j, [job[j] EXCEPT !.artifact = "valid"])

\* The terminal status; no decision about a terminal job depends on whether its
\* worker still holds the lock.
Settle(j) ==
  /\ Working(j) /\ ~job[j].child /\ (job[j].run => job[j].artifact = "valid")
  /\ \E state \in {"COMPLETED", "FAILED"}
                  \cup (IF job[j].cancel THEN {"CANCELLED"} ELSE {}) :
       Becomes(j, [job[j] EXCEPT !.state = state, !.worker = "gone"])

Die(j) ==
  /\ Alive(j) /\ deaths < MaxDeaths
  /\ job' = [job EXCEPT ![j].worker = "gone"]
  /\ deaths' = deaths + 1
  /\ UNCHANGED <<ctl, missed, old, finished, closes>>

ChildExits(j) ==
  /\ job[j].worker = "gone" /\ job[j].child
  /\ Becomes(j, [job[j] EXCEPT !.child = FALSE])

-----------------------------------------------------------------------------
Poll == \/ Dismiss \/ Scan \/ Attach \/ Observe \/ Tick \/ Read \/ Unreadable
        \/ PollReconcile \/ Report

User == \/ Open \/ OpenAgain \/ StartJob \/ StartProcess \/ RequestCancel
        \/ TerminateOrphan \/ RecoverFinalize \/ Close

Worker(j) == \/ TakeLock(j) \/ Claim(j) \/ Work(j) \/ SealRun(j) \/ Settle(j)
             \/ Die(j) \/ ChildExits(j)

Next == Poll \/ User \/ ProcessEnds \/ \E j \in Jobs : Worker(j)

\* The event loop of the window runs, and delivers the timer between whatever the
\* user does; a status is not unreadable for ever.  Nothing else is promised.
Spec == Init /\ [][Next]_vars /\ WF_vars(Poll) /\ SF_vars(Tick) /\ SF_vars(Read)

-----------------------------------------------------------------------------
(* Properties.                                                             *)

Decisions == [job : 0..Last, state : Diagnoses \cup {"none"},
              code : DecisionCodes \cup {"none"}, actions : SUBSET Actions]

TypeOK ==
  /\ job \in [Jobs -> JobRecord]
  /\ ctl.at \in {"closed", "idle", "scan", "attach", "observe", "read",
                 "reconcile", "report", "refused", "refused for nothing"}
  /\ {ctl.store, ctl.started, ctl.next} \subseteq 0..Last
  /\ {ctl.decision, ctl.shown, ctl.first, ctl.held} \subseteq Decisions
  /\ missed \subseteq Jobs /\ old \subseteq Jobs
  /\ finished \in [Jobs -> Nat]

\* The window is told at most once that a job has finished, not before it has, and
\* never of a job that had finished before the window was opened.
FinishedOnce ==
  ctl.at # "closed" =>
    \A j \in Jobs : /\ finished[j] <= IF j \in old THEN 0 ELSE 1
                    /\ finished[j] = 1 => Terminal(j)

\* The desktop lets no second job start while one of its jobs is at work, over
\* any closing and reopening, unless it came back before the worker of that job
\* had claimed it, or could not reconcile it then.
OneAtATime ==
  \A i, j \in Jobs : i # j /\ Alive(i) /\ Alive(j) => (missed \cap {i, j}) # {}

\* A job that was started in this window and ends is reported to it, over polls
\* that cannot read it and decisions that stop the timer, unless the window is
\* closed or turns to another job first.
StartedIsReported ==
  \A j \in Jobs :
    (ctl.started = j /\ Terminal(j)) ~> (finished[j] = 1 \/ ctl.started # j)

===============================================================================
