----------------------------- MODULE JobWorker -----------------------------
(***************************************************************************)
(* jobs/worker.py and jobs/store.py: one durable local job, the worker     *)
(* processes launched for it, and what they write to its status file.      *)
(*                                                                         *)
(* A worker is a process with a main thread, a heartbeat thread and the    *)
(* status listener, which runs on the main thread inside every activity    *)
(* event.  It runs external processes through SupervisedProcess, composed  *)
(* here: the reporter's cancellation check is the cancel file or the       *)
(* status_failure event, and an emission raises when the listener cannot   *)
(* write the status.                                                       *)
(*                                                                         *)
(* update_status (read, modify, replace under the store's thread lock) is  *)
(* one step.  _critical_status_update tries it three times: it is one step *)
(* that writes, or one that exhausts its attempts, leaves the status alone *)
(* and records worker-control-failure.json.                                *)
(***************************************************************************)
EXTENDS Naturals, FiniteSets

CONSTANTS
    Workers,            \* worker processes launched on the job root
    Observers,          \* processes that probe the lock (reconcile_job)
    Nobody,
    MaxFaults,          \* bound on exhausted status writes and failed reads
    CrashAllowed,       \* a worker process may be killed
    Kids, Captures, EscapeAllowed, MaxCalls

ASSUME WorkerAssumption ==
    /\ Nobody \notin Workers \cup Observers
    /\ Workers \cap Observers = {}
    /\ MaxFaults \in Nat
    /\ CrashAllowed \in BOOLEAN

ASSUME ProcessAssumption ==
    /\ Captures \subseteq BOOLEAN /\ Captures # {}
    /\ EscapeAllowed \in BOOLEAN
    /\ MaxCalls \in Nat

VARIABLES
    status,       \* job-status.json
    cancelFile,   \* control/cancel-request.json exists
    trace,        \* worker-control-failure.json exists
    lockFile,     \* worker.lock exists
    lock,         \* who holds the flock on it
    pc,           \* main thread of each worker
    executions,   \* how many times cli_runner was invoked
    verdict,      \* terminal state and code settled before they are written
    exitCode,     \* what cli_runner returned or raised
    stop,         \* the stop event
    hb,           \* heartbeat thread: pc
    hbState,      \* heartbeat thread: the state it read and will write
    hbFailed,     \* status_failures holds the heartbeat's failure
    failureSet,   \* the status_failure event
    listenerFailed, cancelledProcess,  \* _StatusListener
    faults,
    sup, pipes, why, leader, kids, expired, outcome, recycled, misfired, calls

fileVars == <<status, cancelFile, trace>>
lockVars == <<lockFile, lock>>
mainVars == <<pc, executions, verdict, exitCode, stop>>
hbVars == <<hb, hbState, hbFailed, failureSet>>
listenVars == <<listenerFailed, cancelledProcess>>
procVars ==
    <<sup, pipes, why, leader, kids, expired, outcome, recycled, misfired, calls>>
vars == <<fileVars, lockVars, mainVars, hbVars, listenVars, faults, procVars>>

\* cancellation_requested()
CancelSeen == cancelFile \/ failureSet

Proc == INSTANCE SupervisedProcess WITH cancel <- CancelSeen

Active == {"SUBMITTED", "STARTING", "RUNNING", "CANCEL_REQUESTED", "CANCELLING"}
Terminal == {"CANCELLED", "COMPLETED", "FAILED"}
Codes == {"none", "JOB_STATUS_WRITE_FAILED", "JOB_BOOTSTRAP_FAILED",
          "USER_CANCELLED", "JOB_WORKER_FAILED", "CLI_EXIT"}

PcStates == {"new", "opened", "locked", "startFailed", "bootstrap", "bootFailed",
             "ready", "entering", "cli", "stopping", "joining", "settling",
             "writing", "emergency", "unlocking", "unlocked", "exited",
             "refused", "crashed"}

TypeOK ==
    /\ status \in [state : Active \cup Terminal, worker : Workers \cup {Nobody},
                   child : BOOLEAN, code : Codes]
    /\ {cancelFile, trace, lockFile, stop, hbFailed, failureSet,
        listenerFailed, cancelledProcess} \subseteq BOOLEAN
    /\ lock \in Workers \cup Observers \cup {Nobody}
    /\ pc \in [Workers -> PcStates]
    /\ executions \in Nat
    /\ verdict \in [state : Terminal, code : Codes]
    /\ exitCode \in {"returned", "internal", "cancelled", "error", "unwritten"}
    /\ hb \in {"off", "waiting", "read", "decided", "failing", "done"}
    /\ hbState \in Active
    /\ faults \in 0..MaxFaults
    /\ Proc!TypeOK

Init ==
    /\ status = [state |-> "SUBMITTED", worker |-> Nobody, child |-> FALSE,
                 code |-> "none"]
    /\ cancelFile = FALSE
    /\ trace = FALSE
    /\ lockFile = FALSE
    /\ lock = Nobody
    /\ pc = [w \in Workers |-> "new"]
    /\ executions = 0
    /\ verdict = [state |-> "FAILED", code |-> "none"]
    /\ exitCode = "internal"
    /\ stop = FALSE
    /\ hb = "off"
    /\ hbState = "SUBMITTED"
    /\ hbFailed = FALSE
    /\ failureSet = FALSE
    /\ listenerFailed = FALSE
    /\ cancelledProcess = FALSE
    /\ faults = 0
    /\ Proc!ProcessInit
-----------------------------------------------------------------------------
(* The store.                                                              *)

\* _critical_status_update succeeded, possibly after failed attempts.
Writes(new) ==
    /\ status' = new
    /\ UNCHANGED <<trace, faults>>

\* It failed three times and recorded the failure (best effort).
WriteFails ==
    /\ faults < MaxFaults
    /\ faults' = faults + 1
    /\ trace' \in {trace, TRUE}
    /\ UNCHANGED status

Goto(w, place) == pc' = [pc EXCEPT ![w] = place]

Finished(state, code) ==
    [status EXCEPT !.state = state, !.code = code, !.child = FALSE]

\* request_cancel: created exclusively, a second request is the first one.
RequestCancel ==
    /\ ~cancelFile
    /\ cancelFile' = TRUE
    /\ UNCHANGED <<status, trace, lockVars, mainVars, hbVars, listenVars,
                   faults, procVars>>

\* writer_lock_held: takes the lock to see whether it is free, and drops it.
ProbeTakes(o) ==
    /\ lockFile
    /\ lock = Nobody
    /\ lock' = o
    /\ UNCHANGED <<fileVars, lockFile, mainVars, hbVars, listenVars, faults,
                   procVars>>

ProbeDrops(o) ==
    /\ lock = o
    /\ lock' = Nobody
    /\ UNCHANGED <<fileVars, lockFile, mainVars, hbVars, listenVars, faults,
                   procVars>>
-----------------------------------------------------------------------------
(* The main thread, before and after the CLI runs.                         *)

Quiet == UNCHANGED <<cancelFile, hbVars, listenVars, procVars>>

\* writer_lock: open("a+") creates the file, flock comes second.
OpenLock(w) ==
    /\ pc[w] = "new"
    /\ Goto(w, "opened")
    /\ lockFile' = TRUE
    /\ Quiet /\ UNCHANGED <<status, trace, lock, executions, verdict, exitCode,
                            stop, faults>>

TakeLock(w) ==
    /\ pc[w] = "opened"
    /\ IF lock = Nobody
       THEN lock' = w /\ Goto(w, "locked")
       ELSE UNCHANGED lock /\ Goto(w, "refused")
    /\ Quiet /\ UNCHANGED <<status, trace, lockFile, executions, verdict,
                            exitCode, stop, faults>>

\* Only a SUBMITTED job may be started.
RefuseStarted(w) ==
    /\ pc[w] = "locked"
    /\ status.state # "SUBMITTED"
    /\ Goto(w, "refused")
    /\ lock' = Nobody
    /\ Quiet /\ UNCHANGED <<status, trace, lockFile, executions, verdict,
                            exitCode, stop, faults>>

\* Mutant: the state of the job is not checked under the lock.
StartAgain(w) ==
    /\ pc[w] = "locked"
    /\ \/ /\ Writes([status EXCEPT !.state = "STARTING", !.worker = w])
          /\ Goto(w, "bootstrap")
       \/ WriteFails /\ Goto(w, "startFailed")
    /\ Quiet /\ UNCHANGED <<lockVars, executions, verdict, exitCode, stop>>

Start(w) ==
    /\ pc[w] = "locked"
    /\ status.state = "SUBMITTED"
    /\ \/ /\ Writes([status EXCEPT !.state = "STARTING", !.worker = w])
          /\ Goto(w, "bootstrap")
       \/ WriteFails /\ Goto(w, "startFailed")
    /\ Quiet /\ UNCHANGED <<lockVars, executions, verdict, exitCode, stop>>

\* The first write failed: one attempt to say so, then the worker leaves.
ReportStartFailed(w) ==
    /\ pc[w] = "startFailed"
    /\ Writes(Finished("FAILED", "JOB_STATUS_WRITE_FAILED")) \/ WriteFails
    /\ Goto(w, "unlocking")
    /\ Quiet /\ UNCHANGED <<lockVars, executions, verdict, exitCode, stop>>

\* read_spec and verify_inputs.
Bootstrap(w) ==
    /\ pc[w] = "bootstrap"
    /\ Goto(w, "ready") \/ Goto(w, "bootFailed")
    /\ Quiet /\ UNCHANGED <<status, trace, lockVars, executions, verdict,
                            exitCode, stop, faults>>

ReportBootFailed(w) ==
    /\ pc[w] = "bootFailed"
    /\ Writes(Finished("FAILED", "JOB_BOOTSTRAP_FAILED")) \/ WriteFails
    /\ Goto(w, "unlocking")
    /\ Quiet /\ UNCHANGED <<lockVars, executions, verdict, exitCode, stop>>

\* RUNNING is written, then the heartbeat thread starts.
EnterRunning(w) ==
    /\ pc[w] = "ready"
    /\ \/ /\ Writes([status EXCEPT !.state = "RUNNING"])
          /\ hb' = "waiting"
          /\ Goto(w, "entering")
          /\ UNCHANGED exitCode
       \/ /\ WriteFails
          /\ exitCode' = "unwritten"
          /\ Goto(w, "settling")
          /\ UNCHANGED hb
    /\ UNCHANGED <<cancelFile, lockVars, executions, verdict, stop, hbState,
                   hbFailed, failureSet, listenVars, procVars>>

\* reporter.raise_if_cancelled(), then cli_runner.
EnterCli(w) ==
    /\ pc[w] = "entering"
    /\ IF CancelSeen
       THEN /\ exitCode' = "cancelled"
            /\ Goto(w, "stopping")
            /\ UNCHANGED executions
       ELSE /\ executions' = executions + 1
            /\ Goto(w, "cli")
            /\ UNCHANGED exitCode
    /\ Quiet /\ UNCHANGED <<status, trace, lockVars, verdict, stop, faults>>

\* The CLI returns 130 only when it saw the cancellation; any other exit code
\* and an escaping exception are always possible.
CliReturns(w) ==
    /\ pc[w] = "cli"
    /\ sup = "idle"
    /\ exitCode' \in {"returned", "internal", "error"}
                       \cup (IF CancelSeen THEN {"cancelled"} ELSE {})
    /\ Goto(w, "stopping")
    /\ Quiet /\ UNCHANGED <<status, trace, lockVars, executions, verdict, stop,
                            faults>>

StopHeartbeat(w) ==
    /\ pc[w] = "stopping"
    /\ stop' = TRUE
    /\ Goto(w, "joining")
    /\ Quiet /\ UNCHANGED <<status, trace, lockVars, executions, verdict,
                            exitCode, faults>>

\* join(timeout = heartbeat_seconds + 0.5): the heartbeat has ended, or is in a
\* cycle that outlasts the join.
JoinHeartbeat(w) ==
    /\ pc[w] = "joining"
    /\ Goto(w, "settling")
    /\ Quiet /\ UNCHANGED <<status, trace, lockVars, executions, verdict,
                            exitCode, stop, faults>>

\* Mutant: the listener's swallowed failure is forgotten.
VerdictOfHeartbeat ==
    IF hbFailed \/ exitCode = "unwritten"
    THEN [state |-> "FAILED", code |-> "JOB_STATUS_WRITE_FAILED"]
    ELSE IF exitCode = "cancelled" \/ cancelledProcess
    THEN [state |-> "CANCELLED", code |-> "USER_CANCELLED"]
    ELSE IF exitCode \in {"error", "internal"}
    THEN [state |-> "FAILED", code |-> "JOB_WORKER_FAILED"]
    ELSE [state |-> "COMPLETED", code |-> "CLI_EXIT"]

\* Mutant: cancellation is looked at before the failed writes.
CancelledFirst ==
    IF exitCode = "cancelled" \/ cancelledProcess
    THEN [state |-> "CANCELLED", code |-> "USER_CANCELLED"]
    ELSE IF listenerFailed \/ hbFailed \/ exitCode = "unwritten"
    THEN [state |-> "FAILED", code |-> "JOB_STATUS_WRITE_FAILED"]
    ELSE IF exitCode \in {"error", "internal"}
    THEN [state |-> "FAILED", code |-> "JOB_WORKER_FAILED"]
    ELSE [state |-> "COMPLETED", code |-> "CLI_EXIT"]

TerminalVerdict ==
    IF listenerFailed \/ hbFailed \/ exitCode = "unwritten"
    THEN [state |-> "FAILED", code |-> "JOB_STATUS_WRITE_FAILED"]
    ELSE IF exitCode = "cancelled" \/ cancelledProcess
    THEN [state |-> "CANCELLED", code |-> "USER_CANCELLED"]
    ELSE IF exitCode \in {"error", "internal"}
    THEN [state |-> "FAILED", code |-> "JOB_WORKER_FAILED"]
    ELSE [state |-> "COMPLETED", code |-> "CLI_EXIT"]

Settle(w) ==
    /\ pc[w] = "settling"
    /\ verdict' = TerminalVerdict
    /\ Goto(w, "writing")
    /\ Quiet /\ UNCHANGED <<status, trace, lockVars, executions, exitCode, stop,
                            faults>>

WriteTerminal(w) ==
    /\ pc[w] = "writing"
    /\ \/ Writes(Finished(verdict.state, verdict.code)) /\ Goto(w, "unlocking")
       \/ WriteFails /\ Goto(w, "emergency")
    /\ Quiet /\ UNCHANGED <<lockVars, executions, verdict, exitCode, stop>>


\* _emergency_terminalize: one attempt through emergency_fail_status.
Emergency(w) ==
    /\ pc[w] = "emergency"
    /\ \/ /\ status' = Finished("FAILED", "JOB_STATUS_WRITE_FAILED")
          /\ trace' \in {trace, TRUE}
          /\ UNCHANGED faults
       \/ WriteFails
    /\ Goto(w, "unlocking")
    /\ Quiet /\ UNCHANGED <<lockVars, executions, verdict, exitCode, stop>>

Unlock(w) ==
    /\ pc[w] = "unlocking"
    /\ lock' = Nobody
    /\ Goto(w, "unlocked")
    /\ Quiet /\ UNCHANGED <<status, trace, lockFile, executions, verdict,
                            exitCode, stop, faults>>

\* The process ends; its heartbeat is a daemon thread and ends with it.
Exit(w) ==
    /\ pc[w] = "unlocked"
    /\ Goto(w, "exited")
    /\ hb' = "done"
    /\ UNCHANGED <<fileVars, lockVars, executions, verdict, exitCode, stop,
                   hbState, hbFailed, failureSet, listenVars, faults, procVars>>
-----------------------------------------------------------------------------
(* The heartbeat thread.                                                   *)

Beat == UNCHANGED <<cancelFile, lockVars, mainVars, listenVars, procVars>>

\* The status is read outside the store's lock ...
HbRead ==
    /\ hb = "waiting"
    /\ ~stop
    /\ IF status.state \in Terminal
       THEN hb' = "done" /\ UNCHANGED hbState
       ELSE hb' = "read" /\ hbState' = status.state
    /\ Beat /\ UNCHANGED <<status, trace, hbFailed, failureSet, faults>>

\* ... an unreadable one ends the thread without a word ...
HbReadFails ==
    /\ hb = "waiting"
    /\ ~stop
    /\ faults < MaxFaults
    /\ faults' = faults + 1
    /\ hb' = "done"
    /\ Beat /\ UNCHANGED <<status, trace, hbState, hbFailed, failureSet>>

HbDecide ==
    /\ hb = "read"
    /\ hb' = "decided"
    /\ hbState' = IF cancelFile /\ hbState \in {"STARTING", "RUNNING"}
                  THEN "CANCEL_REQUESTED"
                  ELSE hbState
    /\ Beat /\ UNCHANGED <<status, trace, hbFailed, failureSet, faults>>

\* ... and the state decided from it is written over whatever is there now.
HbWrite ==
    /\ hb = "decided"
    /\ \/ /\ Writes([status EXCEPT !.state = hbState])
          /\ hb' = "waiting"
          /\ UNCHANGED hbFailed
       \/ /\ WriteFails
          /\ hbFailed' = TRUE
          /\ hb' = "failing"
    /\ Beat /\ UNCHANGED <<hbState, failureSet>>

\* status_failures.append comes before status_failure.set.
HbSignal ==
    /\ hb = "failing"
    /\ failureSet' = TRUE
    /\ hb' = "done"
    /\ Beat /\ UNCHANGED <<status, trace, hbState, hbFailed, faults>>

HbStop ==
    /\ hb = "waiting"
    /\ stop
    /\ hb' = "done"
    /\ Beat /\ UNCHANGED <<status, trace, hbState, hbFailed, failureSet, faults>>

Heartbeat == HbRead \/ HbReadFails \/ HbDecide \/ HbWrite \/ HbSignal \/ HbStop
-----------------------------------------------------------------------------
(* The CLI on the main thread: events, external processes, the listener.   *)

InCli(w) == pc[w] = "cli"

Cli == UNCHANGED <<cancelFile, lockVars, mainVars, hbVars>>

\* The listener raised: the exception goes through the emitting code, which
\* may swallow it, and is remembered for the verdict.
ListenerRaises ==
    /\ WriteFails
    /\ listenerFailed' = TRUE

\* An event about a stage; one that is recorded changes nothing modelled here.
StageEventFails(w) ==
    /\ InCli(w) /\ sup = "idle"
    /\ ListenerRaises
    /\ Cli /\ UNCHANGED <<cancelledProcess, procVars>>

\* Steps of run_supervised_process that emit nothing: the entry and the launch,
\* then the poll loop and the termination of the group.
ProcessEntered(w) ==
    /\ InCli(w)
    /\ Proc!Call \/ Proc!Launch
    /\ Cli /\ UNCHANGED <<status, trace, faults, listenVars>>

ProcessPolled(w) ==
    /\ InCli(w)
    /\ \/ Proc!PollCancel \/ Proc!PollTimeout \/ Proc!PollExit
       \/ Proc!GraceReap \/ Proc!GraceExpires \/ Proc!DrainReap
    /\ Cli /\ UNCHANGED <<status, trace, faults, listenVars>>

LaunchFails(w) ==
    /\ InCli(w)
    /\ Proc!LaunchFails
    /\ ListenerRaises \/ UNCHANGED <<status, trace, faults, listenerFailed>>
    /\ Cli /\ UNCHANGED cancelledProcess

\* The "started" event: the child's identity is recorded if it can be read.
ProcessStarted(w) ==
    /\ InCli(w)
    /\ \/ /\ Proc!EmitStarted(FALSE)
          /\ \E seen \in BOOLEAN :
                Writes([status EXCEPT !.child = seen \/ status.child])
          /\ UNCHANGED listenerFailed
       \/ Proc!EmitStarted(TRUE) /\ ListenerRaises
    /\ Cli /\ UNCHANGED cancelledProcess

TickRaises(w) ==
    /\ InCli(w)
    /\ Proc!TickRaises
    /\ ListenerRaises
    /\ Cli /\ UNCHANGED cancelledProcess

\* The terminal event of a command; a cancelled one makes the job CANCELLING.
ProcessEnded(w) ==
    /\ InCli(w)
    /\ cancelledProcess' = (cancelledProcess \/ outcome = "cancelled")
    /\ \/ /\ Proc!EmitFinal(FALSE)
          /\ Writes([status EXCEPT !.child = FALSE,
                                   !.state = IF outcome = "cancelled"
                                             THEN "CANCELLING" ELSE @])
          /\ UNCHANGED listenerFailed
       \/ Proc!EmitFinal(TRUE) /\ ListenerRaises
    /\ Cli

\* SIGKILL, the OOM killer, or a power loss that spares the disk: threads, the
\* flock and the supervision are gone, files and the child's group stay.
Crash(w) ==
    /\ CrashAllowed
    /\ pc[w] \notin {"new", "exited", "refused", "crashed"}
    /\ Goto(w, "crashed")
    /\ lock' = IF lock = w THEN Nobody ELSE lock
    /\ IF status.worker = w
       THEN /\ hb' = IF hb = "off" THEN "off" ELSE "done"
            /\ IF pc[w] = "cli" THEN Proc!SupervisorDies ELSE UNCHANGED procVars
       ELSE UNCHANGED <<hb, procVars>>
    /\ UNCHANGED <<fileVars, lockFile, executions, verdict, exitCode, stop,
                   hbState, hbFailed, failureSet, listenVars, faults>>

Environment ==
    /\ Proc!Processes \/ Proc!DeadlinePasses
    /\ UNCHANGED <<fileVars, lockVars, mainVars, hbVars, listenVars, faults>>

Bracket(w) ==
    \/ OpenLock(w) \/ TakeLock(w) \/ RefuseStarted(w) \/ Start(w)
    \/ ReportStartFailed(w) \/ Bootstrap(w) \/ ReportBootFailed(w)
    \/ EnterRunning(w) \/ EnterCli(w) \/ StopHeartbeat(w) \/ JoinHeartbeat(w)
    \/ Settle(w) \/ WriteTerminal(w) \/ Emergency(w) \/ Unlock(w) \/ Exit(w)

Progress(w) == ProcessPolled(w) \/ ProcessStarted(w) \/ ProcessEnded(w)

Supervision(w) == Progress(w) \/ TickRaises(w)

Calling(w) == ProcessEntered(w) \/ LaunchFails(w)

CliStep(w) ==
    CliReturns(w) \/ StageEventFails(w) \/ Calling(w) \/ Supervision(w)

Next ==
    \/ RequestCancel
    \/ \E o \in Observers : ProbeTakes(o) \/ ProbeDrops(o)
    \/ \E w \in Workers : Bracket(w) \/ CliStep(w) \/ Crash(w)
    \/ Heartbeat
    \/ Environment

Safe == Init /\ [][Next]_vars

\* The threads of a worker keep running and time passes; the CLI, which makes
\* finitely many calls, ends.  No event has to raise, and nothing is assumed of the
\* external processes, of the storage, or of whoever cancels, crashes or observes.
Spec ==
    /\ Safe
    /\ \A w \in Workers : /\ WF_vars(Bracket(w))
                          /\ WF_vars(Progress(w))
                          /\ WF_vars(InCli(w) /\ sup = "checked" /\ Calling(w))
                          /\ WF_vars(CliReturns(w))
    /\ WF_vars(Heartbeat)
    /\ WF_vars(Environment /\ Proc!DeadlinePasses)
-----------------------------------------------------------------------------
(* Properties.                                                             *)

\* However many workers are launched on a job root, whatever crashes and
\* whichever writes fail, the CLI operation runs at most once.
AtMostOneExecution == executions <= 1

\* CANCELLED is written only when somebody asked for it: losing the status
\* storage also stops the processes, as cancelled ones, but ends as FAILED.
CancelledOnRequest == status.state = "CANCELLED" => cancelFile

\* COMPLETED is never written by a worker one of whose events could not be
\* recorded, even if the CLI swallowed the failure and returned normally.
CompletedIsClean ==
    status.state = "COMPLETED"
       => ~listenerFailed /\ ~cancelledProcess /\ exitCode = "returned"

\* A terminal status leaves no external process behind: the last child was
\* reaped and the receipt names none.
TerminalIsReaped ==
    status.state \in Terminal =>
       /\ ~status.child
       /\ leader \in {"none", "reaped"}

\* What a terminal status says is true: cancelled only on request, completed only
\* with every event recorded, and the child that the worker launched reaped and
\* struck off.  Of the child's descendants it says nothing.
VerdictIsTrue == CancelledOnRequest /\ CompletedIsClean /\ TerminalIsReaped

\* The heartbeat has outlasted the join of a worker that is settling its job.
Outlived(w) ==
    /\ pc[w] \in {"settling", "writing", "emergency", "unlocking", "unlocked"}
    /\ hb \notin {"off", "done"}


\* The verdict that a code stands for, whatever the state says.
VerdictOf(code) ==
    CASE code = "none"           -> "none"
      [] code = "USER_CANCELLED" -> "CANCELLED"
      [] code = "CLI_EXIT"       -> "COMPLETED"
      [] OTHER                   -> "FAILED"

\* The worker implements the abstract durable job.
Lifecycle == INSTANCE JobLifecycle WITH
    phase <- IF status.code = "none" THEN "open" ELSE "settled",
    owner <- status.worker,
    executed <- executions > 0,
    asked <- cancelFile,
    result <- VerdictOf(status.code),
    hidden <- status.code # "none" /\ status.state # VerdictOf(status.code)

\* At most one worker claims the job, it runs at most once, and it settles once
\* and truthfully, whatever the threads, observers and failed writes do and
\* however long the heartbeat takes; a job that settled is never settled anew,
\* though a late heartbeat may hide it.
ImplementsLifecycle == Lifecycle!Spec
=============================================================================
