--------------------------- MODULE JobAndTaskProofs ---------------------------
(*****************************************************************************)
(* Proofs about JobWorker, for every set of workers and observers, every     *)
(* number of failed writes, with crashes and with heartbeats that outlast    *)
(* their join; and, after them, about TaskBuilder, which makes the task      *)
(* such a job solves. The two parts share nothing.                           *)
(*                                                                           *)
(* That an operation is executed at most once rests on three facts: the      *)
(* writer lock belongs to the one worker between taking and releasing it;    *)
(* a job that left SUBMITTED never becomes SUBMITTED again, although the     *)
(* heartbeat writes states it read earlier; and a worker on its way to the   *)
(* CLI is one that found the job SUBMITTED.                                  *)
(*                                                                           *)
(* That a terminal status is true rests on whose status it is: a worker      *)
(* between its claim and its last write owns an open status, so a verdict    *)
(* it settled still describes the job when it is written (VInv). That the    *)
(* worker implements the abstract durable job needs one thing more, that a   *)
(* heartbeat is over when it was joined: one that outlasts its join may      *)
(* write an active state over a terminal one.                                *)
(*****************************************************************************)
EXTENDS JobWorker, TaskBuilder, FiniteSetTheorems, WellFoundedInduction, TLAPS

\* Places of the main thread: the lock is held, the job was claimed, and the
\* CLI is still ahead.
Holding == {"locked", "startFailed", "bootstrap", "bootFailed", "ready",
            "entering", "cli", "stopping", "joining", "settling", "writing",
            "emergency", "unlocking"}
Claimed == {"bootstrap", "bootFailed", "ready", "entering", "cli", "stopping",
            "joining", "settling", "writing", "emergency"}
Ahead == {"bootstrap", "ready", "entering"}

StatusType ==
    [state : Active \cup Terminal, worker : Workers \cup {Nobody},
     child : BOOLEAN, code : Codes]

Typed ==
    /\ status \in StatusType
    /\ pc \in [Workers -> PcStates]
    /\ executions \in Nat
    /\ verdict \in [state : Terminal, code : Codes]
    /\ hbState \in Active

LockExcludes == \A w \in Workers : pc[w] \in Holding => lock = w

ClaimedLeftSubmitted ==
    \A w \in Workers : pc[w] \in Claimed => status.state # "SUBMITTED"

HeartbeatLeftSubmitted ==
    /\ hb \in {"waiting", "read", "decided"} => status.state # "SUBMITTED"
    /\ hb \in {"read", "decided"} => hbState # "SUBMITTED"

ExecutedOnce ==
    /\ executions <= 1
    /\ status.state = "SUBMITTED" => executions = 0
    /\ \A w \in Workers : pc[w] \in Ahead => executions = 0

IInv ==
    /\ Typed
    /\ LockExcludes
    /\ ClaimedLeftSubmitted
    /\ HeartbeatLeftSubmitted
    /\ ExecutedOnce

\* IInv holds in the initial state.
LEMMA InitIInv == Init => IInv
BY DEF Init, IInv, Typed, StatusType, LockExcludes, ClaimedLeftSubmitted,
   HeartbeatLeftSubmitted, ExecutedOnce, Active, Terminal, Codes, PcStates,
   Holding, Claimed, Ahead

\* A step that moves no main thread, leaves the lock and the heartbeat alone and
\* does not make the job SUBMITTED again keeps the invariant.
LEMMA KeepsIInv ==
    ASSUME IInv, UNCHANGED <<pc, executions, verdict, lock, hb, hbState>>,
           status' \in StatusType,
           status'.state = "SUBMITTED" => status.state = "SUBMITTED"
    PROVE  IInv'
BY DEF IInv, Typed, StatusType, LockExcludes, ClaimedLeftSubmitted,
   HeartbeatLeftSubmitted, ExecutedOnce

\* A finished status is a terminal one.
LEMMA FinishedIsTerminal ==
    ASSUME status \in StatusType, NEW state \in Terminal, NEW code \in Codes
    PROVE  /\ Finished(state, code) \in StatusType
           /\ Finished(state, code).state # "SUBMITTED"
BY DEF StatusType, Finished, Terminal, Active

\* The main thread, before it has the lock and after it gave it back.
LEMMA LockSteps ==
    ASSUME IInv, NEW w \in Workers,
           OpenLock(w) \/ TakeLock(w) \/ RefuseStarted(w) \/ Unlock(w) \/ Exit(w)
    PROVE  IInv'
<1> USE WorkerAssumption DEF WorkerAssumption, IInv, Typed, StatusType,
        LockExcludes, ClaimedLeftSubmitted, HeartbeatLeftSubmitted,
        ExecutedOnce, PcStates, Holding, Claimed, Ahead, Goto, Quiet, hbVars,
        fileVars, lockVars
<1>1. CASE OpenLock(w)
  BY <1>1 DEF OpenLock
<1>2. CASE TakeLock(w)
  <2>1. CASE lock = Nobody
    BY <1>2, <2>1 DEF TakeLock
  <2>2. CASE lock # Nobody
    BY <1>2, <2>2 DEF TakeLock
  <2> QED BY <2>1, <2>2
<1>3. CASE RefuseStarted(w)
  BY <1>3 DEF RefuseStarted
<1>4. CASE Unlock(w)
  BY <1>4 DEF Unlock
<1>5. CASE Exit(w)
  BY <1>5 DEF Exit
<1> QED BY <1>1, <1>2, <1>3, <1>4, <1>5

\* The main thread, from the claim to the CLI.
LEMMA ClaimSteps ==
    ASSUME IInv, NEW w \in Workers,
           Start(w) \/ Bootstrap(w) \/ EnterRunning(w) \/ EnterCli(w)
    PROVE  IInv'
<1> USE WorkerAssumption DEF WorkerAssumption, IInv, Typed, StatusType,
        LockExcludes, ClaimedLeftSubmitted, HeartbeatLeftSubmitted,
        ExecutedOnce, PcStates, Holding, Claimed, Ahead, Goto, Quiet, hbVars,
        lockVars, Writes, WriteFails, Active, Terminal
<1>1. CASE Start(w)
  BY <1>1 DEF Start
<1>2. CASE Bootstrap(w)
  BY <1>2 DEF Bootstrap
<1>3. CASE EnterRunning(w)
  BY <1>3 DEF EnterRunning
<1>4. CASE EnterCli(w)
  <2>1. CASE CancelSeen
    BY <1>4, <2>1 DEF EnterCli
  <2>2. CASE ~CancelSeen
    BY <1>4, <2>2 DEF EnterCli
  <2> QED BY <2>1, <2>2
<1> QED BY <1>1, <1>2, <1>3, <1>4

\* The main thread, from the CLI to the release of the lock.
LEMMA EndSteps ==
    ASSUME IInv, NEW w \in Workers,
           \/ CliReturns(w) \/ StopHeartbeat(w) \/ JoinHeartbeat(w) \/ Settle(w)
           \/ WriteTerminal(w) \/ Emergency(w)
           \/ ReportStartFailed(w) \/ ReportBootFailed(w)
    PROVE  IInv'
<1> USE DEF IInv, Typed, LockExcludes, ClaimedLeftSubmitted,
        HeartbeatLeftSubmitted, ExecutedOnce, PcStates, Holding, Claimed,
        Ahead, Goto, Quiet, hbVars, lockVars, Writes, WriteFails
<1>1. CASE CliReturns(w) \/ StopHeartbeat(w) \/ JoinHeartbeat(w)
  BY <1>1 DEF CliReturns, StopHeartbeat, JoinHeartbeat
<1>2. CASE Settle(w)
  <2>1. TerminalVerdict \in [state : Terminal, code : Codes]
    BY DEF TerminalVerdict, Terminal, Codes
  <2> QED BY <1>2, <2>1 DEF Settle
<1>3. CASE WriteTerminal(w)
  <2>1. /\ Finished(verdict.state, verdict.code) \in StatusType
        /\ Finished(verdict.state, verdict.code).state # "SUBMITTED"
    BY FinishedIsTerminal
  <2> QED BY <1>3, <2>1 DEF WriteTerminal
<1>4. CASE Emergency(w) \/ ReportStartFailed(w)
  <2>1. /\ Finished("FAILED", "JOB_STATUS_WRITE_FAILED") \in StatusType
        /\ Finished("FAILED", "JOB_STATUS_WRITE_FAILED").state # "SUBMITTED"
    BY FinishedIsTerminal DEF Terminal, Codes
  <2> QED BY <1>4, <2>1 DEF Emergency, ReportStartFailed
<1>5. CASE ReportBootFailed(w)
  <2>1. /\ Finished("FAILED", "JOB_BOOTSTRAP_FAILED") \in StatusType
        /\ Finished("FAILED", "JOB_BOOTSTRAP_FAILED").state # "SUBMITTED"
    BY FinishedIsTerminal DEF Terminal, Codes
  <2> QED BY <1>5, <2>1 DEF ReportBootFailed
<1> QED BY <1>1, <1>2, <1>3, <1>4, <1>5

\* The heartbeat thread: the state it writes is one it read after the claim.
LEMMA HeartbeatSteps ==
    ASSUME IInv, Heartbeat
    PROVE  IInv'
<1> USE DEF IInv, Typed, StatusType, LockExcludes, ClaimedLeftSubmitted,
        HeartbeatLeftSubmitted, ExecutedOnce, Beat, lockVars, mainVars
<1>1. CASE HbRead
  <2>1. CASE status.state \in Terminal
    BY <1>1, <2>1 DEF HbRead
  <2>2. CASE status.state \notin Terminal
    BY <1>1, <2>2 DEF HbRead
  <2> QED BY <2>1, <2>2
<1>2. CASE HbReadFails
  BY <1>2 DEF HbReadFails
<1>3. CASE HbDecide
  BY <1>3 DEF HbDecide, Active
<1>4. CASE HbWrite
  BY <1>4 DEF HbWrite, Writes, WriteFails
<1>5. CASE HbSignal \/ HbStop
  BY <1>5 DEF HbSignal, HbStop
<1> QED BY <1>1, <1>2, <1>3, <1>4, <1>5 DEF Heartbeat

\* What the listener may do to the status: name a child or none, or note that a
\* process was cancelled.
LEMMA ListenerWrites ==
    ASSUME IInv, NEW w \in Workers,
           StageEventFails(w) \/ Calling(w) \/ Supervision(w)
    PROVE  \/ UNCHANGED status
           \/ \E child \in BOOLEAN :
                 status' \in {[status EXCEPT !.child = child],
                              [status EXCEPT !.child = child,
                                             !.state = "CANCELLING"]}
<1>1. CASE ProcessStarted(w)
  <2>1. CASE ListenerRaises
    BY <2>1 DEF ListenerRaises, WriteFails
  <2>2. CASE \E seen \in BOOLEAN :
               Writes([status EXCEPT !.child = seen \/ status.child])
    <3>1. PICK seen \in BOOLEAN :
               status' = [status EXCEPT !.child = seen \/ status.child]
      BY <2>2 DEF Writes
    <3>2. (seen \/ status.child) \in BOOLEAN
      OBVIOUS
    <3> QED BY <3>1, <3>2
  <2> QED BY <1>1, <2>1, <2>2 DEF ProcessStarted
<1>2. CASE ProcessEnded(w)
  <2>1. CASE ListenerRaises
    BY <2>1 DEF ListenerRaises, WriteFails
  <2>2. CASE Writes([status EXCEPT !.child = FALSE,
                                   !.state = IF outcome = "cancelled"
                                             THEN "CANCELLING" ELSE @])
    <3>1. CASE outcome = "cancelled"
      BY <2>2, <3>1 DEF Writes
    <3>2. CASE outcome # "cancelled"
      BY <2>2, <3>2 DEF Writes, IInv, Typed, StatusType
    <3> QED BY <3>1, <3>2
  <2> QED BY <1>2, <2>1, <2>2 DEF ProcessEnded
<1>3. CASE \/ StageEventFails(w) \/ ProcessEntered(w) \/ LaunchFails(w)
           \/ ProcessPolled(w) \/ TickRaises(w)
  BY <1>3 DEF StageEventFails, ProcessEntered, LaunchFails, ProcessPolled,
     TickRaises, ListenerRaises, WriteFails
<1> QED BY <1>1, <1>2, <1>3 DEF Calling, Supervision, Progress

\* The CLI's events and external commands: the listener never claims or starts.
LEMMA CliSteps ==
    ASSUME IInv, NEW w \in Workers,
           StageEventFails(w) \/ Calling(w) \/ Supervision(w)
    PROVE  IInv'
<1>1. UNCHANGED <<pc, executions, verdict, lock, hb, hbState>>
  BY DEF StageEventFails, Calling, Supervision, Progress, ProcessEntered, LaunchFails,
     ProcessPolled, ProcessStarted, TickRaises, ProcessEnded, Cli, lockVars,
     mainVars, hbVars
<1>2. CASE UNCHANGED status
  BY <1>1, <1>2, KeepsIInv DEF IInv, Typed
<1>3. CASE \E child \in BOOLEAN :
             status' \in {[status EXCEPT !.child = child],
                          [status EXCEPT !.child = child,
                                         !.state = "CANCELLING"]}
  BY <1>1, <1>3, KeepsIInv DEF IInv, Typed, StatusType, Active
<1> QED BY <1>2, <1>3, ListenerWrites

\* Whoever cancels, observes or kills: the lock only goes back.
LEMMA OtherSteps ==
    ASSUME IInv,
           \/ RequestCancel
           \/ \E o \in Observers : ProbeTakes(o) \/ ProbeDrops(o)
           \/ \E w \in Workers : Crash(w)
           \/ Environment
           \/ UNCHANGED vars
    PROVE  IInv'
<1> USE WorkerAssumption DEF WorkerAssumption, IInv, Typed, LockExcludes,
        ClaimedLeftSubmitted, HeartbeatLeftSubmitted, ExecutedOnce, fileVars,
        lockVars, mainVars, hbVars
<1>1. CASE RequestCancel
  BY <1>1 DEF RequestCancel
<1>2. ASSUME NEW o \in Observers, ProbeTakes(o) \/ ProbeDrops(o) PROVE IInv'
  BY <1>2 DEF ProbeTakes, ProbeDrops, Holding
<1>3. ASSUME NEW w \in Workers, Crash(w) PROVE IInv'
  <2>1. /\ pc' = [pc EXCEPT ![w] = "crashed"]
        /\ lock' = IF lock = w THEN Nobody ELSE lock
        /\ UNCHANGED <<status, executions, verdict, hbState>>
    BY <1>3 DEF Crash, Goto
  <2>2. hb' \in {hb, "off", "done"}
    BY <1>3 DEF Crash
  <2> QED BY <2>1, <2>2 DEF PcStates, Holding, Claimed, Ahead
<1>4. CASE Environment
  BY <1>4 DEF Environment
<1>5. CASE UNCHANGED vars
  BY <1>5 DEF vars
<1> QED BY <1>1, <1>2, <1>3, <1>4, <1>5

\* Every behaviour of the workers keeps the inductive invariant.
THEOREM Invariance == Safe => []IInv
<1>1. Init => IInv
  BY InitIInv
<1>2. IInv /\ [Next]_vars => IInv'
  BY LockSteps, ClaimSteps, EndSteps, HeartbeatSteps, CliSteps, OtherSteps
  DEF Next, Bracket, CliStep
<1> QED BY <1>1, <1>2, PTL DEF Safe

\* However many workers are launched on one job root, whatever crashes, stalls
\* or cannot be written, the operation (cli_runner) is executed at most once.
THEOREM OneExecution == Safe => []AtMostOneExecution
<1>1. IInv => AtMostOneExecution
  BY DEF IInv, ExecutedOnce, AtMostOneExecution
<1> QED BY <1>1, Invariance, PTL
-----------------------------------------------------------------------------
(* What a terminal status says is true.                                     *)

\* Places from which a worker may still write a terminal status.
AtWork == Claimed \cup {"startFailed"}

\* While a worker is at work it owns the status, which is not terminal.
WorkIsOpen ==
    \A w \in Workers :
       /\ pc[w] \in Claimed => status.worker = w
       /\ pc[w] \in AtWork => status.state \notin Terminal

\* Where the external process is: between calls, in a call of the CLI, or
\* without a supervisor, in which case nobody ever ends the job.
CallByPlace ==
    /\ sup \in Proc!SupStates
    /\ sup \in {"idle", "gone"} \/ \E w \in Workers : pc[w] = "cli"
    /\ sup = "gone" => /\ status.state \notin Terminal \cup {"SUBMITTED"}
                      /\ \A w \in Workers : pc[w] \notin AtWork

LeaderByPlace ==
    /\ sup = "grace" => why \in {"cancel", "abort"}
    /\ sup = "drain" => why \in {"cancel", "abort", "timeout"}
    /\ sup \in {"idle", "checked"} => leader \in {"none", "reaped"}
    /\ sup = "finishing" => leader = "reaped"

ReceiptIsCleared == status.state \in Terminal => ~status.child

\* Somebody asked for a cancellation, or the heartbeat lost the status storage.
Asked == cancelFile \/ hbFailed

CancelIsKnown ==
    /\ failureSet \/ hb = "failing" => hbFailed
    /\ why = "cancel" \/ outcome = "cancelled" => Asked
    /\ cancelledProcess \/ exitCode = "cancelled" => Asked

\* A verdict that was settled is what the status will say.
Clean == ~listenerFailed /\ ~cancelledProcess /\ exitCode = "returned"

VerdictIsKnown ==
    \A w \in Workers : pc[w] = "writing" =>
       /\ verdict.state = "CANCELLED" => cancelFile
       /\ verdict.state = "COMPLETED" => Clean

StatusIsKnown ==
    /\ exitCode \in {"returned", "internal", "cancelled", "error", "unwritten"}
    /\ status.state = "CANCELLED" => cancelFile
    /\ status.state = "COMPLETED" => Clean

VInv ==
    /\ WorkIsOpen
    /\ CallByPlace
    /\ LeaderByPlace
    /\ ReceiptIsCleared
    /\ CancelIsKnown
    /\ VerdictIsKnown
    /\ StatusIsKnown
-----------------------------------------------------------------------------
\* VInv holds in the initial state: nothing is claimed, asked or running.
LEMMA InitVInv == Init => VInv
BY DEF Init, VInv, WorkIsOpen, CallByPlace, LeaderByPlace, ReceiptIsCleared,
   Asked, CancelIsKnown, VerdictIsKnown, Clean, StatusIsKnown, AtWork, Claimed,
   Terminal, Proc!ProcessInit, Proc!SupStates

\* Taking and releasing the lock says nothing of the verdict.
LEMMA LockStepsKeepVInv ==
    ASSUME IInv, VInv, NEW w \in Workers,
           OpenLock(w) \/ TakeLock(w) \/ RefuseStarted(w) \/ Unlock(w) \/ Exit(w)
    PROVE  VInv'
<1> USE DEF IInv, Typed, StatusType,
        LockExcludes, VInv, WorkIsOpen, CallByPlace, LeaderByPlace,
        ReceiptIsCleared, Asked, CancelIsKnown, VerdictIsKnown, Clean,
        StatusIsKnown, AtWork, Claimed, Goto, Quiet, hbVars, listenVars,
        procVars, fileVars, lockVars
<1>1. CASE OpenLock(w)
  BY <1>1 DEF OpenLock
<1>2. CASE TakeLock(w)
  <2>1. pc' = [pc EXCEPT ![w] = "locked"] \/ pc' = [pc EXCEPT ![w] = "refused"]
    BY <1>2 DEF TakeLock
  <2> QED BY <1>2, <2>1 DEF TakeLock
<1>3. CASE RefuseStarted(w)
  BY <1>3 DEF RefuseStarted
<1>4. CASE Unlock(w)
  BY <1>4 DEF Unlock
<1>5. CASE Exit(w)
  BY <1>5 DEF Exit
<1> QED BY <1>1, <1>2, <1>3, <1>4, <1>5

\* The claimant is the only worker at work, and its status is open.
LEMMA ClaimStepsKeepVInv ==
    ASSUME IInv, VInv, NEW w \in Workers,
           Start(w) \/ Bootstrap(w) \/ EnterRunning(w) \/ EnterCli(w)
    PROVE  VInv'
<1> USE DEF IInv, Typed, StatusType, Holding,
        LockExcludes, VInv, WorkIsOpen, CallByPlace, LeaderByPlace,
        ReceiptIsCleared, Asked, CancelIsKnown, VerdictIsKnown, Clean,
        StatusIsKnown, AtWork, Claimed, Goto, Quiet, hbVars, listenVars,
        procVars, fileVars, lockVars, Writes, WriteFails, Terminal
<1>1. CASE Start(w)
  <2>1. CASE WriteFails
    BY <1>1, <2>1 DEF Start
  <2>2. CASE Writes([status EXCEPT !.state = "STARTING", !.worker = w])
    <3>1. /\ status'.state = "STARTING" /\ status'.worker = w
          /\ status.state = "SUBMITTED"
          /\ \A v \in Workers : pc'[v] \in AtWork => v = w
      BY <1>1, <2>2 DEF Start
    <3> QED BY <1>1, <2>2, <3>1 DEF Start
  <2> QED BY <1>1, <2>1, <2>2 DEF Start
<1>2. CASE Bootstrap(w)
  BY <1>2 DEF Bootstrap
<1>3. CASE EnterRunning(w)
  BY <1>3 DEF EnterRunning
<1>4. CASE EnterCli(w)
  <2>1. CASE CancelSeen
    BY <1>4, <2>1 DEF EnterCli, CancelSeen
  <2>2. CASE ~CancelSeen
    BY <1>4, <2>2 DEF EnterCli
  <2> QED BY <2>1, <2>2
<1> QED BY <1>1, <1>2, <1>3, <1>4

\* A verdict is settled from what is known, and written while the job is open.
LEMMA EndStepsKeepVInv ==
    ASSUME IInv, VInv, NEW w \in Workers,
           \/ CliReturns(w) \/ StopHeartbeat(w) \/ JoinHeartbeat(w) \/ Settle(w)
           \/ WriteTerminal(w) \/ Emergency(w)
           \/ ReportStartFailed(w) \/ ReportBootFailed(w)
    PROVE  VInv'
<1> USE DEF IInv, Typed, StatusType, Holding,
        LockExcludes, VInv, WorkIsOpen, CallByPlace, LeaderByPlace,
        ReceiptIsCleared, Asked, CancelIsKnown, VerdictIsKnown, Clean,
        StatusIsKnown, AtWork, Claimed, Goto, Quiet, hbVars, listenVars,
        procVars, fileVars, lockVars, Writes, WriteFails
<1>1. CASE CliReturns(w)
  <2>1. exitCode' = "cancelled" => Asked
    BY <1>1 DEF CliReturns, CancelSeen
  <2>2. \A v \in Workers : pc[v] \in AtWork => v = w
    BY <1>1 DEF CliReturns
  <2>3. status.state \notin Terminal
    BY <1>1 DEF CliReturns
  <2> QED BY <1>1, <2>1, <2>2, <2>3 DEF CliReturns, Terminal
<1>2. CASE StopHeartbeat(w) \/ JoinHeartbeat(w)
  BY <1>2 DEF StopHeartbeat, JoinHeartbeat
<1>3. CASE Settle(w)
  BY <1>3 DEF Settle, TerminalVerdict
<1>4. CASE WriteTerminal(w)
  <2>1. CASE WriteFails /\ Goto(w, "emergency")
    BY <1>4, <2>1 DEF WriteTerminal
  <2>2. CASE Writes(Finished(verdict.state, verdict.code)) /\ Goto(w, "unlocking")
    <3>1. /\ status'.state = verdict.state /\ status'.worker = status.worker
          /\ ~status'.child
      BY <2>2 DEF Finished
    <3>2. \A v \in Workers : pc'[v] \notin AtWork
      BY <1>4, <2>2 DEF WriteTerminal
    <3>3. sup = "idle"
      BY <1>4 DEF WriteTerminal
    <3> QED BY <1>4, <2>2, <3>1, <3>2, <3>3 DEF WriteTerminal
  <2> QED BY <1>4, <2>1, <2>2 DEF WriteTerminal
<1>5. CASE Emergency(w)
  BY <1>5 DEF Emergency, Finished
<1>6. CASE ReportStartFailed(w) \/ ReportBootFailed(w)
  <2>1. CASE UNCHANGED status
    <3>1. /\ pc' = [pc EXCEPT ![w] = "unlocking"]
          /\ Quiet /\ UNCHANGED <<lock, verdict, exitCode>>
      BY <1>6 DEF ReportStartFailed, ReportBootFailed
    <3> QED BY <1>6, <2>1, <3>1 DEF ReportStartFailed, ReportBootFailed
  <2>2. CASE \E code \in Codes : Writes(Finished("FAILED", code))
    <3>1. /\ status'.state = "FAILED" /\ status'.worker = status.worker
          /\ ~status'.child
      BY <2>2 DEF Finished
    <3>2. \A v \in Workers : pc'[v] \notin AtWork
      BY <1>6, <2>2 DEF ReportStartFailed, ReportBootFailed
    <3>3. sup = "idle"
      BY <1>6 DEF ReportStartFailed, ReportBootFailed
    <3> QED BY <1>6, <2>2, <3>1, <3>2, <3>3 DEF ReportStartFailed, ReportBootFailed
  <2> QED BY <1>6, <2>1, <2>2 DEF ReportStartFailed, ReportBootFailed, Codes
<1> QED BY <1>1, <1>2, <1>3, <1>4, <1>5, <1>6

\* The heartbeat writes an active state, which promises nothing; a write it loses
\* is recorded before the processes are told to stop.
LEMMA HeartbeatStepsKeepVInv ==
    ASSUME IInv, VInv, Heartbeat
    PROVE  VInv'
<1> USE DEF IInv, Typed, StatusType, HeartbeatLeftSubmitted,
        VInv, WorkIsOpen, CallByPlace, LeaderByPlace,
        ReceiptIsCleared, Asked, CancelIsKnown, VerdictIsKnown, Clean,
        StatusIsKnown, Beat, mainVars, listenVars,
        procVars, lockVars
<1>1. CASE HbRead \/ HbReadFails
  BY <1>1 DEF HbRead, HbReadFails
<1>3. CASE HbDecide
  BY <1>3 DEF HbDecide
<1>4. CASE HbWrite
  <2>1. CASE WriteFails /\ hbFailed' = TRUE /\ hb' = "failing"
    BY <1>4, <2>1 DEF HbWrite, WriteFails
  <2>2. CASE /\ Writes([status EXCEPT !.state = hbState])
             /\ hb' = "waiting" /\ UNCHANGED hbFailed
    <3>1. /\ status'.state = hbState /\ status'.worker = status.worker
          /\ hbState \notin Terminal \cup {"SUBMITTED"}
      BY <1>4, <2>2 DEF HbWrite, Writes, Active, Terminal
    <3> QED BY <1>4, <2>2, <3>1 DEF HbWrite, Writes, Terminal
  <2> QED BY <1>4, <2>1, <2>2 DEF HbWrite
<1>5. CASE HbSignal \/ HbStop
  BY <1>5 DEF HbSignal, HbStop
<1> QED BY <1>1, <1>3, <1>4, <1>5 DEF Heartbeat

\* A call keeps its places: what the process lemmas say of a step of the CLI.
CallKept ==
    /\ sup' \in Proc!SupStates \ {"gone"}
    /\ LeaderByPlace'
    /\ why' = "cancel" \/ outcome' = "cancelled" => Asked

\* Ending a group leaves the leader where the call expects it.
LEMMA TerminateKeepsCall ==
    ASSUME VInv, sup \in Proc!SupStates, NEW reason \in {"cancel", "abort"},
           reason = "cancel" => Asked, Proc!Terminate(reason)
    PROVE  CallKept
BY DEF VInv, CancelIsKnown, CallKept, LeaderByPlace, Proc!Terminate,
   Proc!SupStates

\* A call whose event was emitted or lost is where it should be, and is
\* cancelled only if that was asked for.
LEMMA EventsKeepCall ==
    ASSUME VInv, sup # "gone", NEW raised \in BOOLEAN,
           Proc!EmitStarted(raised) \/ Proc!EmitFinal(raised) \/ Proc!TickRaises
    PROVE  CallKept
<1>1. CASE raised \/ Proc!TickRaises
  BY <1>1, TerminateKeepsCall
  DEF Proc!EmitStarted, Proc!EmitFinal, Proc!TickRaises, Proc!SupStates
<1>2. CASE ~raised
  BY <1>2, <1>1
  DEF Proc!EmitStarted, Proc!EmitFinal, VInv, CancelIsKnown, CallKept,
     LeaderByPlace, Proc!SupStates
<1> QED BY <1>1, <1>2

\* The poll loop and the termination keep the call where it should be.
LEMMA PollsKeepCall ==
    ASSUME VInv, sup # "gone",
           \/ Proc!Call \/ Proc!Launch \/ Proc!LaunchFails
           \/ Proc!PollCancel \/ Proc!PollTimeout \/ Proc!PollExit
           \/ Proc!GraceReap \/ Proc!GraceExpires \/ Proc!DrainReap
    PROVE  CallKept
<1> USE DEF VInv, CancelIsKnown, CallKept, LeaderByPlace, Proc!SupStates
<1>1. CASE Proc!Call
  BY <1>1 DEF Proc!Call
<1>2. CASE Proc!Launch \/ Proc!LaunchFails
  BY <1>2 DEF Proc!Launch, Proc!LaunchFails
<1>3. CASE Proc!PollCancel
  BY <1>3, TerminateKeepsCall DEF Proc!PollCancel, CancelSeen, Asked
<1>4. CASE Proc!PollTimeout \/ Proc!PollExit
  BY <1>4 DEF Proc!PollTimeout, Proc!PollExit
<1>5. CASE Proc!GraceExpires
  BY <1>5 DEF Proc!GraceExpires
<1>6. CASE Proc!GraceReap \/ Proc!DrainReap
  <2>1. CASE why = "abort"
    BY <1>6, <2>1 DEF Proc!GraceReap, Proc!DrainReap, Proc!Reap
  <2>2. CASE why = "cancel"
    BY <1>6, <2>2 DEF Proc!GraceReap, Proc!DrainReap, Proc!Reap
  <2>3. CASE why = "timeout"
    BY <1>6, <2>3 DEF Proc!GraceReap, Proc!DrainReap, Proc!Reap
  <2> QED BY <1>6, <2>1, <2>2, <2>3 DEF Proc!GraceReap, Proc!DrainReap
<1> QED BY <1>1, <1>2, <1>3, <1>4, <1>5, <1>6

\* A step of the CLI that keeps its call and settles nothing keeps the invariant.
LEMMA CliKeepsVInv ==
    ASSUME IInv, VInv, NEW w \in Workers, pc[w] = "cli",
           UNCHANGED <<pc, verdict, exitCode, cancelFile, hb, hbFailed,
           failureSet>>,
           status'.worker = status.worker,
           status'.state \in {status.state, "CANCELLING"},
           cancelledProcess' => cancelledProcess \/ outcome = "cancelled",
           CallKept
    PROVE  VInv'
<1>1. status.state \notin Terminal \cup {"SUBMITTED"} /\ sup # "gone"
  BY
  DEF IInv, ClaimedLeftSubmitted, VInv, WorkIsOpen, CallByPlace, AtWork, Claimed
<1>2. status'.state \notin Terminal \cup {"SUBMITTED"}
  BY <1>1 DEF Terminal
<1>3. ~(\E v \in Workers : pc[v] = "writing")
  BY DEF IInv, LockExcludes, Holding
<1> QED
  BY <1>1, <1>2, <1>3 DEF VInv, WorkIsOpen, CallByPlace, LeaderByPlace,
     ReceiptIsCleared, Asked, CancelIsKnown, VerdictIsKnown, StatusIsKnown,
     CallKept, Terminal

\* The CLI's events and external commands settle nothing.
LEMMA CliStepsKeepVInv ==
    ASSUME IInv, VInv, NEW w \in Workers,
           StageEventFails(w) \/ Calling(w) \/ Supervision(w)
    PROVE  VInv'
<1>1. /\ pc[w] = "cli"
      /\ UNCHANGED <<pc, verdict, exitCode, cancelFile, hb, hbFailed, failureSet>>
  BY DEF StageEventFails, Calling, Supervision, Progress, ProcessEntered, LaunchFails,
     ProcessPolled, ProcessStarted, TickRaises, ProcessEnded, Cli, InCli,
     mainVars, hbVars
<1>2. sup # "gone"
  BY <1>1 DEF VInv, CallByPlace, AtWork, Claimed
<1>3. /\ status'.worker = status.worker
      /\ status'.state \in {status.state, "CANCELLING"}
  BY ListenerWrites DEF IInv, Typed, StatusType
<1>4. cancelledProcess' => cancelledProcess \/ outcome = "cancelled"
  BY DEF StageEventFails, Calling, Supervision, Progress, ProcessEntered, LaunchFails,
     ProcessPolled, ProcessStarted, TickRaises, ProcessEnded, listenVars
<1>5. CASE StageEventFails(w)
  <2>1. CallKept
    BY <1>2, <1>5
    DEF StageEventFails, procVars, VInv, CallByPlace, LeaderByPlace,
       CancelIsKnown, CallKept
  <2> QED BY <1>1, <1>3, <1>4, <2>1, CliKeepsVInv
<1>6. CASE Calling(w) \/ ProcessPolled(w)
  <2>1. CallKept
    BY <1>2, <1>6, PollsKeepCall
    DEF Calling, ProcessEntered, LaunchFails, ProcessPolled
  <2> QED BY <1>1, <1>3, <1>4, <2>1, CliKeepsVInv
<1>7. CASE ProcessStarted(w) \/ TickRaises(w) \/ ProcessEnded(w)
  <2>1. CallKept
    BY <1>2, <1>7, EventsKeepCall DEF ProcessStarted, TickRaises, ProcessEnded
  <2> QED BY <1>1, <1>3, <1>4, <2>1, CliKeepsVInv
<1> QED BY <1>5, <1>6, <1>7 DEF Supervision, Progress

\* Whoever cancels, observes or kills, and the external processes.
LEMMA OtherStepsKeepVInv ==
    ASSUME IInv, VInv,
           \/ RequestCancel
           \/ \E o \in Observers : ProbeTakes(o) \/ ProbeDrops(o)
           \/ \E w \in Workers : Crash(w)
           \/ Environment
           \/ UNCHANGED vars
    PROVE  VInv'
<1> USE DEF VInv, WorkIsOpen, CallByPlace, LeaderByPlace, ReceiptIsCleared, Asked,
        CancelIsKnown, VerdictIsKnown, Clean, StatusIsKnown, fileVars, lockVars,
        mainVars, hbVars, listenVars, procVars
<1>1. CASE RequestCancel
  BY <1>1 DEF RequestCancel
<1>2. ASSUME NEW o \in Observers, ProbeTakes(o) \/ ProbeDrops(o) PROVE VInv'
  BY <1>2 DEF ProbeTakes, ProbeDrops
<1>3. ASSUME NEW w \in Workers, Crash(w) PROVE VInv'
  <2>1. /\ pc' = [pc EXCEPT ![w] = "crashed"]
        /\ UNCHANGED <<status, cancelFile, verdict, exitCode, hbFailed, failureSet,
                       listenVars>>
        /\ hb' \in {hb, "off", "done"}
    BY <1>3 DEF Crash, Goto
  <2>2. CASE pc[w] = "cli"
    <3>1. sup' = "gone" /\ UNCHANGED <<why, outcome, leader>>
      BY <1>3, <2>2 DEF Crash, Claimed, Proc!SupervisorDies
    <3>2. \A v \in Workers : pc'[v] \notin AtWork
      BY <2>1, <2>2 DEF IInv, Typed, LockExcludes, Holding, AtWork, Claimed
    <3>3. status.state \notin Terminal \cup {"SUBMITTED"}
      BY <2>2 DEF IInv, ClaimedLeftSubmitted, AtWork, Claimed
    <3> QED
      BY <2>1, <2>2, <3>1, <3>2, <3>3
      DEF IInv, Typed, AtWork, Claimed, Proc!SupStates, Terminal
  <2>3. CASE pc[w] # "cli"
    <3>1. UNCHANGED <<sup, why, outcome, leader>>
      BY <1>3, <2>3 DEF Crash
    <3> QED BY <2>1, <2>3, <3>1 DEF IInv, Typed, AtWork, Claimed
  <2> QED BY <2>2, <2>3
<1>4. CASE Environment
  <2>1. /\ UNCHANGED <<sup, why, outcome>>
        /\ leader' = leader \/ (leader = "running" /\ leader' = "zombie")
    BY <1>4
    DEF Environment, Proc!Processes, Proc!LeaderExits, Proc!GroupIdRecycled,
       Proc!KidForks, Proc!KidEscapes, Proc!KidRedirects, Proc!KidExits,
       Proc!DeadlinePasses
  <2> QED BY <1>4, <2>1 DEF Environment
<1>5. CASE UNCHANGED vars
  BY <1>5 DEF vars
<1> QED BY <1>1, <1>2, <1>3, <1>4, <1>5

\* Every behaviour of the workers keeps the invariant of the verdict.
THEOREM VerdictInvariance == Safe => []VInv
<1>1. Init => VInv
  BY InitVInv
<1>2. IInv /\ VInv /\ [Next]_vars => VInv'
  BY LockStepsKeepVInv, ClaimStepsKeepVInv, EndStepsKeepVInv,
     HeartbeatStepsKeepVInv, CliStepsKeepVInv, OtherStepsKeepVInv
  DEF Next, Bracket, CliStep
<1> QED BY <1>1, <1>2, Invariance, PTL DEF Safe

\* What a terminal status says is true: CANCELLED was asked for, COMPLETED lost no
\* event, and the child that the worker launched was reaped and is no longer in the
\* status (worker.py 309-343), with heartbeats that outlast their join as well.
THEOREM TrueVerdict == Safe => []VerdictIsTrue
<1>1. VInv => VerdictIsTrue
  BY
  DEF VInv, StatusIsKnown, Clean, ReceiptIsCleared, LeaderByPlace, CallByPlace,
     WorkIsOpen, AtWork, Claimed, VerdictIsTrue, CancelledOnRequest,
     CompletedIsClean, TerminalIsReaped
<1> QED BY <1>1, VerdictInvariance, PTL
-----------------------------------------------------------------------------
(* The abstract durable job.                                                *)

\* A job that is submitted or at work has no code, and nobody owns a submitted one.
CodeByPlace ==
    /\ status.state = "SUBMITTED" => status.worker = Nobody /\ status.code = "none"
    /\ \A w \in Workers : pc[w] \in AtWork => status.code = "none"

\* The code of a verdict that is about to be written stands for its state.
VerdictIsSpoken ==
    \A w \in Workers : pc[w] = "writing" =>
       verdict.code # "none" /\ VerdictOf(verdict.code) = verdict.state

ReturnIsExecution ==
    /\ \A w \in Workers : pc[w] = "cli" => executions > 0
    /\ exitCode = "returned" => executions > 0

RInv == CodeByPlace /\ VerdictIsSpoken /\ ReturnIsExecution

\* RInv holds in the initial state.
LEMMA InitRInv == Init => RInv
BY
DEF Init, RInv, CodeByPlace, VerdictIsSpoken, ReturnIsExecution, AtWork, Claimed

\* Every step keeps RInv; a heartbeat, joined or not, leaves the code alone.
LEMMA StepsKeepRInv ==
    ASSUME IInv, VInv, RInv, [Next]_vars
    PROVE  RInv'
<1> USE DEF IInv, Typed, StatusType, LockExcludes, ClaimedLeftSubmitted,
        HeartbeatLeftSubmitted, VInv, WorkIsOpen, AtWork, Claimed, Holding, RInv,
        CodeByPlace, VerdictIsSpoken, ReturnIsExecution, Goto
<1>1. ASSUME NEW w \in Workers,
             OpenLock(w) \/ TakeLock(w) \/ RefuseStarted(w) \/ Unlock(w)
      PROVE  RInv'
  <2>1. \E place \in {"opened", "locked", "refused", "unlocked"} :
           pc' = [pc EXCEPT ![w] = place]
    BY <1>1 DEF OpenLock, TakeLock, RefuseStarted, Unlock
  <2> QED BY <1>1, <2>1 DEF OpenLock, TakeLock, RefuseStarted, Unlock, Quiet, hbVars
<1>2. ASSUME NEW w \in Workers, Exit(w) PROVE RInv'
  BY <1>2 DEF Exit, fileVars
<1>3. ASSUME NEW w \in Workers, Start(w) PROVE RInv'
  <2>1. CASE /\ Writes([status EXCEPT !.state = "STARTING", !.worker = w])
             /\ Goto(w, "bootstrap")
    BY <1>3, <2>1 DEF Start, Writes, Quiet, hbVars, Terminal
  <2>2. CASE WriteFails /\ Goto(w, "startFailed")
    BY <1>3, <2>2 DEF Start, WriteFails, Quiet, hbVars
  <2> QED BY <1>3, <2>1, <2>2 DEF Start
<1>4. ASSUME NEW w \in Workers, Bootstrap(w) PROVE RInv'
  BY <1>4 DEF Bootstrap, Quiet, hbVars
<1>5. ASSUME NEW w \in Workers, EnterRunning(w) PROVE RInv'
  <2>1. \A v \in Workers : v # w => pc[v] \notin Holding
    BY <1>5 DEF EnterRunning
  <2>2. CASE /\ Writes([status EXCEPT !.state = "RUNNING"])
             /\ hb' = "waiting" /\ Goto(w, "entering")
             /\ UNCHANGED exitCode
    BY <1>5, <2>1, <2>2 DEF EnterRunning, Writes, Terminal
  <2>3. CASE WriteFails /\ exitCode' = "unwritten" /\ Goto(w, "settling") /\ UNCHANGED hb
    BY <1>5, <2>1, <2>3 DEF EnterRunning, WriteFails
  <2> QED BY <1>5, <2>2, <2>3 DEF EnterRunning
<1>6. ASSUME NEW w \in Workers, EnterCli(w) PROVE RInv'
  <2>1. CASE CancelSeen
    BY <1>6, <2>1 DEF EnterCli, Quiet, hbVars
  <2>2. CASE ~CancelSeen
    BY <1>6, <2>2 DEF EnterCli, Quiet, hbVars
  <2> QED BY <2>1, <2>2
<1>7. ASSUME NEW w \in Workers,
             \/ CliReturns(w) \/ StopHeartbeat(w) \/ JoinHeartbeat(w) \/ Settle(w)
      PROVE  RInv'
  <2>1. CASE CliReturns(w)
    <3>1. /\ pc[w] = "cli" /\ pc' = [pc EXCEPT ![w] = "stopping"]
          /\ UNCHANGED <<status, executions, hb>>
      BY <2>1 DEF CliReturns, Quiet, hbVars
    <3> QED BY <3>1
  <2>2. CASE StopHeartbeat(w)
    BY <2>2 DEF StopHeartbeat, Quiet, hbVars
  <2>3. CASE JoinHeartbeat(w)
    BY <2>3 DEF JoinHeartbeat, Quiet, hbVars
  <2>4. CASE Settle(w)
    <3>1. \A v \in Workers : v # w => pc[v] \notin Holding
      BY <2>4 DEF Settle
    <3>2. VerdictOf(verdict'.code) = verdict'.state /\ verdict'.code # "none"
      BY <2>4 DEF Settle, TerminalVerdict, VerdictOf
    <3> QED BY <2>4, <3>1, <3>2 DEF Settle, Quiet, hbVars
  <2> QED BY <1>7, <2>1, <2>2, <2>3, <2>4
<1>8. ASSUME NEW w \in Workers,
             \/ WriteTerminal(w) \/ Emergency(w)
             \/ ReportStartFailed(w) \/ ReportBootFailed(w)
      PROVE  RInv'
  <2>1. /\ \/ pc' = [pc EXCEPT ![w] = "unlocking"]
           \/ pc' = [pc EXCEPT ![w] = "emergency"] /\ UNCHANGED status
        /\ \A v \in Workers : v # w => pc[v] \notin Holding
        /\ status.code = "none"
        /\ UNCHANGED <<executions, exitCode, verdict>>
    <3>1. pc[w] \in {"writing", "emergency", "startFailed", "bootFailed"}
      BY <1>8 DEF WriteTerminal, Emergency, ReportStartFailed, ReportBootFailed
    <3>2. /\ \A v \in Workers : v # w => pc[v] \notin Holding
          /\ status.code = "none"
      BY <3>1
    <3>3. UNCHANGED <<executions, exitCode, verdict>>
      BY <1>8 DEF WriteTerminal, Emergency, ReportStartFailed, ReportBootFailed
    <3>4. \/ pc' = [pc EXCEPT ![w] = "unlocking"]
          \/ pc' = [pc EXCEPT ![w] = "emergency"] /\ UNCHANGED status
      BY <1>8
      DEF WriteTerminal, Emergency, ReportStartFailed, ReportBootFailed, WriteFails
    <3> QED BY <3>2, <3>3, <3>4
  <2>2. \/ UNCHANGED status
        \/ status'.worker = status.worker /\ status'.state # "SUBMITTED"
    <3>1. UNCHANGED status \/ \E state \in Terminal, code \in Codes :
                                  status' = Finished(state, code)
      <4>1. CASE WriteTerminal(w)
        BY <4>1 DEF WriteTerminal, Writes, WriteFails
      <4>2. CASE Emergency(w) \/ ReportStartFailed(w)
        BY <4>2 DEF Emergency, ReportStartFailed, Writes, WriteFails, Terminal,
           Codes
      <4>3. CASE ReportBootFailed(w)
        BY <4>3 DEF ReportBootFailed, Writes, WriteFails, Terminal, Codes
      <4> QED BY <1>8, <4>1, <4>2, <4>3
    <3>2. ASSUME NEW state \in Terminal, NEW code \in Codes,
                 status' = Finished(state, code)
          PROVE  status'.worker = status.worker /\ status'.state # "SUBMITTED"
      <4>1. status' = [status EXCEPT !.state = state, !.code = code, !.child = FALSE]
        BY <3>2 DEF Finished
      <4>2. status'.worker = status.worker /\ status'.state = state
        BY <4>1 DEF StatusType
      <4> QED BY <4>2 DEF Terminal
    <3> QED BY <3>1, <3>2
  <2> QED BY <2>1, <2>2
<1>9. CASE Heartbeat
  <2>1. CASE HbWrite
    BY <2>1 DEF HbWrite, Writes, WriteFails, Beat, mainVars
  <2>2. CASE HbRead
    BY <2>2 DEF HbRead, Beat, mainVars
  <2>3. CASE HbReadFails \/ HbDecide \/ HbSignal \/ HbStop
    BY <2>3 DEF HbReadFails, HbDecide, HbSignal, HbStop, Beat, mainVars
  <2> QED BY <1>9, <2>1, <2>2, <2>3 DEF Heartbeat
<1>10. ASSUME NEW w \in Workers, StageEventFails(w) \/ Calling(w) \/ Supervision(w)
       PROVE  RInv'
  <2>1. /\ pc[w] = "cli"
        /\ UNCHANGED <<pc, executions, exitCode, verdict>>
    BY <1>10
    DEF StageEventFails, Calling, Supervision, Progress, ProcessEntered, LaunchFails,
       ProcessPolled, ProcessStarted, TickRaises, ProcessEnded, Cli, InCli,
       mainVars, hbVars
  <2>2. /\ status'.worker = status.worker /\ status'.code = status.code
        /\ status'.state \in {status.state, "CANCELLING"}
    BY <1>10, ListenerWrites
  <2> QED BY <2>1, <2>2
<1>11. CASE RequestCancel \/ Environment \/ UNCHANGED vars
            \/ \E o \in Observers : ProbeTakes(o) \/ ProbeDrops(o)
  BY <1>11
  DEF RequestCancel, Environment, ProbeTakes, ProbeDrops, vars, fileVars,
      mainVars, hbVars
<1>12. ASSUME NEW w \in Workers, Crash(w) PROVE RInv'
  <2>1. /\ pc' = [pc EXCEPT ![w] = "crashed"]
        /\ UNCHANGED <<status, executions, exitCode, verdict>>
    BY <1>12 DEF Crash, fileVars, Goto
  <2> QED BY <2>1
<1> QED BY <1>1, <1>2, <1>3, <1>4, <1>5, <1>6, <1>7, <1>8, <1>9, <1>10, <1>11, <1>12
  DEF Next, Bracket, CliStep

\* Every behaviour keeps RInv.
LEMMA RefinementInvariance == Safe => []RInv
<1>1. Init => RInv
  BY InitRInv
<1>2. IInv /\ VInv /\ RInv /\ [Next]_vars => RInv'
  BY StepsKeepRInv
<1> QED BY <1>1, <1>2, Invariance, VerdictInvariance, PTL DEF Safe

\* A step that settles nothing, claims nothing and starts nothing is a stutter of
\* the abstract job, or its request to cancel.
LEMMA AbstractStutter ==
    ASSUME status'.worker = status.worker, status'.code = status.code,
           status'.state = status.state \/ status.code = "none",
           executions' = executions,
           cancelFile' = cancelFile \/ cancelFile' = TRUE
    PROVE  [Lifecycle!Next]_(Lifecycle!vars)
<1>1. UNCHANGED <<IF status.code = "none" THEN "open" ELSE "settled",
                  status.worker, executions > 0, VerdictOf(status.code),
                  status.code # "none" /\ status.state # VerdictOf(status.code)>>
  <2>1. CASE status'.state = status.state
    BY <2>1
  <2>2. CASE status.code = "none"
    BY <2>2
  <2> QED BY <2>1, <2>2
<1>2. CASE cancelFile' = cancelFile
  BY <1>1, <1>2 DEF Lifecycle!vars
<1>3. CASE cancelFile' = TRUE
  BY <1>1, <1>3 DEF Lifecycle!Ask, Lifecycle!Next
<1> QED BY <1>2, <1>3

\* A terminal status that is written settles the abstract job truthfully.
LEMMA AbstractSettle ==
    ASSUME NEW code \in Codes \ {"none"}, status \in StatusType,
           status' = Finished(VerdictOf(code), code), status.code = "none",
           code = "USER_CANCELLED" => cancelFile /\ status.worker # Nobody,
           code = "CLI_EXIT" => executions > 0,
           UNCHANGED <<executions, cancelFile>>
    PROVE  [Lifecycle!Next]_(Lifecycle!vars)
<1>1. /\ status'.code = code /\ status'.state = VerdictOf(code)
      /\ status'.worker = status.worker
  BY DEF Finished, StatusType
<1>2. /\ VerdictOf(code) \in Lifecycle!Results
      /\ VerdictOf(code) = "CANCELLED" => code = "USER_CANCELLED"
      /\ VerdictOf(code) = "COMPLETED" => code = "CLI_EXIT"
  BY DEF VerdictOf, Codes, Lifecycle!Results
<1>3. Lifecycle!Settle(VerdictOf(code))
  BY <1>1, <1>2 DEF Lifecycle!Settle
<1> QED BY <1>2, <1>3 DEF Lifecycle!Next

\* The claim and the start of the operation, as the abstract job sees them.
LEMMA ClaimIsAbstract ==
    ASSUME IInv, VInv, RInv, NEW w \in Workers, Start(w) \/ EnterCli(w)
    PROVE  [Lifecycle!Next]_(Lifecycle!vars)
<1> USE DEF IInv, Typed, StatusType, Quiet
<1>1. CASE Start(w)
  <2>1. UNCHANGED <<executions, cancelFile>> /\ status.state = "SUBMITTED"
    BY <1>1 DEF Start
  <2>2. CASE WriteFails
    BY <2>1, <2>2, AbstractStutter DEF WriteFails
  <2>3. CASE Writes([status EXCEPT !.state = "STARTING", !.worker = w])
    <3>1. /\ status'.state = "STARTING" /\ status'.worker = w
          /\ status'.code = status.code
      BY <2>3 DEF Writes
    <3>2. status.worker = Nobody /\ status.code = "none"
      BY <2>1 DEF RInv, CodeByPlace
    <3>3. Lifecycle!Claim(w)
      BY <2>1, <3>1, <3>2 DEF Lifecycle!Claim
    <3> QED BY <3>3 DEF Lifecycle!Next
  <2> QED BY <1>1, <2>2, <2>3 DEF Start
<1>2. CASE EnterCli(w)
  <2>1. UNCHANGED <<status, cancelFile>> /\ pc[w] = "entering"
    BY <1>2 DEF EnterCli
  <2>2. CASE UNCHANGED executions
    BY <2>1, <2>2, AbstractStutter
  <2>3. CASE executions' = executions + 1
    <3>1. executions = 0 /\ status.worker = w /\ status.code = "none"
      BY <2>1 DEF ExecutedOnce, Ahead, VInv, WorkIsOpen, RInv, CodeByPlace, AtWork, Claimed
    <3>2. (executions > 0) = FALSE /\ (executions > 0)' = TRUE
      BY <2>3, <3>1
    <3>3. Lifecycle!Execute
      BY <2>1, <3>1, <3>2, WorkerAssumption
      DEF WorkerAssumption, Lifecycle!Execute
    <3> QED BY <3>3 DEF Lifecycle!Next
  <2>4. UNCHANGED executions \/ executions' = executions + 1
    BY <1>2 DEF EnterCli
  <2> QED BY <2>2, <2>3, <2>4
<1> QED BY <1>1, <1>2

\* The four writers of a terminal status.
LEMMA EndIsAbstract ==
    ASSUME IInv, VInv, RInv, NEW w \in Workers,
           \/ WriteTerminal(w) \/ Emergency(w)
           \/ ReportStartFailed(w) \/ ReportBootFailed(w)
    PROVE  [Lifecycle!Next]_(Lifecycle!vars)
<1> USE DEF IInv, Typed, Quiet
<1>1. UNCHANGED <<executions, cancelFile>> /\ status.code = "none"
  BY DEF WriteTerminal, Emergency, ReportStartFailed, ReportBootFailed, RInv,
     CodeByPlace, AtWork, Claimed
<1>2. CASE UNCHANGED status
  BY <1>1, <1>2, AbstractStutter
<1>3. ASSUME NEW code \in {"JOB_STATUS_WRITE_FAILED", "JOB_BOOTSTRAP_FAILED"},
             status' = Finished("FAILED", code)
      PROVE  [Lifecycle!Next]_(Lifecycle!vars)
  <2>1. code \in Codes \ {"none"} /\ VerdictOf(code) = "FAILED"
    BY DEF Codes, VerdictOf
  <2> QED BY <1>1, <1>3, <2>1, AbstractSettle
<1>4. CASE WriteTerminal(w) /\ Writes(Finished(verdict.state, verdict.code))
  <2>1. pc[w] = "writing"
    BY <1>4 DEF WriteTerminal
  <2>2. /\ verdict.code \in Codes \ {"none"}
        /\ VerdictOf(verdict.code) = verdict.state
    BY <2>1 DEF RInv, VerdictIsSpoken
  <2>3. verdict.code = "USER_CANCELLED" => cancelFile
    BY <2>1, <2>2 DEF VInv, VerdictIsKnown, VerdictOf
  <2>4. verdict.code = "CLI_EXIT" => executions > 0
    BY <2>1, <2>2
    DEF VInv, VerdictIsKnown, Clean, RInv, ReturnIsExecution, VerdictOf
  <2>5. status.worker # Nobody
    BY <2>1, WorkerAssumption
    DEF VInv, WorkIsOpen, Claimed, WorkerAssumption
  <2> QED BY <1>1, <1>4, <2>2, <2>3, <2>4, <2>5, AbstractSettle DEF Writes
<1>5. \/ UNCHANGED status
      \/ \E code \in {"JOB_STATUS_WRITE_FAILED", "JOB_BOOTSTRAP_FAILED"} :
            status' = Finished("FAILED", code)
      \/ WriteTerminal(w) /\ Writes(Finished(verdict.state, verdict.code))
  BY DEF WriteTerminal, Emergency, ReportStartFailed, ReportBootFailed, Writes,
     WriteFails
<1> QED BY <1>2, <1>3, <1>4, <1>5

\* Every step of the workers is a step of the abstract job, or none.
LEMMA StepIsAbstract ==
    ASSUME IInv, VInv, RInv, [Next]_vars
    PROVE  [Lifecycle!Next]_(Lifecycle!vars)
<1>1. ASSUME NEW w \in Workers, Bracket(w) \/ CliReturns(w) \/ Crash(w)
      PROVE  [Lifecycle!Next]_(Lifecycle!vars)
  <2>1. CASE Start(w) \/ EnterCli(w)
    BY <2>1, ClaimIsAbstract
  <2>2. CASE \/ WriteTerminal(w) \/ Emergency(w)
             \/ ReportStartFailed(w) \/ ReportBootFailed(w)
    BY <2>2, EndIsAbstract
  <2>3. CASE EnterRunning(w)
    <3>1. UNCHANGED <<executions, cancelFile>> /\ status.code = "none"
      BY <2>3 DEF EnterRunning, RInv, CodeByPlace, AtWork, Claimed
    <3>2. \/ UNCHANGED status
          \/ status'.worker = status.worker /\ status'.code = status.code
      BY <2>3 DEF EnterRunning, Writes, WriteFails, IInv, Typed, StatusType
    <3> QED BY <3>1, <3>2, AbstractStutter
  <2>4. CASE \/ OpenLock(w) \/ TakeLock(w) \/ RefuseStarted(w) \/ Bootstrap(w)
             \/ StopHeartbeat(w) \/ JoinHeartbeat(w) \/ Settle(w) \/ Unlock(w)
             \/ Exit(w) \/ CliReturns(w) \/ Crash(w)
    <3>1. UNCHANGED <<status, executions, cancelFile>>
      BY <2>4 DEF OpenLock, TakeLock, RefuseStarted, Bootstrap, StopHeartbeat,
         JoinHeartbeat, Settle, Unlock, Exit, CliReturns, Crash, Quiet, fileVars
    <3> QED BY <3>1, AbstractStutter
  <2> QED BY <1>1, <2>1, <2>2, <2>3, <2>4 DEF Bracket
<1>2. ASSUME NEW w \in Workers, StageEventFails(w) \/ Calling(w) \/ Supervision(w)
      PROVE  [Lifecycle!Next]_(Lifecycle!vars)
  <2>1. InCli(w) /\ Cli
    BY <1>2 DEF StageEventFails, Calling, Supervision, Progress, ProcessEntered,
       LaunchFails, ProcessPolled, ProcessStarted, TickRaises, ProcessEnded
  <2>2. status.code = "none"
    BY <2>1 DEF InCli, RInv, CodeByPlace, AtWork, Claimed
  <2>3. status'.worker = status.worker /\ status'.code = status.code
    BY <1>2, ListenerWrites DEF IInv, Typed, StatusType
  <2> QED BY <2>1, <2>2, <2>3, AbstractStutter DEF Cli, mainVars
<1>3. CASE Heartbeat
  <2>1. CASE HbWrite
    <3>1. UNCHANGED <<executions, cancelFile>>
      BY <2>1 DEF HbWrite, Beat, mainVars
    <3>2. CASE UNCHANGED status
      BY <3>1, <3>2, AbstractStutter
    <3>3. CASE /\ status'.worker = status.worker /\ status'.code = status.code
               /\ status'.state = hbState
      <4>1. CASE status.code = "none"
        BY <3>1, <3>3, <4>1, AbstractStutter
      <4>2. CASE status.code # "none"
        <5>1. hbState # VerdictOf(status.code)
          BY <4>2 DEF IInv, Typed, StatusType, Active, VerdictOf
        <5>2. Lifecycle!Hide
          BY <3>1, <3>3, <4>2, <5>1 DEF Lifecycle!Hide
        <5> QED BY <5>2 DEF Lifecycle!Next
      <4> QED BY <4>1, <4>2
    <3>4. \/ UNCHANGED status
          \/ /\ status'.worker = status.worker /\ status'.code = status.code
             /\ status'.state = hbState
      BY <2>1 DEF HbWrite, Writes, WriteFails, IInv, Typed, StatusType
    <3> QED BY <3>2, <3>3, <3>4
  <2>2. CASE HbRead \/ HbReadFails \/ HbDecide \/ HbSignal \/ HbStop
    <3>1. UNCHANGED <<status, executions, cancelFile>>
      BY <2>2
      DEF HbRead, HbReadFails, HbDecide, HbSignal, HbStop, Beat, mainVars
    <3> QED BY <3>1, AbstractStutter
  <2> QED BY <1>3, <2>1, <2>2 DEF Heartbeat
<1>4. CASE \/ RequestCancel \/ Environment \/ UNCHANGED vars
           \/ \E o \in Observers : ProbeTakes(o) \/ ProbeDrops(o)
  <2>1. /\ UNCHANGED <<status, executions>>
        /\ cancelFile' = cancelFile \/ cancelFile' = TRUE
    BY <1>4 DEF RequestCancel, Environment, ProbeTakes, ProbeDrops, vars,
       fileVars, mainVars
  <2> QED BY <2>1, AbstractStutter
<1> QED BY <1>1, <1>2, <1>3, <1>4 DEF Next, CliStep

\* The worker implements the abstract durable job: whatever the threads, the
\* crashes and the failed writes do and however long a heartbeat takes, the job is
\* claimed once, executed at most once by its owner, and settled once; a heartbeat
\* that outlasts its join can hide the result, and nothing replaces it.
THEOREM ImplementsAbstractJob == Safe => ImplementsLifecycle
<1>1. Init => Lifecycle!Init
  BY DEF Init, Lifecycle!Init, VerdictOf
<1>2. IInv /\ VInv /\ RInv /\ [Next]_vars => [Lifecycle!Next]_(Lifecycle!vars)
  BY StepIsAbstract
<1> QED
  BY <1>1, <1>2, Invariance, VerdictInvariance, RefinementInvariance, PTL
  DEF Safe, ImplementsLifecycle, Lifecycle!Spec
-------------------------------------------------------------------------------
(* What RunningJobSettles rests on besides fairness.                        *)

\* Places of a worker that writes no status any more, and the states of a job
\* between its RUNNING and its end.
Left == {"unlocking", "unlocked", "exited"}
Begun == {"RUNNING", "CANCEL_REQUESTED", "CANCELLING"}

\* A worker that leaves its job without a verdict, once RUNNING was written, has
\* failed twice to write one.
StrandingTakesTwo ==
    \A w \in Workers :
       (pc[w] \in Left /\ status.worker = w /\ status.state \in Begun
          /\ status.code = "none") => faults >= 2

Starting == {"startFailed", "bootstrap", "ready", "bootFailed"}

StartedByPlace ==
    \A w \in Workers :
       /\ pc[w] = "startFailed" => status.state = "SUBMITTED"
       /\ pc[w] \in {"bootstrap", "ready", "bootFailed"} => status.state = "STARTING"

\* No heartbeat runs before RUNNING was written.
HeartbeatIsLate ==
    /\ status.state = "SUBMITTED" => hb \in {"off", "done"}
    /\ \A w \in Workers : pc[w] \in Starting => hb \in {"off", "done"}

\* The emergency is one failure. A worker that left without a verdict failed
\* twice, or never wrote RUNNING.
FailuresCounted ==
    /\ faults \in Nat
    /\ \A w \in Workers :
          /\ pc[w] = "emergency" => faults >= 1
          /\ pc[w] \in Left /\ status.worker = w /\ status.code = "none" =>
                \/ faults >= 2
                \/ status.state \in {"SUBMITTED", "STARTING"} /\ hb \in {"off", "done"}

TInv == StartedByPlace /\ HeartbeatIsLate /\ FailuresCounted

\* A step that writes no status and leaves the heartbeat as it was, or over, keeps
\* TInv, unless it comes to one of its places.
LEMMA UnwrittenKeepsTInv ==
    ASSUME TInv, UNCHANGED status, hb' \in {hb, "off", "done"},
           faults' \in Nat, faults' >= faults,
           \A w \in Workers :
              pc'[w] = pc[w] \/ pc'[w] \notin Left \cup Starting \cup {"emergency"}
    PROVE  TInv'
BY DEF TInv, StartedByPlace, HeartbeatIsLate, FailuresCounted, Starting

\* A worker on its way to the CLI.
LEMMA WayInKeepsTInv ==
    ASSUME IInv, VInv, RInv, TInv, NEW w \in Workers,
           \/ OpenLock(w) \/ TakeLock(w) \/ RefuseStarted(w) \/ Start(w)
           \/ Bootstrap(w) \/ EnterRunning(w) \/ EnterCli(w)
    PROVE  TInv'
<1> USE DEF Goto
<1>1. pc \in [Workers -> PcStates] /\ faults \in Nat
  BY DEF IInv, Typed, TInv, FailuresCounted
<1>2. CASE OpenLock(w) \/ TakeLock(w) \/ RefuseStarted(w) \/ EnterCli(w)
  <2>1. /\ \E place \in {"opened", "locked", "refused", "stopping", "cli"} :
              pc' = [pc EXCEPT ![w] = place]
        /\ UNCHANGED <<status, hb, faults>>
    BY <1>2
    DEF OpenLock, TakeLock, RefuseStarted, EnterCli, Quiet, hbVars
  <2> QED BY <1>1, <2>1, UnwrittenKeepsTInv DEF Left, Starting
<1>3. CASE Start(w)
  <2>1. \A v \in Workers : v # w => pc[v] \notin Holding
    BY <1>3 DEF Start, IInv, LockExcludes, Holding
  <2>2. CASE /\ Writes([status EXCEPT !.state = "STARTING", !.worker = w])
             /\ Goto(w, "bootstrap")
    <3>1. /\ status'.state = "STARTING" /\ pc' = [pc EXCEPT ![w] = "bootstrap"]
          /\ UNCHANGED <<hb, faults>> /\ status'.worker = w
          /\ hb \in {"off", "done"}
      BY <1>3, <2>2
      DEF Start, Writes, Quiet, hbVars, IInv, Typed, StatusType, TInv, HeartbeatIsLate
    <3> QED
      BY <1>1, <2>1, <3>1
      DEF TInv, StartedByPlace, HeartbeatIsLate, FailuresCounted, Starting, Left,
          Holding
  <2>3. CASE WriteFails /\ Goto(w, "startFailed")
    <3>1. /\ status.state = "SUBMITTED" /\ pc' = [pc EXCEPT ![w] = "startFailed"]
          /\ UNCHANGED <<hb, status>> /\ faults' = faults + 1
          /\ hb \in {"off", "done"}
      BY <1>3, <2>3 DEF Start, WriteFails, Quiet, hbVars, TInv, HeartbeatIsLate
    <3> QED
      BY <1>1, <3>1
      DEF TInv, StartedByPlace, HeartbeatIsLate, FailuresCounted, Starting, Left
  <2> QED BY <1>3, <2>2, <2>3 DEF Start
<1>4. CASE Bootstrap(w)
  <2>1. /\ pc[w] = "bootstrap"
        /\ \E place \in {"ready", "bootFailed"} : pc' = [pc EXCEPT ![w] = place]
        /\ UNCHANGED <<status, hb, faults>>
    BY <1>4 DEF Bootstrap, Quiet, hbVars
  <2> QED
    BY <1>1, <2>1
    DEF TInv, StartedByPlace, HeartbeatIsLate, FailuresCounted, Starting, Left
<1>5. CASE EnterRunning(w)
  <2>1. /\ \A v \in Workers : v # w => pc[v] \notin Holding
        /\ status.worker = w /\ pc[w] = "ready"
    BY <1>5
    DEF EnterRunning, IInv, LockExcludes, Holding, VInv, WorkIsOpen, Claimed
  <2>2. CASE /\ Writes([status EXCEPT !.state = "RUNNING"])
             /\ hb' = "waiting" /\ Goto(w, "entering")
    <3>1. /\ pc' = [pc EXCEPT ![w] = "entering"] /\ UNCHANGED faults
          /\ status'.worker = w /\ status'.state = "RUNNING"
      BY <1>5, <2>1, <2>2 DEF EnterRunning, Writes, IInv, Typed, StatusType
    <3> QED
      BY <1>1, <2>1, <3>1
      DEF TInv, StartedByPlace, HeartbeatIsLate, FailuresCounted, Starting, Left, Holding
  <2>3. CASE WriteFails /\ Goto(w, "settling") /\ UNCHANGED hb
    <3>1. /\ pc' = [pc EXCEPT ![w] = "settling"] /\ UNCHANGED <<status, hb>>
          /\ faults' = faults + 1
      BY <1>5, <2>3 DEF EnterRunning, WriteFails
    <3> QED BY <1>1, <3>1, UnwrittenKeepsTInv DEF Left, Starting
  <2> QED BY <1>5, <2>2, <2>3 DEF EnterRunning
<1> QED BY <1>2, <1>3, <1>4, <1>5

\* A worker on its way out: each write of an outcome that fails is counted.
LEMMA WayOutKeepsTInv ==
    ASSUME IInv, VInv, RInv, TInv, NEW w \in Workers,
           \/ CliReturns(w) \/ StopHeartbeat(w) \/ JoinHeartbeat(w) \/ Settle(w)
           \/ WriteTerminal(w) \/ Emergency(w) \/ ReportStartFailed(w)
           \/ ReportBootFailed(w) \/ Unlock(w) \/ Exit(w)
    PROVE  TInv'
<1> USE DEF Goto
<1>1. pc \in [Workers -> PcStates] /\ faults \in Nat
  BY DEF IInv, Typed, TInv, FailuresCounted
<1>2. CASE CliReturns(w) \/ StopHeartbeat(w) \/ JoinHeartbeat(w) \/ Settle(w)
  <2>1. /\ \E place \in {"stopping", "joining", "settling", "writing"} :
              pc' = [pc EXCEPT ![w] = place]
        /\ UNCHANGED <<status, hb, faults>>
    BY <1>2
    DEF CliReturns, StopHeartbeat, JoinHeartbeat, Settle, Quiet, hbVars
  <2> QED BY <1>1, <2>1, UnwrittenKeepsTInv DEF Left, Starting
<1>3. CASE \/ WriteTerminal(w) \/ Emergency(w) \/ ReportStartFailed(w)
           \/ ReportBootFailed(w)
  <2>1. /\ UNCHANGED hb
        /\ \A v \in Workers : v # w => pc[v] \notin Holding
    BY <1>3
    DEF WriteTerminal, Emergency, ReportStartFailed, ReportBootFailed, Quiet,
        hbVars, IInv, LockExcludes, Holding
  <2>2. ASSUME NEW state \in Terminal, NEW code \in Codes \ {"none"},
               status' = Finished(state, code), UNCHANGED faults,
               pc' = [pc EXCEPT ![w] = "unlocking"]
        PROVE  TInv'
    <3>1. status'.code # "none" /\ status'.state \notin {"SUBMITTED", "STARTING"}
      BY <2>2 DEF Finished, Terminal, IInv, Typed, StatusType
    <3> QED
      BY <1>1, <2>1, <2>2, <3>1
      DEF TInv, StartedByPlace, HeartbeatIsLate, FailuresCounted, Starting, Left, Holding
  <2>3. ASSUME UNCHANGED status, faults' = faults + 1,
               NEW place, pc' = [pc EXCEPT ![w] = place],
               \/ place = "emergency"
               \/ /\ place = "unlocking"
                  /\ \/ faults >= 1
                     \/ status.state \in {"SUBMITTED", "STARTING"} /\ hb \in {"off", "done"}
        PROVE  TInv'
    BY <1>1, <2>1, <2>3
    DEF TInv, StartedByPlace, HeartbeatIsLate, FailuresCounted, Starting, Left,
        Holding
  <2>4. CASE WriteTerminal(w)
    <3>1. verdict.state \in Terminal /\ verdict.code \in Codes \ {"none"}
      BY <2>4 DEF WriteTerminal, IInv, Typed, RInv, VerdictIsSpoken
    <3>2. CASE Writes(Finished(verdict.state, verdict.code)) /\ Goto(w, "unlocking")
      BY <2>2, <3>1, <3>2 DEF Writes
    <3>3. CASE WriteFails /\ Goto(w, "emergency")
      BY <2>3, <3>3 DEF WriteFails
    <3> QED BY <2>4, <3>2, <3>3 DEF WriteTerminal
  <2>5. CASE Emergency(w)
    <3>1. CASE status' = Finished("FAILED", "JOB_STATUS_WRITE_FAILED") /\ UNCHANGED faults
      BY <2>2, <2>5, <3>1 DEF Emergency, Terminal, Codes
    <3>2. CASE WriteFails
      BY <2>3, <2>5, <3>2 DEF Emergency, WriteFails, TInv, FailuresCounted
    <3> QED BY <2>5, <3>1, <3>2 DEF Emergency
  <2>6. CASE ReportStartFailed(w)
    <3>1. CASE Writes(Finished("FAILED", "JOB_STATUS_WRITE_FAILED"))
      BY <2>2, <2>6, <3>1 DEF ReportStartFailed, Writes, Terminal, Codes
    <3>2. CASE WriteFails
      BY <2>3, <2>6, <3>2 DEF ReportStartFailed, WriteFails, TInv, StartedByPlace, HeartbeatIsLate,
         Starting
    <3> QED BY <2>6, <3>1, <3>2 DEF ReportStartFailed
  <2>7. CASE ReportBootFailed(w)
    <3>1. CASE Writes(Finished("FAILED", "JOB_BOOTSTRAP_FAILED"))
      BY <2>2, <2>7, <3>1 DEF ReportBootFailed, Writes, Terminal, Codes
    <3>2. CASE WriteFails
      BY <2>3, <2>7, <3>2 DEF ReportBootFailed, WriteFails, TInv, StartedByPlace, HeartbeatIsLate,
         Starting
    <3> QED BY <2>7, <3>1, <3>2 DEF ReportBootFailed
  <2> QED BY <1>3, <2>4, <2>5, <2>6, <2>7
<1>4. CASE Unlock(w) \/ Exit(w)
  <2>1. /\ pc[w] \in Left /\ \E place \in Left : pc' = [pc EXCEPT ![w] = place]
        /\ UNCHANGED <<status, faults>> /\ hb' \in {hb, "done"}
    BY <1>4 DEF Unlock, Exit, Quiet, hbVars, fileVars, Left
  <2> QED
    BY <1>1, <2>1
    DEF TInv, StartedByPlace, HeartbeatIsLate, FailuresCounted, Starting, Left
<1> QED BY <1>2, <1>3, <1>4

\* Threads beside the bracket: they write only while the worker is in between.
LEMMA OthersKeepTInv ==
    ASSUME IInv, VInv, RInv, TInv,
           \/ Heartbeat
           \/ \E w \in Workers : \/ StageEventFails(w) \/ Calling(w) \/ Supervision(w)
                                 \/ Crash(w)
           \/ RequestCancel \/ Environment \/ UNCHANGED vars
           \/ \E o \in Observers : ProbeTakes(o) \/ ProbeDrops(o)
    PROVE  TInv'
<1>1. pc \in [Workers -> PcStates] /\ faults \in Nat
  BY DEF IInv, Typed, TInv, FailuresCounted
<1>2. CASE HbRead \/ HbReadFails \/ HbDecide \/ HbWrite \/ HbSignal \/ HbStop
  <2>1. /\ UNCHANGED pc /\ faults' \in Nat /\ faults' >= faults
        /\ hb \notin {"off", "done"}
    <3>1. CASE HbRead \/ HbDecide \/ HbSignal \/ HbStop
      BY <1>1, <3>1 DEF HbRead, HbDecide, HbSignal, HbStop, Beat, mainVars
    <3>2. CASE HbReadFails
      BY <1>1, <3>2 DEF HbReadFails, Beat, mainVars
    <3>3. CASE HbWrite
      <4>1. UNCHANGED pc /\ hb = "decided"
        BY <3>3 DEF HbWrite, Beat, mainVars
      <4>2. UNCHANGED faults \/ faults' = faults + 1
        BY <3>3 DEF HbWrite, Writes, WriteFails
      <4> QED BY <1>1, <4>1, <4>2
    <3> QED BY <1>2, <3>1, <3>2, <3>3
  <2>2. status'.worker = status.worker /\ status'.code = status.code
    BY <1>2
    DEF HbRead, HbReadFails, HbDecide, HbWrite, HbSignal, HbStop, Writes,
        WriteFails, IInv, Typed, StatusType
  <2>3. /\ status.state # "SUBMITTED" /\ \A w \in Workers : pc[w] \notin Starting
        /\ status'.state # "SUBMITTED"
    <3>1. /\ status.state # "SUBMITTED" /\ \A w \in Workers : pc[w] \notin Starting
      BY <2>1 DEF TInv, HeartbeatIsLate
    <3>2. \/ UNCHANGED status
          \/ hb = "decided" /\ status'.state = hbState
      <4>1. CASE HbWrite
        <5>1. CASE Writes([status EXCEPT !.state = hbState])
          <6>1. status' = [status EXCEPT !.state = hbState]
            BY <5>1 DEF Writes
          <6>2. status'.state = hbState
            BY <6>1 DEF IInv, Typed, StatusType
          <6> QED BY <4>1, <6>2 DEF HbWrite
        <5>2. CASE WriteFails
          BY <5>2 DEF WriteFails
        <5> QED BY <4>1, <5>1, <5>2 DEF HbWrite
      <4>2. CASE HbRead \/ HbSignal \/ HbStop \/ HbReadFails \/ HbDecide
        <5>1. UNCHANGED status
          BY <4>2 DEF HbRead, HbReadFails, HbDecide, HbSignal, HbStop
        <5> QED BY <5>1
      <4> QED BY <1>2, <4>1, <4>2
    <3> QED BY <3>1, <3>2 DEF IInv, HeartbeatLeftSubmitted
  <2> QED
    BY <2>1, <2>2, <2>3
    DEF TInv, StartedByPlace, HeartbeatIsLate, FailuresCounted, Starting
<1>3. ASSUME NEW w \in Workers, StageEventFails(w) \/ Calling(w) \/ Supervision(w)
      PROVE  TInv'
  <2>1. /\ pc[w] = "cli" /\ UNCHANGED <<pc, hb>>
        /\ faults' \in Nat /\ faults' >= faults
    <3>1. /\ pc[w] = "cli" /\ UNCHANGED <<pc, hb>>
      BY <1>3
      DEF StageEventFails, Calling, Supervision, Progress, ProcessEntered, LaunchFails,
         ProcessPolled, ProcessStarted, TickRaises, ProcessEnded, Cli, InCli,
         mainVars, hbVars
    <3>2. UNCHANGED faults \/ faults' = faults + 1
      BY <1>3
      DEF StageEventFails, Calling, Supervision, Progress, ProcessEntered, LaunchFails,
         ProcessPolled, ProcessStarted, TickRaises, ProcessEnded, ListenerRaises,
         Writes, WriteFails
    <3> QED BY <1>1, <3>1, <3>2
  <2>2. /\ status.worker = w /\ status.state # "SUBMITTED"
        /\ \A v \in Workers : v # w => pc[v] \notin Holding
    BY <2>1
    DEF IInv, LockExcludes, ClaimedLeftSubmitted, Holding, VInv, WorkIsOpen, Claimed
  <2>3. /\ status'.worker = status.worker
        /\ status'.state \in {status.state, "CANCELLING"}
    <3>1. CASE UNCHANGED status
      BY <3>1
    <3>2. CASE \E child \in BOOLEAN :
                 status' \in {[status EXCEPT !.child = child],
                              [status EXCEPT !.child = child, !.state = "CANCELLING"]}
      BY <3>2 DEF IInv, Typed, StatusType
    <3> QED BY <1>3, <3>1, <3>2, ListenerWrites
  <2> QED
    BY <2>1, <2>2, <2>3
    DEF TInv, StartedByPlace, HeartbeatIsLate, FailuresCounted, Starting, Left, Holding
<1>4. ASSUME NEW w \in Workers, Crash(w) PROVE TInv'
  <2>1. /\ pc' = [pc EXCEPT ![w] = "crashed"] /\ UNCHANGED <<status, faults>>
        /\ hb' \in {hb, "off", "done"}
    BY <1>4 DEF Crash, fileVars, Goto
  <2> QED BY <1>1, <2>1, UnwrittenKeepsTInv DEF Left, Starting
<1>5. CASE \/ RequestCancel \/ Environment \/ UNCHANGED vars
           \/ \E o \in Observers : ProbeTakes(o) \/ ProbeDrops(o)
  <2>1. UNCHANGED <<pc, status, hb, faults>>
    BY <1>5
    DEF RequestCancel, Environment, ProbeTakes, ProbeDrops, vars, fileVars,
       mainVars, hbVars
  <2> QED BY <1>1, <2>1, UnwrittenKeepsTInv
<1> QED BY <1>2, <1>3, <1>4, <1>5 DEF Heartbeat

\* A worker that wrote RUNNING and left by itself has written a verdict, unless two
\* of its writes failed for good: one exhausted write is never enough to strand the
\* job (worker.py, the status writes at the end and _emergency_terminalize), however
\* long its heartbeat takes. What remains of RunningJobSettles is that the worker's
\* threads run.
THEOREM OneFailureNeverStrands == Safe => []StrandingTakesTwo
<1>1. Init => TInv
  BY DEF Init, TInv, StartedByPlace, HeartbeatIsLate, FailuresCounted, Starting, Left
<1>2. IInv /\ VInv /\ RInv /\ TInv /\ [Next]_vars => TInv'
  BY WayInKeepsTInv, WayOutKeepsTInv, OthersKeepTInv DEF Next, Bracket, CliStep
<1>3. TInv => StrandingTakesTwo
  <2> SUFFICES ASSUME TInv, NEW w \in Workers, pc[w] \in Left, status.worker = w,
                      status.state \in Begun, status.code = "none"
               PROVE  faults >= 2
    BY DEF StrandingTakesTwo
  <2>1. status.state \notin {"SUBMITTED", "STARTING"}
    BY DEF Begun
  <2> QED BY <2>1 DEF TInv, FailuresCounted
<1> QED
  BY <1>1, <1>2, <1>3, Invariance, VerdictInvariance, RefinementInvariance, PTL
  DEF Safe

-------------------------------------------------------------------------------
(*****************************************************************************)
(* TaskBuilder, for every set of requests, of replies of the model, of       *)
(* inputs and of answers. BuilderInv: every fact with authority of the       *)
(* draft, and every component of its geometry, is backed by a quotation of   *)
(* the request, by an answer of the user or by the asset, and the draft of   *)
(* a command is the one that its reply, its request and its input make. A    *)
(* task is compiled from a draft whose review found no issue, so what        *)
(* backs the draft backs the task, and what review asks decides what the     *)
(* compiler accepts.                                                         *)
(*****************************************************************************)

IsAuthority(f) == f.confirmed /\ f.source \in {"user_text", "user_confirmation", "public_asset"}

Backed(path, value, request, input, given) ==
    \/ Quotable(path, value, request)
    \/ path \in DOMAIN given /\ given[path] = value
    \/ path = "geometry" /\ value.mode \in Declared(input)
    \/ path = "mesh" /\ value = (IF input.kind = "gmsh" THEN "gmsh" ELSE "provided")

PartBacked(c, value, request, input, given) ==
    \/ value = None
    \/ Quotable(PathOf[c], value, request)
    \/ "geometry" \in DOMAIN given /\ ValueOf(given["geometry"])[c] = value
    \/ c = "dimensionality" /\ input = [kind |-> "polymesh", empty |-> TRUE]
    \/ c = "roles" /\ value = "malformed"

FactBacked(path, f, request, input, given) ==
    /\ Backed(path, f.value, request, input, given)
    /\ path = "geometry" =>
          /\ IsGeometry(f.value)
          /\ \A c \in Components : PartBacked(c, ValueOf(f.value)[c], request, input, given)
    /\ path = "mesh" => f.value # None

AllBacked(facts, request, input, given) ==
    \A p \in DOMAIN facts : IsAuthority(facts[p]) => FactBacked(p, facts[p], request, input, given)

DraftBacked(d, given) ==
    /\ AllBacked(d.facts, d.request, d.input, given)
    /\ OfCommand(d) =>
          /\ d.reply \in Replies /\ d.request \in Requests /\ d.input \in Inputs
          /\ d = Drafted(d.reply, d.request, d.input)

BuilderInv ==
    /\ DraftBacked(draft, answers)
    /\ job = "compile" => Issues(draft.facts, draft.asks, draft.input) = {}
    /\ job = "draft" => saved.request \in Requests /\ saved.input \in Inputs
    /\ NothingIsInvented
    /\ ContradictionBlocks
    /\ StrategyBlocks

-------------------------------------------------------------------------------

Below == {p \in Nat \X Nat : p[1] < p[2]}

\* A set of numbers that is not empty has a least one.
LEMMA Least ==
    ASSUME NEW T \in SUBSET Nat, T # {}
    PROVE  \E m \in T : \A n \in T : m <= n
<1>1. IsWellFoundedOn(Below, Nat)
    BY NatLessThanWellFounded DEF Below, OpToRel
<1>2. PICK x \in T : \A y \in T : ~(<<y, x>> \in Below)
    BY <1>1, WFMin
<1>3. \A y \in T : ~(y < x)
    BY <1>2 DEF Below
<1> QED BY <1>3

\* What a repeat collapses to is one of the repeats.
LEMMA OneOfTheSame ==
    ASSUME NEW same, same # {}, \A f \in same : IsFiniteSet(f.evidence)
    PROVE  (CHOOSE f \in same : \A g \in same : Cardinality(f.evidence) <= Cardinality(g.evidence)) \in same
<1> DEFINE T == {Cardinality(f.evidence) : f \in same}
<1>1. T \in SUBSET Nat /\ T # {}
    BY FS_CardinalityType
<1>2. \E m \in T : \A n \in T : m <= n
    <2> HIDE DEF T
    <2> QED BY <1>1, Least
<1>3. \E f \in same : \A g \in same : Cardinality(f.evidence) <= Cardinality(g.evidence)
    BY <1>2
<1> QED BY <1>3

\* The only fact of its kind is kept as it is.
LEMMA SingleOfOne ==
    ASSUME NEW f, IsFiniteSet(f.evidence)
    PROVE  Single({f}) = f
<1>1. Cardinality(f.evidence) <= Cardinality(f.evidence)
    BY FS_CardinalityType
<1>2. (CHOOSE h \in {f} : \A g \in {f} : Cardinality(h.evidence) <= Cardinality(g.evidence)) = f
    BY OneOfTheSame
<1> QED BY <1>2 DEF Single

\* authority.py: what the normalisation takes for the user's words is quoted
\* from them.
LEMMA ExtractedBacked ==
    ASSUME NEW reply \in Replies, NEW request \in Requests, NEW input, NEW given
    PROVE  AllBacked(Extracted(reply, request), request, input, given)
<1> DEFINE facts == Extracted(reply, request)
<1> SUFFICES ASSUME NEW p \in DOMAIN facts, IsAuthority(facts[p])
             PROVE  FactBacked(p, facts[p], request, input, given)
    BY DEF AllBacked
<1>1. p \in DOMAIN reply.facts /\ reply.facts[p] # {}
    BY DEF Extracted
<1> DEFINE same == reply.facts[p]
           f == Single(same)
           one == CHOOSE g \in same : \A h \in same : Cardinality(g.evidence) <= Cardinality(h.evidence)
<1>2. facts[p] = Reconciled(p, f, request)
    BY <1>1 DEF Extracted
<1>3. \A g \in same : IsExtract(p, g)
    BY <1>1, TaskBuilderAssumption
<1>4. one \in same
    BY <1>1, <1>3, OneOfTheSame DEF IsExtract
<1>5. facts[p].source \in {"user_text", "model_inference"}
    BY <1>2 DEF Reconciled, SourceOf
<1>6. facts[p].source = "user_text" /\ f.source = "user_text" /\ f.evidence \in request
    BY <1>2, <1>5 DEF IsAuthority, Reconciled, SourceOf
<1>7. facts[p].value = f.value /\ Supported(p, f.value, f.evidence)
    BY <1>2, <1>6 DEF IsAuthority, Reconciled, SourceOf
<1>8. IsExtract(p, f)
    <2>1. CASE \A g, h \in same : <<g.value, g.source, g.impact>> = <<h.value, h.source, h.impact>>
        BY <1>3, <1>4, <2>1 DEF Single
    <2>2. CASE ~(\A g, h \in same : <<g.value, g.source, g.impact>> = <<h.value, h.source, h.impact>>)
        <3>1. f = [one EXCEPT !.source = "model_inference", !.evidence = {}, !.confirmed = FALSE]
            BY <2>2 DEF Single
        <3>2. IsExtract(p, one)
            BY <1>3, <1>4
        <3>3. f.source = "model_inference"
            BY <3>1, <3>2 DEF IsExtract
        <3> QED BY <1>6, <3>3
    <2> QED BY <2>1, <2>2
<1>9. Backed(p, facts[p].value, request, input, given)
    BY <1>6, <1>7 DEF Backed, Quotable
<1>10. ASSUME p = "geometry"
       PROVE  /\ IsGeometry(f.value)
              /\ \A c \in Components : PartBacked(c, ValueOf(f.value)[c], request, input, given)
    <2> DEFINE g == f.value
    <2>1. IsGeometry(g)
        BY <1>8, <1>10 DEF IsExtract
    <2>2. PartsOf(g) \subseteq f.evidence
        BY <1>7, <1>10 DEF Supported
    <2>3. \A v \in {g.unit, g.dim, g.roles} : v \in {None, "malformed"} \/ v \in f.evidence
        BY <2>2 DEF PartsOf
    <2> SUFFICES ASSUME NEW c \in Components
                 PROVE  PartBacked(c, ValueOf(g)[c], request, input, given)
        BY <2>1
    <2> DEFINE v == ValueOf(g)[c]
    <2>4. /\ c \in {"length_unit", "dimensionality", "roles"}
          /\ v \in {g.unit, g.dim, g.roles}
          /\ c # "roles" => v \in {g.unit, g.dim}
        BY DEF Components, ValueOf
    <2>5. v = "malformed" => c = "roles"
        BY <2>1, <2>4 DEF IsGeometry
    <2>6. PathOf[c] # "geometry"
        BY DEF Components, PathOf
    <2>7. v \in f.evidence => Quotable(PathOf[c], v, request)
        BY <1>6, <2>6 DEF Quotable, Supported
    <2> QED BY <2>3, <2>4, <2>5, <2>7 DEF PartBacked
<1>11. p = "mesh" => f.value # None
    BY <1>8 DEF IsExtract
<1> QED BY <1>7, <1>9, <1>10, <1>11 DEF FactBacked

\* Two sheets of facts that are backed are backed together.
LEMMA JoinBacked ==
    ASSUME NEW f, NEW g, NEW request, NEW input, NEW given,
           AllBacked(f, request, input, given), AllBacked(g, request, input, given)
    PROVE  AllBacked(Join(f, g), request, input, given)
BY DEF AllBacked, Join

\* Facts that are left out leave the others as they were.
LEMMA KeptBacked ==
    ASSUME NEW f, NEW gone, NEW request, NEW input, NEW given,
           AllBacked(f, request, input, given)
    PROVE  AllBacked(Kept(f, gone), request, input, given)
BY DEF AllBacked, Kept

\* A sheet of one fact.
LEMMA OneBacked ==
    ASSUME NEW path, NEW f, NEW request, NEW input, NEW given,
           FactBacked(path, f, request, input, given)
    PROVE  AllBacked(One(path, f), request, input, given)
BY DEF AllBacked, One

\* The empty sheet.
LEMMA NoneBacked ==
    ASSUME NEW request, NEW input, NEW given
    PROVE  AllBacked(<<>>, request, input, given)
BY DEF AllBacked

\* What is taken out of a quoted geometry is quoted.
LEMMA TakenBacked ==
    ASSUME NEW facts, NEW value, NEW request, NEW input, NEW given, NEW path,
           Says(facts, request, value), path \notin {"geometry", "mesh"}
    PROVE  FactBacked(path, FromGeometry(facts, value), request, input, given)
BY DEF FactBacked, FromGeometry, Fact, Says, Quoted, Backed, Quotable, Supported

\* provided_mesh.py: the geometry of a mesh that was provided says what its
\* files say.
LEMMA MeshGeometryBacked ==
    ASSUME NEW request, NEW input \in Inputs, NEW given, input.kind = "polymesh"
    PROVE  FactBacked("geometry", AssetFact(MeshGeometry(input.empty)), request, input, given)
<1> DEFINE g == MeshGeometry(input.empty)
<1>1. /\ input = [kind |-> "polymesh", empty |-> input.empty]
      /\ input.empty \in BOOLEAN
    BY TaskBuilderAssumption
<1>2. /\ g = [mode |-> "openfoam_mesh", unit |-> None,
              dim |-> IF input.empty THEN "two_d" ELSE None, roles |-> None,
              asset |-> "openfoam_mesh"]
    BY DEF MeshGeometry, AssetGeometry
<1>3. g.mode \in Declared(input)
    BY <1>2 DEF Declared
<1>4. IsGeometry(g)
    BY <1>1, <1>2 DEF IsGeometry, None
<1>5. \A c \in Components : PartBacked(c, ValueOf(g)[c], request, input, given)
    BY <1>1, <1>2 DEF Components, ValueOf, PartBacked
<1> QED BY <1>3, <1>4, <1>5 DEF FactBacked, Backed, AssetFact, Fact

\* The geometry of a public asset names nothing the user did not.
LEMMA AssetGeometryBacked ==
    ASSUME NEW request, NEW input, NEW given, Recognized(input)
    PROVE  FactBacked("geometry", AssetFact(AssetGeometry(input.kind, None)), request, input, given)
<1> DEFINE g == AssetGeometry(input.kind, None)
<1>1. g = [mode |-> input.kind, unit |-> None, dim |-> None, roles |-> None, asset |-> input.kind]
    BY DEF AssetGeometry
<1>2. g.mode \in Declared(input)
    BY <1>1 DEF Declared, Recognized
<1>3. IsGeometry(g)
    BY <1>1 DEF IsGeometry, None
<1>4. \A c \in Components : PartBacked(c, ValueOf(g)[c], request, input, given)
    <2> HIDE DEF g
    <2> QED BY <1>1 DEF Components, ValueOf, PartBacked
<1> QED BY <1>2, <1>3, <1>4 DEF FactBacked, Backed, AssetFact, Fact

\* provided_mesh.py: the facts of a provided mesh are backed.
LEMMA ProvidedBacked ==
    ASSUME NEW facts, NEW request, NEW input \in Inputs, NEW given, input.kind = "polymesh",
           AllBacked(facts, request, input, given)
    PROVE  AllBacked(ProvidedFacts(facts, request, input.empty), request, input, given)
<1> DEFINE Good(f) == AllBacked(f, request, input, given)
<1>1. \A gone : Good(Kept(facts, gone))
    BY KeptBacked
<1>2. Good(UnitFact(facts, request))
    <2>1. InnerUnit(facts, request) # None =>
            Good(One("geometry.length_unit", FromGeometry(facts, InnerUnit(facts, request))))
        BY TakenBacked, OneBacked DEF InnerUnit
    <2> QED BY <1>1, <2>1, NoneBacked DEF UnitFact, FirstUnit
<1>3. Good(DimFact(facts, request))
    BY TakenBacked, OneBacked, NoneBacked DEF DimFact
<1>4. Good(RolesFact(facts, request))
    BY TakenBacked, OneBacked, NoneBacked DEF RolesFact
<1>5. Good(One("geometry", AssetFact(MeshGeometry(input.empty))))
    BY MeshGeometryBacked, OneBacked
<1>6. Good(One("mesh", AssetFact("provided")))
    <2>1. FactBacked("mesh", AssetFact("provided"), request, input, given)
        BY DEF FactBacked, AssetFact, Fact, Backed, None
    <2> QED BY <2>1, OneBacked
<1> HIDE DEF Good
<1>7. \A f, g : Good(f) /\ Good(g) => Good(Join(f, g))
    BY JoinBacked DEF Good
<1>8. Good(ProvidedFacts(facts, request, input.empty))
    BY <1>1, <1>2, <1>3, <1>4, <1>5, <1>6, <1>7 DEF ProvidedFacts
<1> QED BY <1>8 DEF Good

\* public_asset.py: the facts of a public geometry are backed.
LEMMA PublicBacked ==
    ASSUME NEW facts, NEW request, NEW input, NEW given, Recognized(input),
           AllBacked(facts, request, input, given)
    PROVE  AllBacked(PublicFacts(facts, request, input.kind), request, input, given)
<1> DEFINE inner == ValueOf(Previous(facts))
           taken == {c \in Components : Says(facts, request, inner[c])}
           components == [p \in {PathOf[c] : c \in taken} |->
                            FromGeometry(facts, inner[CHOOSE c \in taken : PathOf[c] = p])]
           minted == One("geometry", AssetFact(AssetGeometry(input.kind, None)))
<1>1. AllBacked(components, request, input, given)
    <2> SUFFICES ASSUME NEW c \in taken
                 PROVE  FactBacked(PathOf[c], components[PathOf[c]], request, input, given)
        BY DEF AllBacked
    <2> DEFINE d == CHOOSE e \in taken : PathOf[e] = PathOf[c]
    <2>1. d \in taken /\ PathOf[d] = PathOf[c]
        OBVIOUS
    <2>2. PathOf[c] \notin {"geometry", "mesh"}
        BY DEF PathOf, Components
    <2>3. components[PathOf[c]] = FromGeometry(facts, inner[d])
        OBVIOUS
    <2>4. Says(facts, request, inner[d])
        BY <2>1
    <2> HIDE DEF d, components, inner
    <2> QED BY <2>2, <2>3, <2>4, TakenBacked
<1>2. AllBacked(minted, request, input, given)
    BY AssetGeometryBacked, OneBacked
<1>3. PublicFacts(facts, request, input.kind) = Join(Join(facts, components), minted)
    BY DEF PublicFacts
<1> HIDE DEF components, minted
<1> QED BY <1>1, <1>2, <1>3, JoinBacked

\* public_asset.py: the facts of a public mesh are backed.
LEMMA PublicMeshBacked ==
    ASSUME NEW facts, NEW minted, NEW request, NEW input, NEW given, Recognized(input),
           AllBacked(minted, request, input, given)
    PROVE  AllBacked(PublicMesh(facts, minted, input.kind), request, input, given)
<1>1. input.kind = "gmsh" => FactBacked("mesh", AssetFact("gmsh"), request, input, given)
    BY DEF FactBacked, AssetFact, Fact, Backed, None
<1>2. input.kind = "gmsh" => AllBacked(One("mesh", AssetFact("gmsh")), request, input, given)
    BY <1>1, OneBacked
<1> QED BY <1>2, JoinBacked, KeptBacked DEF PublicMesh

\* Whatever the model replies, the draft made of it is backed.
LEMMA DraftedBacked ==
    ASSUME NEW reply \in Replies, NEW request \in Requests, NEW input \in Inputs, NEW given
    PROVE  DraftBacked(Drafted(reply, request, input), given)
<1> DEFINE extracted == Extracted(reply, request)
           d == Drafted(reply, request, input)
<1>1. AllBacked(extracted, request, input, given)
    BY ExtractedBacked
<1>2. AllBacked(DraftFacts(extracted, request, input), request, input, given)
    <2> HIDE DEF extracted
    <2>1. CASE input.kind = "polymesh"
        BY <1>1, <2>1, ProvidedBacked DEF DraftFacts
    <2>2. CASE input.kind # "polymesh" /\ Recognized(input)
        BY <1>1, <2>2, PublicBacked, PublicMeshBacked DEF DraftFacts
    <2>3. CASE input.kind # "polymesh" /\ ~Recognized(input)
        BY <1>1, <2>3 DEF DraftFacts
    <2> QED BY <2>1, <2>2, <2>3
<1>3. /\ d.facts = DraftFacts(extracted, request, input)
      /\ d.request = request /\ d.input = input /\ d.reply = reply
    BY DEF Drafted
<1> HIDE DEF d, extracted
<1>4. d = Drafted(d.reply, d.request, d.input)
    BY <1>3 DEF d
<1> QED BY <1>2, <1>3, <1>4 DEF DraftBacked

\* confirm_task_draft: the answers that are applied are the user's own.
LEMMA AnsweredBacked ==
    ASSUME NEW d, NEW given, NEW sheet \in Sheets, DraftBacked(d, given), ~OfCommand(d)
    PROVE  DraftBacked(Answered(d, sheet), Join(given, [p \in Paths(d) |-> sheet[p]]))
<1> DEFINE after == Join(given, [p \in Paths(d) |-> sheet[p]])
           own == [p \in Paths(d) |-> Fact(sheet[p], "user_confirmation", {})]
           e == Answered(d, sheet)
<1>1. \A p \in Paths(d) : p \in DOMAIN after /\ after[p] = sheet[p]
    BY DEF Join
<1>2. \A p \in DOMAIN given \ Paths(d) : p \in DOMAIN after /\ after[p] = given[p]
    BY DEF Join
<1>3. /\ e.facts = Join(d.facts, own) /\ e.request = d.request /\ e.input = d.input
    BY DEF Answered
<1> HIDE DEF after, e
<1>4. ASSUME NEW p \in DOMAIN e.facts, IsAuthority(e.facts[p])
      PROVE  FactBacked(p, e.facts[p], e.request, e.input, after)
    <2>1. CASE p \in Paths(d)
        <3>1. e.facts[p] = Fact(sheet[p], "user_confirmation", {})
            BY <1>3, <2>1 DEF Join
        <3>2. e.facts[p].value = sheet[p]
            BY <3>1 DEF Fact
        <3>3. Backed(p, sheet[p], e.request, e.input, after)
            BY <1>1, <2>1 DEF Backed
        <3>4. p = "geometry" => IsGeometry(sheet[p])
            BY TaskBuilderAssumption
        <3>5. p = "geometry" =>
                \A c \in Components : PartBacked(c, ValueOf(sheet[p])[c], e.request, e.input, after)
            BY <1>1, <2>1 DEF PartBacked
        <3>6. p = "mesh" => sheet[p] # None
            BY TaskBuilderAssumption
        <3> QED BY <3>2, <3>3, <3>4, <3>5, <3>6 DEF FactBacked
    <2>2. CASE p \notin Paths(d)
        <3>1. p \in DOMAIN d.facts /\ e.facts[p] = d.facts[p]
            BY <1>3, <1>4, <2>2 DEF Join
        <3>2. FactBacked(p, d.facts[p], d.request, d.input, given)
            BY <1>4, <3>1 DEF DraftBacked, AllBacked
        <3>3. Backed(p, d.facts[p].value, d.request, d.input, after)
            BY <1>2, <2>2, <3>2 DEF FactBacked, Backed
        <3>4. p = "geometry" =>
                \A c \in Components : PartBacked(c, ValueOf(d.facts[p].value)[c], d.request, d.input, after)
            BY <1>2, <2>2, <3>2 DEF FactBacked, PartBacked
        <3> QED BY <1>3, <3>1, <3>2, <3>3, <3>4 DEF FactBacked
    <2> QED BY <2>1, <2>2
<1>5. AllBacked(e.facts, e.request, e.input, after)
    BY <1>4 DEF AllBacked
<1>6. ~OfCommand(e)
    BY <1>3 DEF OfCommand
<1>7. DraftBacked(e, after)
    BY <1>5, <1>6 DEF DraftBacked
<1> QED BY <1>7 DEF e, after

\* The geometry of a task: a component of its own replaces the one in the geometry.
LEMMA CompiledBacked ==
    ASSUME NEW d, DraftBacked(d, answers), Accepts(d.facts, d.input)
    PROVE  LET t == Compiled(d)
           IN /\ \A p \in DOMAIN t.facts : HasAuthority(p, t.facts[p].value, t)
              /\ \A c \in Components :
                    LET v == ValueOf(t.geometry)[c]
                    IN \/ v = None
                       \/ HasAuthority(PathOf[c], v, t)
                       \/ \E p \in {"geometry"} \cap DOMAIN t.answers : ValueOf(t.answers[p])[c] = v
                       \/ c = "dimensionality" /\ t.of.input = [kind |-> "polymesh", empty |-> TRUE]
<1> DEFINE t == Compiled(d)
           facts == d.facts
           g == Effective(facts)
<1>1. /\ t.geometry = g /\ t.of = d /\ t.answers = answers
      /\ t.facts = Kept(facts, DOMAIN facts \ Authoritative(facts))
    BY DEF Compiled
<1> HIDE DEF t
<1>2. \A p \in Authoritative(facts) : FactBacked(p, facts[p], d.request, d.input, answers)
    BY DEF DraftBacked, AllBacked, Authoritative, IsAuthority
<1>3. \A p, v : Backed(p, v, d.request, d.input, answers) => HasAuthority(p, v, t)
    BY <1>1 DEF Backed, HasAuthority
<1>4. \A p \in DOMAIN t.facts : p \in Authoritative(facts) /\ t.facts[p] = facts[p]
    BY <1>1 DEF Kept
<1>5. \A p \in DOMAIN t.facts : HasAuthority(p, t.facts[p].value, t)
    BY <1>2, <1>3, <1>4 DEF FactBacked
<1>6. ASSUME NEW c \in Components
      PROVE  LET v == ValueOf(t.geometry)[c]
             IN \/ v = None
                \/ HasAuthority(PathOf[c], v, t)
                \/ \E p \in {"geometry"} \cap DOMAIN t.answers : ValueOf(t.answers[p])[c] = v
                \/ c = "dimensionality" /\ t.of.input = [kind |-> "polymesh", empty |-> TRUE]
    <2> DEFINE v == ValueOf(g)[c]
    <2>1. CASE "geometry" \notin Authoritative(facts)
        BY <1>1, <2>1 DEF Effective, NoGeometry, ValueOf, Components
    <2>2. CASE "geometry" \in Authoritative(facts) /\ PathOf[c] \in Authoritative(facts)
        <3>1. v = facts[PathOf[c]].value
            BY <2>2 DEF Effective, ValueOf, PathOf, Components
        <3> QED BY <1>1, <1>2, <1>3, <2>2, <3>1 DEF FactBacked
    <2>3. CASE "geometry" \in Authoritative(facts) /\ PathOf[c] \notin Authoritative(facts)
        <3>1. v = ValueOf(facts["geometry"].value)[c]
            BY <2>3 DEF Effective, ValueOf, PathOf, Components
        <3>2. PartBacked(c, v, d.request, d.input, answers)
            BY <1>2, <2>3, <3>1 DEF FactBacked
        <3>3. g.roles # "malformed"
            BY DEF Accepts, WellFormed
        <3>4. c = "roles" => v = g.roles
            BY DEF ValueOf
        <3>5. Quotable(PathOf[c], v, d.request) => HasAuthority(PathOf[c], v, t)
            BY <1>1 DEF HasAuthority
        <3> HIDE DEF v, g
        <3>6. \/ v = None
              \/ HasAuthority(PathOf[c], v, t)
              \/ "geometry" \in DOMAIN answers /\ ValueOf(answers["geometry"])[c] = v
              \/ c = "dimensionality" /\ d.input = [kind |-> "polymesh", empty |-> TRUE]
            BY <3>2, <3>3, <3>4, <3>5 DEF PartBacked
        <3> QED BY <1>1, <3>6 DEF v, g
    <2> QED BY <2>1, <2>2, <2>3
<1> QED BY <1>5, <1>6 DEF t

\* Without an issue nothing is asked, and geometry and unit are known.
LEMMA NothingAsked ==
    ASSUME NEW facts, NEW asks, NEW input, Issues(facts, asks, input) = {}
    PROVE  /\ Effective(facts) # NoGeometry
           /\ Effective(facts).unit # None
           /\ asks = {}
<1> DEFINE g == Effective(facts)
<1>1. IssuesOfFacts(facts, asks, input) = {}
    BY DEF Issues
<1>2. g # NoGeometry /\ g.unit # None
    BY <1>1 DEF IssuesOfFacts, Only
<1>3. asks = {}
    BY <1>2 DEF Issues
<1> QED BY <1>2, <1>3

\* A draft without an issue compiles, or fails only over the processors it asks
\* for.
LEMMA ReviewLemma ==
    ASSUME NEW d, NEW given, DraftBacked(d, given), Issues(d.facts, d.asks, d.input) = {}
    PROVE  \/ Accepts(d.facts, d.input)
           \/ /\ "resources" \in Authoritative(d.facts)
              /\ d.facts["resources"].value # "2"
<1> DEFINE facts == d.facts
           g == Effective(facts)
           mesh == IF "mesh" \in Authoritative(facts) THEN facts["mesh"].value ELSE None
<1>1. IssuesOfFacts(facts, d.asks, d.input) = {}
    BY DEF Issues
<1>2. g # NoGeometry /\ g.unit # None
    BY <1>1 DEF IssuesOfFacts, Only
<1>3. "mesh" \in Authoritative(facts) => mesh # None
    BY DEF DraftBacked, AllBacked, Authoritative, IsAuthority, FactBacked
<1>4. /\ WellFormed(g)
      /\ ~(g.mode = "openfoam_mesh" /\ mesh = None)
      /\ mesh # None => Compatible(g.mode, mesh)
      /\ mesh = "provided" => d.input.kind = "polymesh"
      /\ ~Undeclared(g, d.input)
    BY <1>1, <1>2 DEF IssuesOfFacts, Only
<1>5. Compatible(g.mode, IF "mesh" \in Authoritative(facts) THEN facts["mesh"].value ELSE "auto")
    BY <1>3, <1>4 DEF Compatible
<1> QED BY <1>2, <1>4, <1>5 DEF Accepts

\* The one fact that the model gives of a path is what is extracted.
LEMMA ToldIsExtracted ==
    ASSUME NEW t, NEW path, NEW f \in Told(t, path), t.of.reply \in Replies,
           path \in DOMAIN t.of.reply.facts
    PROVE  /\ path \in DOMAIN Extracted(t.of.reply, t.of.request)
           /\ Extracted(t.of.reply, t.of.request)[path] = Reconciled(path, f, t.of.request)
           /\ t.of.reply.facts[path] = {f}
<1>1. t.of.reply.facts[path] = {f}
    BY DEF Told
<1>2. Single({f}) = f
    BY <1>1, SingleOfOne, TaskBuilderAssumption DEF IsExtract
<1> QED BY <1>1, <1>2 DEF Extracted

\* provided_mesh.py: when nothing is asked, what the user said of the mesh
\* agrees with itself.
LEMMA ContradictionAsks ==
    ASSUME NEW t, NEW reply \in Replies, NEW request \in Requests, NEW input \in Inputs,
           input.kind = "polymesh",
           t.of.reply = reply, t.of.request = request, t.of.input = input,
           \A q \in ProvidedAsks(Extracted(reply, request), request, input.empty) : ~q.conflict
    PROVE  LET described == Told(t, "geometry")
               own == {f \in Told(t, "geometry.length_unit") : f.source = "user_text"}
               units == {f.value : f \in {g \in own : g.value \in g.evidence}}
                        \cup {f.value.unit : f \in {g \in described : g.value.unit \in g.evidence}}
               dims == {f.value.dim : f \in {g \in described : g.value.dim \in g.evidence}}
           IN /\ \A u, v \in units : u = v
              /\ input.empty => dims \subseteq {"two_d"}
              /\ \A f \in described : f.value.roles \in {None, "known"}
<1> DEFINE facts == Extracted(reply, request)
           described == Told(t, "geometry")
           own == {f \in Told(t, "geometry.length_unit") : f.source = "user_text"}
<1>1. /\ ~WrongRoles(facts, request)
      /\ ~UnitConflict(facts, request)
      /\ LET dim == IF Says(facts, request, Previous(facts).dim) THEN Previous(facts).dim ELSE None
         IN ~(input.empty /\ dim \notin {None, "two_d"})
    <2> HIDE DEF facts
    <2>1. \A path : Question(path, TRUE).conflict
        BY DEF Question
    <2>2. \A q \in ProvidedAsks(facts, request, input.empty) : ~q.conflict
        BY DEF facts
    <2>3. ~WrongRoles(facts, request)
        BY <2>1, <2>2 DEF ProvidedAsks, Only
    <2>4. ~UnitConflict(facts, request)
        BY <2>1, <2>2 DEF ProvidedAsks, Only
    <2> QED BY <2>1, <2>2, <2>3, <2>4 DEF ProvidedAsks, Only
<1>2. {"geometry", "geometry.length_unit"} \subseteq DOMAIN reply.facts
    BY TaskBuilderAssumption
<1>3. \A phrase \in request : None \notin phrase
    BY TaskBuilderAssumption
<1>4. ASSUME NEW f \in described
      PROVE  /\ Previous(facts) = f.value
             /\ f.evidence \in request
             /\ \A v : Says(facts, request, v) <=> v # None /\ v \in f.evidence
             /\ Quoted(facts, request)
    <2>1. "geometry" \in DOMAIN facts /\ facts["geometry"] = Reconciled("geometry", f, request)
        BY <1>2, ToldIsExtracted
    <2>2. facts["geometry"].value = f.value /\ facts["geometry"].evidence = f.evidence
        BY <2>1 DEF Reconciled
    <2>3. f.evidence \in request
        BY DEF Told
    <2> HIDE DEF facts
    <2> QED BY <2>1, <2>2, <2>3 DEF Previous, Has, Says, Quoted
<1>5. ASSUME NEW f \in own, f.value \in f.evidence
      PROVE  OwnUnit(facts) = f.value /\ f.value # None
    <2> DEFINE path == "geometry.length_unit"
    <2>1. path \in DOMAIN facts /\ facts[path] = Reconciled(path, f, request)
        BY <1>2, ToldIsExtracted
    <2>2. f.evidence \in request /\ f.source = "user_text"
        BY DEF Told
    <2>3. /\ facts[path].source = "user_text" /\ facts[path].value = f.value
          /\ facts[path].confirmed = Supported(path, f.value, f.evidence)
        BY <2>1, <2>2 DEF Reconciled, SourceOf
    <2>4. Supported(path, f.value, f.evidence)
        BY <1>5 DEF Supported
    <2>5. path \in Authoritative(facts)
        BY <2>1, <2>3, <2>4 DEF Authoritative
    <2> HIDE DEF facts
    <2> QED BY <1>3, <1>5, <2>1, <2>2, <2>3, <2>5 DEF OwnUnit, Has
<1>6. ASSUME NEW f \in described, f.value.unit \in f.evidence
      PROVE  InnerUnit(facts, request) = f.value.unit /\ f.value.unit # None
    BY <1>3, <1>4, <1>6 DEF InnerUnit
<1>7. \A f, g \in own : f = g
    BY DEF Told
<1>8. \A f, g \in described : f = g
    BY DEF Told
<1>9. ASSUME NEW f \in described
      PROVE  f.value.roles \in {None, "known"}
    BY <1>1, <1>4 DEF WrongRoles, RolesFact
<1>10. ASSUME NEW f \in described, f.value.dim \in f.evidence, input.empty
       PROVE  f.value.dim = "two_d"
    BY <1>1, <1>3, <1>4, <1>10
<1>11. ASSUME NEW f \in own, f.value \in f.evidence, NEW g \in described, g.value.unit \in g.evidence
       PROVE  f.value = g.value.unit
    <2>1. OwnUnit(facts) = f.value /\ f.value # None
        BY <1>5, <1>11
    <2>2. InnerUnit(facts, request) = g.value.unit /\ g.value.unit # None
        BY <1>6, <1>11
    <2> HIDE DEF facts
    <2> QED BY <1>1, <2>1, <2>2 DEF UnitConflict
<1> HIDE DEF facts, described, own
<1> QED BY <1>7, <1>8, <1>9, <1>10, <1>11 DEF described, own

\* A draft without an issue contradicts nothing the user said of the mesh.
LEMMA ContradictionLemma ==
    ASSUME NEW d, NEW given, NEW t, DraftBacked(d, given), Issues(d.facts, d.asks, d.input) = {},
           t.of = d, d.input.kind = "polymesh"
    PROVE  LET described == Told(t, "geometry")
               own == {f \in Told(t, "geometry.length_unit") : f.source = "user_text"}
               units == {f.value : f \in {g \in own : g.value \in g.evidence}}
                        \cup {f.value.unit : f \in {g \in described : g.value.unit \in g.evidence}}
               dims == {f.value.dim : f \in {g \in described : g.value.dim \in g.evidence}}
           IN /\ \A u, v \in units : u = v
              /\ d.input.empty => dims \subseteq {"two_d"}
              /\ \A f \in described : f.value.roles \in {None, "known"}
<1>1. /\ d.reply \in Replies /\ d.request \in Requests /\ d.input \in Inputs
      /\ d = Drafted(d.reply, d.request, d.input)
    BY DEF DraftBacked, OfCommand
<1> DEFINE extracted == Extracted(d.reply, d.request)
           asks == ProvidedAsks(extracted, d.request, d.input.empty)
<1>2. d.asks = Rebuilt(d.facts, asks, d.input)
    <2> PICK reply, request, input : reply = d.reply /\ request = d.request /\ input = d.input
        OBVIOUS
    <2>1. d = Drafted(reply, request, input) /\ input.kind = "polymesh"
        BY <1>1
    <2>2. d.facts = DraftFacts(Extracted(reply, request), request, input)
        BY <2>1 DEF Drafted
    <2>3. d.asks = Rebuilt(d.facts, ProvidedAsks(Extracted(reply, request), request, input.empty), input)
        BY <2>1, <2>2 DEF Drafted, DraftAsks
    <2> QED BY <2>3
<1>3. Effective(d.facts) # NoGeometry /\ d.asks = {}
    BY NothingAsked
<1>4. {q \in asks : q.conflict} = {}
    <2> HIDE DEF asks
    <2> QED BY <1>2, <1>3 DEF Rebuilt
<1> HIDE DEF asks
<1>5. \A q \in asks : ~q.conflict
    BY <1>4
<1> QED
    <2> PICK reply, request, input : reply = d.reply /\ request = d.request /\ input = d.input
        OBVIOUS
    <2>1. \A q \in ProvidedAsks(Extracted(reply, request), request, input.empty) : ~q.conflict
        BY <1>5 DEF asks
    <2>2. /\ reply \in Replies /\ request \in Requests /\ input \in Inputs
          /\ input.kind = "polymesh"
          /\ t.of.reply = reply /\ t.of.request = request /\ t.of.input = input
        BY <1>1
    <2> QED BY <2>1, <2>2, ContradictionAsks

\* public_geometry.py: when nothing is asked, a strategy that the user stated is one
\* that the file allows.
LEMMA StrategyLemma ==
    ASSUME NEW d, NEW given, NEW t, DraftBacked(d, given), Issues(d.facts, d.asks, d.input) = {},
           t.of = d, Recognized(d.input), NEW f \in Told(t, "mesh"),
           f.source = "user_text", f.value \in f.evidence
    PROVE  f.value \in {"auto", "gmsh"} \cup
              IF d.input.kind = "surface" THEN {"snappyHexMesh"} ELSE {}
<1> PICK reply, request, input : reply = d.reply /\ request = d.request /\ input = d.input
    OBVIOUS
<1> DEFINE extracted == Extracted(reply, request)
           asks == PublicAsks(extracted, request, input.kind)
<1>1. /\ reply \in Replies /\ request \in Requests
      /\ d = Drafted(reply, request, input) /\ input.kind \in {"surface", "gmsh"}
    BY DEF DraftBacked, OfCommand, Recognized
<1>2. d.asks = Rebuilt(d.facts, asks, input)
    <2>1. d.facts = DraftFacts(Extracted(reply, request), request, input)
        BY <1>1 DEF Drafted
    <2> QED BY <1>1, <2>1 DEF Drafted, DraftAsks, Recognized
<1>3. Effective(d.facts) # NoGeometry /\ d.asks = {}
    BY NothingAsked
<1>4. {q \in asks : q.conflict} = {}
    <2> HIDE DEF asks
    <2> QED BY <1>2, <1>3 DEF Rebuilt
<1>5. ~MeshConflict(extracted, input.kind)
    <2> HIDE DEF extracted
    <2>1. Question("mesh", TRUE).conflict
        BY DEF Question
    <2> QED BY <1>4, <2>1 DEF PublicAsks, Only
<1>6. "mesh" \in DOMAIN extracted /\ extracted["mesh"] = Reconciled("mesh", f, request)
    <2>1. "mesh" \in DOMAIN t.of.reply.facts
        BY <1>1, TaskBuilderAssumption
    <2> QED BY <1>1, <2>1, ToldIsExtracted
<1>7. f.evidence \in request /\ f.value # None
    BY <1>1, TaskBuilderAssumption DEF Told
<1>8. /\ extracted["mesh"].value = f.value /\ extracted["mesh"].source = "user_text"
      /\ extracted["mesh"].confirmed = TRUE
    <2> HIDE DEF extracted
    <2>1. SourceOf(f, request) = "user_text"
        BY <1>7 DEF SourceOf
    <2>2. Supported("mesh", f.value, f.evidence) = TRUE
        BY DEF Supported
    <2> QED BY <1>6, <2>1, <2>2 DEF Reconciled
<1>9. OwnMesh(extracted) = f.value
    <2> HIDE DEF extracted
    <2> QED BY <1>6, <1>8 DEF OwnMesh, Authoritative
<1> HIDE DEF extracted
<1> QED BY <1>5, <1>7, <1>9 DEF MeshConflict

\* BuilderInv holds in every state: every fact with authority is backed by the
\* user's
\* words, by an answer or by the asset, in the draft and in what is compiled.
THEOREM TaskBuilderInvariant == BuilderSpec => []BuilderInv
<1>1. BuilderInit => BuilderInv
    <2> SUFFICES ASSUME BuilderInit PROVE BuilderInv
        OBVIOUS
    <2>1. DraftBacked(draft, answers)
        BY DEF BuilderInit, DraftBacked, AllBacked, NoDraft, NoInput, OfCommand
    <2> QED BY <2>1 DEF BuilderInit, BuilderInv, NothingIsInvented, ContradictionBlocks,
           StrategyBlocks
<1>2. BuilderInv /\ [BuilderNext]_builderVars => BuilderInv'
    <2> SUFFICES ASSUME BuilderInv, [BuilderNext]_builderVars PROVE BuilderInv'
        OBVIOUS
    <2>1. ASSUME UNCHANGED <<draft, answers, task>>,
                 job' = "compile" => Issues(draft.facts, draft.asks, draft.input) = {},
                 job' = "draft" => saved'.request \in Requests /\ saved'.input \in Inputs
          PROVE  BuilderInv'
        <3>1. DraftBacked(draft, answers)'
            BY <2>1 DEF BuilderInv
        <3>2. (NothingIsInvented /\ ContradictionBlocks /\ StrategyBlocks)'
            BY <2>1 DEF BuilderInv, NothingIsInvented, ContradictionBlocks, StrategyBlocks
        <3> QED BY <2>1, <3>1, <3>2 DEF BuilderInv
    <2>2. CASE GenerateDraft
        BY <2>1, <2>2 DEF GenerateDraft
    <2>3. CASE JobFails
        BY <2>1, <2>3 DEF JobFails
    <2>4. CASE DraftEnds
        <3>1. PICK reply \in Replies : draft' = Drafted(reply, saved.request, saved.input)
            BY <2>4 DEF DraftEnds, Load
        <3>2. saved.request \in Requests /\ saved.input \in Inputs
            BY <2>4 DEF DraftEnds, BuilderInv
        <3>3. DraftBacked(draft, answers)'
            BY <3>1, <3>2, DraftedBacked
        <3>4. job' = "none" /\ task' = task
            BY <2>4 DEF DraftEnds
        <3>5. (NothingIsInvented /\ ContradictionBlocks /\ StrategyBlocks)'
            BY <3>4 DEF BuilderInv, NothingIsInvented, ContradictionBlocks, StrategyBlocks
        <3> QED BY <3>3, <3>4, <3>5 DEF BuilderInv
    <2>5. CASE Confirm
        <3>1. PICK sheet \in Sheets :
                 /\ answers' = Join(answers, [p \in Paths(draft) |-> sheet[p]])
                 /\ draft' = Answered(draft, sheet)
            BY <2>5 DEF Confirm, Load
        <3>2. DraftBacked(draft, answers)'
            BY <2>5, <3>1, AnsweredBacked DEF Confirm, BuilderInv
        <3>3. job' = "none" /\ task' = task
            BY <2>5 DEF Confirm
        <3>4. (NothingIsInvented /\ ContradictionBlocks /\ StrategyBlocks)'
            BY <3>3 DEF BuilderInv, NothingIsInvented, ContradictionBlocks, StrategyBlocks
        <3> QED BY <3>2, <3>3, <3>4 DEF BuilderInv
    <2>6. CASE ValidateDraft
        BY <2>1, <2>6 DEF ValidateDraft
    <2>7. CASE ValidateEnds
        BY <2>1, <2>7 DEF ValidateEnds
    <2>8. CASE CompileEnds
        <3>1. /\ Issues(draft.facts, draft.asks, draft.input) = {}
              /\ DraftBacked(draft, answers)
            BY <2>8 DEF CompileEnds, BuilderInv
        <3>2. CASE ~Accepts(draft.facts, draft.input)
            BY <2>1, <2>8, <3>2 DEF CompileEnds
        <3>3. CASE Accepts(draft.facts, draft.input)
            <4>1. /\ task' = Compiled(draft) /\ job' = "none"
                  /\ UNCHANGED <<draft, answers>>
                BY <2>8, <3>3 DEF CompileEnds
            <4>2. task'.of = draft
                BY <4>1 DEF Compiled
            <4>3. NothingIsInvented'
                BY <3>1, <3>3, <4>1, CompiledBacked DEF NothingIsInvented
            <4>4. ContradictionBlocks'
                BY <3>1, <4>2, ContradictionLemma DEF ContradictionBlocks
            <4>5. StrategyBlocks'
                BY <3>1, <4>2, StrategyLemma DEF StrategyBlocks
            <4>6. DraftBacked(draft, answers)'
                BY <3>1, <4>1
            <4> QED BY <4>1, <4>3, <4>4, <4>5, <4>6 DEF BuilderInv
        <3> QED BY <3>2, <3>3
    <2>9. CASE UNCHANGED builderVars
        BY <2>1, <2>9 DEF builderVars, BuilderInv
    <2> QED BY <2>2, <2>3, <2>4, <2>5, <2>6, <2>7, <2>8, <2>9 DEF BuilderNext
<1> QED BY <1>1, <1>2, PTL DEF BuilderSpec

\* Whatever the model replies and the user answers, nothing of a task is
\* invented:
\* each fact with authority can be traced to who said it (authority.py,
\* confirmation.py).
THEOREM NothingIsInventedHolds == BuilderSpec => []NothingIsInvented
<1>1. BuilderInv => NothingIsInvented
    BY DEF BuilderInv
<1> QED BY <1>1, TaskBuilderInvariant, PTL

\* A draft that review finds complete is one that compiles, and of what is told once
\* it holds no contradiction about a native mesh and no strategy the file does not
\* allow (review.py, compiler.py, provided_mesh.py, public_geometry.py).
THEOREM ReviewIsSoundHolds == BuilderSpec => []ReviewIsSound
<1>1. BuilderInv => ReviewIsSound
    BY ReviewLemma DEF BuilderInv, ReviewIsSound, ReviewSuffices
<1> QED BY <1>1, TaskBuilderInvariant, PTL
===============================================================================
