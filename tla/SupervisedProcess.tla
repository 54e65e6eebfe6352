------------------------- MODULE SupervisedProcess -------------------------
(***************************************************************************)
(* activity/process.py: run_supervised_process, one call at a time.        *)
(*                                                                         *)
(* A call launches a child as the leader of a new session, reports it,     *)
(* polls it under a deadline and a cancellation check, and reaps it.  The  *)
(* leader may fork descendants that stay in its process group or leave it, *)
(* and that keep the pipes of the call or redirect their output.           *)
(* Every emission of an activity event may raise (a critical listener of   *)
(* the reporter failed), in which case the group is terminated first.      *)
(* Exits of processes are the environment's; a process may ignore SIGTERM, *)
(* so SIGTERM changes no process by itself, while SIGKILL does.            *)
(***************************************************************************)
EXTENDS Naturals, FiniteSets

CONSTANTS
    Kids,           \* descendants the leader may fork
    Captures,       \* whether a call reads pipes (TRUE, as command_backend does)
                    \* or redirects to files (FALSE, as plan_runner does)
    EscapeAllowed,  \* a descendant may leave the process group
    MaxCalls        \* bound on the calls of a behaviour

ASSUME SupervisedAssumption ==
    /\ Captures \subseteq BOOLEAN /\ Captures # {}
    /\ EscapeAllowed \in BOOLEAN
    /\ MaxCalls \in Nat

VARIABLES
    cancel,    \* what reporter.is_cancel_requested() would answer
    sup,       \* where the supervising thread is in the call
    pipes,     \* stdout and stderr are pipes
    why,       \* why the group is being terminated
    leader,    \* the child returned by Popen
    kids,      \* its descendants
    expired,   \* timeout_seconds have elapsed
    outcome,   \* how the last call ended
    recycled,  \* the group id of the reaped leader belongs to a stranger now
    misfired,  \* a signal was sent to a recycled group id
    calls

callVars == <<sup, pipes, why, leader, kids, expired, outcome, recycled, misfired, calls>>
processVars == <<cancel, callVars>>

SupStates == {"idle", "checked", "launched", "polling", "grace", "drain",
              "finishing", "gone"}
Outcomes == {"none", "completed", "failed", "timed_out", "cancelled", "raised"}

\* A descendant is in the group of the leader or has escaped from it, and holds
\* the pipes of the call ("group", "escaped") or not ("quiet", "left").
KidStates == {"unborn", "group", "quiet", "escaped", "left", "dead"}

TypeOK ==
    /\ cancel \in BOOLEAN
    /\ sup \in SupStates
    /\ pipes \in BOOLEAN
    /\ why \in {"none", "cancel", "timeout", "abort"}
    /\ leader \in {"none", "running", "zombie", "reaped"}
    /\ kids \in [Kids -> KidStates]
    /\ expired \in BOOLEAN
    /\ outcome \in Outcomes
    /\ recycled \in BOOLEAN
    /\ misfired \in BOOLEAN
    /\ calls \in 0..MaxCalls

ProcessInit ==
    /\ cancel = FALSE
    /\ sup = "idle"
    /\ pipes \in Captures
    /\ why = "none"
    /\ leader = "none"
    /\ kids = [k \in Kids |-> "unborn"]
    /\ expired = FALSE
    /\ outcome = "none"
    /\ recycled = FALSE
    /\ misfired = FALSE
    /\ calls = 0

-----------------------------------------------------------------------------
(* The process group and its pipes.                                        *)

GroupKids == {k \in Kids : kids[k] \in {"group", "quiet"}}
Holders == {k \in Kids : kids[k] \in {"group", "escaped"}}
GroupExists == leader \in {"running", "zombie"} \/ GroupKids # {}

\* communicate() waits for the leader and, when it reads pipes, for every
\* holder of their other end.
CommunicateReturns ==
    /\ leader \in {"zombie", "reaped"}
    /\ pipes => Holders = {}

\* os.killpg(pid, SIGTERM): only a recycled group id is a visible effect.
Misfire == misfired' = (misfired \/ recycled)

\* Mutant: kill the child only, not its group.
KillLeaderOnly ==
    /\ leader' = IF leader = "running" THEN "zombie" ELSE leader
    /\ UNCHANGED kids
    /\ Misfire

\* os.killpg(pid, SIGKILL)
KillGroup ==
    /\ leader' = IF leader = "running" THEN "zombie" ELSE leader
    /\ kids' = [k \in Kids |-> IF k \in GroupKids THEN "dead" ELSE kids[k]]
    /\ Misfire

-----------------------------------------------------------------------------
(* The supervising thread.                                                 *)

\* Entry: raise_if_cancelled(), before anything is launched.
Call ==
    /\ sup = "idle"
    /\ calls < MaxCalls
    /\ calls' = calls + 1
    /\ pipes' \in Captures
    /\ why' = "none"
    /\ expired' = FALSE
    /\ recycled' = FALSE
    /\ leader' = "none"
    /\ kids' = [k \in Kids |-> CASE kids[k] \in {"group", "quiet", "escaped"} -> "left"
                                 [] kids[k] = "dead" -> "unborn"
                                 [] OTHER -> kids[k]]
    /\ IF cancel
       THEN /\ outcome' = "raised"
            /\ sup' = "idle"
       ELSE /\ outcome' = "none"
            /\ sup' = "checked"
    /\ UNCHANGED misfired

Launch ==
    /\ sup = "checked"
    /\ sup' = "launched"
    /\ leader' = "running"
    /\ UNCHANGED <<pipes, why, kids, expired, outcome, recycled, misfired, calls>>

\* Popen raised: a "failed" event, then the error.
LaunchFails ==
    /\ sup = "checked"
    /\ sup' = "idle"
    /\ outcome' = "raised"
    /\ UNCHANGED <<pipes, why, leader, kids, expired, recycled, misfired, calls>>

\* _terminate_owned_process_group: SIGTERM, then wait for the grace period.
\* Without a group killpg fails and communicate() is called with no bound.
Terminate(reason) ==
    /\ why' = reason
    /\ sup' = IF GroupExists \/ recycled THEN "grace" ELSE "drain"
    /\ Misfire
    /\ UNCHANGED <<pipes, leader, kids, expired, outcome, recycled, calls>>

\* Mutant: an event that raises leaves the call with the child running.
RaiseWithoutAbort(raised) ==
    /\ sup = "launched"
    /\ sup' = IF raised THEN "idle" ELSE "polling"
    /\ outcome' = IF raised THEN "raised" ELSE outcome
    /\ UNCHANGED <<pipes, why, leader, kids, expired, recycled, misfired, calls>>

\* The "started" event; raised is TRUE when emitting it raised.
EmitStarted(raised) ==
    /\ sup = "launched"
    /\ IF raised
       THEN Terminate("abort")
       ELSE /\ sup' = "polling"
            /\ UNCHANGED <<pipes, why, leader, kids, expired, outcome, recycled,
                           misfired, calls>>

PollCancel ==
    /\ sup = "polling"
    /\ cancel
    /\ Terminate("cancel")

\* Mutant: the deadline only stops the polling.
TimeoutWithoutKill ==
    /\ sup = "polling"
    /\ expired
    /\ why' = "timeout"
    /\ sup' = "drain"
    /\ Misfire
    /\ UNCHANGED <<pipes, leader, kids, expired, outcome, recycled, calls>>

PollTimeout ==
    /\ sup = "polling"
    /\ expired
    /\ why' = "timeout"
    /\ sup' = "drain"
    /\ KillGroup
    /\ UNCHANGED <<pipes, expired, outcome, recycled, calls>>

PollExit ==
    /\ sup = "polling"
    /\ CommunicateReturns
    /\ leader' = "reaped"
    /\ sup' = "finishing"
    /\ outcome' \in {"completed", "failed"}
    /\ UNCHANGED <<pipes, why, kids, expired, recycled, misfired, calls>>

\* A heartbeat event, or the warning about a failed tick callback, raises.
\* One that does not raise changes nothing.
TickRaises ==
    /\ sup = "polling"
    /\ Terminate("abort")

\* The group is terminated and communicate() has returned.
Reap ==
    /\ leader' = "reaped"
    /\ CASE why = "abort"   -> sup' = "idle" /\ outcome' = "raised"
         [] why = "cancel"  -> sup' = "finishing" /\ outcome' = "cancelled"
         [] why = "timeout" -> sup' = "finishing" /\ outcome' = "timed_out"
    /\ UNCHANGED <<pipes, why, kids, expired, recycled, misfired, calls>>

GraceReap == sup = "grace" /\ CommunicateReturns /\ Reap

GraceExpires ==
    /\ sup = "grace"
    /\ ~CommunicateReturns
    /\ sup' = "drain"
    /\ KillGroup
    /\ UNCHANGED <<pipes, why, expired, outcome, recycled, calls>>

DrainReap == sup = "drain" /\ CommunicateReturns /\ Reap

\* The terminal event of the command; its failure terminates a second time.
EmitFinal(raised) ==
    /\ sup = "finishing"
    /\ IF raised
       THEN Terminate("abort")
       ELSE /\ sup' = "idle"
            /\ UNCHANGED <<pipes, why, leader, kids, expired, outcome, recycled,
                           misfired, calls>>

\* The worker process dies; nobody supervises the group any more.
SupervisorDies ==
    /\ sup # "gone"
    /\ sup' = "gone"
    /\ UNCHANGED <<pipes, why, leader, kids, expired, outcome, recycled, misfired,
                   calls>>
-----------------------------------------------------------------------------
(* The environment: time, processes, the kernel's group ids.               *)

DeadlinePasses ==
    /\ sup \in {"launched", "polling"}
    /\ ~expired
    /\ expired' = TRUE
    /\ UNCHANGED <<pipes, sup, why, leader, kids, outcome, recycled, misfired, calls>>

LeaderExits ==
    /\ leader = "running"
    /\ leader' = "zombie"
    /\ UNCHANGED <<pipes, sup, why, kids, expired, outcome, recycled, misfired, calls>>

\* A child is born where its parent is and with the parent's output.
KidForks(k) ==
    /\ kids[k] = "unborn"
    /\ \/ leader = "running" /\ kids' = [kids EXCEPT ![k] = "group"]
       \/ \E j \in Kids : /\ kids[j] \in {"group", "quiet", "escaped", "left"}
                         /\ kids' = [kids EXCEPT ![k] = kids[j]]
    /\ UNCHANGED <<pipes, sup, why, leader, expired, outcome, recycled, misfired, calls>>

\* setsid()
KidEscapes(k) ==
    /\ EscapeAllowed
    /\ k \in GroupKids
    /\ kids' = [kids EXCEPT ![k] = IF @ = "group" THEN "escaped" ELSE "left"]
    /\ UNCHANGED <<pipes, sup, why, leader, expired, outcome, recycled, misfired, calls>>

\* Standard output and error are redirected: the ends of the pipes are closed.
KidRedirects(k) ==
    /\ pipes
    /\ k \in Holders
    /\ kids' = [kids EXCEPT ![k] = IF @ = "group" THEN "quiet" ELSE "left"]
    /\ UNCHANGED <<pipes, sup, why, leader, expired, outcome, recycled, misfired, calls>>

KidExits(k) ==
    /\ kids[k] \in {"group", "quiet", "escaped", "left"}
    /\ kids' = [kids EXCEPT ![k] = "dead"]
    /\ UNCHANGED <<pipes, sup, why, leader, expired, outcome, recycled, misfired, calls>>

\* The reaped leader's id is free once its group is empty.
GroupIdRecycled ==
    /\ leader = "reaped"
    /\ GroupKids = {}
    /\ ~recycled
    /\ recycled' = TRUE
    /\ UNCHANGED <<pipes, sup, why, leader, kids, expired, outcome, misfired, calls>>

RequestCancel ==
    /\ ~cancel
    /\ cancel' = TRUE
    /\ UNCHANGED callVars

Processes ==
    \/ LeaderExits
    \/ GroupIdRecycled
    \/ \E k \in Kids : KidForks(k) \/ KidEscapes(k) \/ KidRedirects(k) \/ KidExits(k)

\* The steps that the supervising thread takes by itself once it has launched a
\* child: there is one at every place, but for the polling of a child that runs.
Progress ==
    \/ \E raised \in BOOLEAN : EmitStarted(raised) \/ EmitFinal(raised)
    \/ PollCancel \/ PollTimeout \/ PollExit
    \/ GraceReap \/ GraceExpires \/ DrainReap

Supervise == Progress \/ TickRaises

ProcessNext ==
    \/ RequestCancel
    \/ (Call \/ Launch \/ LaunchFails \/ Supervise \/ SupervisorDies
          \/ DeadlinePasses \/ Processes) /\ UNCHANGED cancel

Safe == ProcessInit /\ [][ProcessNext]_processVars

\* The thread keeps running (unless it dies). No event has to raise, and nothing
\* is assumed of the processes, which may run forever and ignore SIGTERM.
ProcessSpec == Safe /\ WF_processVars(Progress /\ UNCHANGED cancel)

\* Time passes.
TimePasses == WF_processVars(DeadlinePasses /\ UNCHANGED cancel)
-----------------------------------------------------------------------------
(* Properties.                                                             *)

\* "always reap the child": whenever no call is in progress, whatever path
\* the last one took (event listeners raising included), its leader has been
\* waited for: neither a running process nor a zombie is left behind.
ReapedBetweenCalls == sup = "idle" => leader \in {"none", "reaped"}

\* The deadline is enforced on the whole group: once a timed-out call ends, no
\* descendant that stayed in the leader's group is alive.
TimeoutLeavesNoGroup ==
    sup \in {"finishing", "idle"} /\ outcome = "timed_out" => GroupKids = {}

\* A call ends, or waits for a pipe that escaped descendants hold open.
Ended == sup \in {"idle", "gone"}
HeldByEscaped == pipes /\ \E k \in Kids : kids[k] = "escaped"

\* If time passes, a call that has launched a child returns, however long the
\* child runs, whatever signals it ignores and whenever it is cancelled; it fails
\* to only while there is always a descendant outside the group at its pipes.
CallReturns == TimePasses => (sup = "launched" ~> Ended \/ []HeldByEscaped)

=============================================================================
