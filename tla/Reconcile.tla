----------------------------- MODULE Reconcile -----------------------------
(***************************************************************************)
(* jobs/recovery.py: the decision reconcile_job takes from the evidence it *)
(* has read.  The evidence is a record; who reads it, when, and how stale  *)
(* it is by then is JobRecovery's concern.                                 *)
(***************************************************************************)
ActiveStates == {"SUBMITTED", "STARTING", "RUNNING", "CANCEL_REQUESTED",
                 "CANCELLING"}
TerminalStates == {"CANCELLED", "COMPLETED", "FAILED", "INTERRUPTED"}

TerminalCodes == {"none", "USER_CANCELLED", "JOB_BOOTSTRAP_FAILED",
                  "JOB_STATUS_WRITE_FAILED", "other"}

\* worker, child: their recorded identities match a process; lock: the writer
\* lock is held; fresh: the heartbeat is recent; run: a run directory was found;
\* path: it is unusable or ambiguous; artifact: summary and manifest; resume:
\* the summary allows a strict resume; control: worker-control-failure.json;
\* solves: the operation produces a run.
Evidence ==
    [state : ActiveStates \cup TerminalStates, code : TerminalCodes,
     worker : BOOLEAN, child : BOOLEAN, lock : BOOLEAN, fresh : BOOLEAN,
     run : BOOLEAN, path : BOOLEAN, artifact : {"absent", "valid", "damaged"},
     resume : BOOLEAN, control : BOOLEAN, solves : BOOLEAN]

Actions == {"attach", "inspect", "cancel", "terminate_orphan",
            "recover_finalize", "strict_resume", "rerun", "report"}

Diagnoses == {"RUNNING", "UNRESPONSIVE", "ORPHANED_ACTIVE", "ORPHANED_STOPPED",
              "FINALIZED", "EVIDENCE_DAMAGED"}

DecisionCodes ==
    {"JOB_RUNNING", "JOB_HEARTBEAT_STALE", "JOB_ORPHANED_ACTIVE", "JOB_FINALIZED",
     "JOB_EVIDENCE_DAMAGED", "JOB_TERMINAL_RUN_MISSING", "JOB_FINALIZED_WITHOUT_RUN",
     "JOB_STATUS_WRITE_FAILED", "JOB_BOOTSTRAP_FAILED", "USER_CANCELLED",
     "JOB_ORPHANED_STOPPED", "JOB_ORPHANED_STOPPED_WITHOUT_RUN",
     "JOB_OWNERSHIP_INCONSISTENT"}

Decision(diagnosis, code, actions) ==
    [state |-> diagnosis, code |-> code, actions |-> actions]

Owned(e) == e.worker /\ e.lock /\ e.state \in ActiveStates
Orphan(e) == e.child /\ ~e.worker /\ ~e.lock
Silent(e) == ~e.worker /\ ~e.child /\ ~e.lock
Damaged(e) ==
    e.path \/ e.artifact = "damaged" \/ (e.state \in TerminalStates /\ e.run)

\* A terminal job with no run directory.
WithoutRun(e) ==
    IF e.state = "CANCELLED" /\ e.code = "USER_CANCELLED"
    THEN Decision("FINALIZED", "USER_CANCELLED", {"inspect"})
    ELSE IF /\ e.state = "FAILED"
            /\ e.code \in {"JOB_BOOTSTRAP_FAILED", "JOB_STATUS_WRITE_FAILED"}
    THEN Decision("FINALIZED", e.code, {"inspect"})
    ELSE IF e.solves
    THEN Decision("EVIDENCE_DAMAGED", "JOB_TERMINAL_RUN_MISSING", {"inspect"})
    ELSE Decision("FINALIZED", "JOB_FINALIZED_WITHOUT_RUN", {"report"})

\* A job that stopped with no terminal status and no terminal artifact.
Stopped(e) ==
    Decision("ORPHANED_STOPPED",
             IF e.control THEN "JOB_STATUS_WRITE_FAILED"
             ELSE IF e.run THEN "JOB_ORPHANED_STOPPED"
             ELSE "JOB_ORPHANED_STOPPED_WITHOUT_RUN",
             IF e.run THEN {"recover_finalize"} ELSE {"inspect"})

\* The tests are made in this order; the first that applies decides.
Decide(e) ==
    IF Owned(e)
    THEN IF e.fresh
         THEN Decision("RUNNING", "JOB_RUNNING", {"attach", "cancel"})
         ELSE Decision("UNRESPONSIVE", "JOB_HEARTBEAT_STALE", {"attach", "cancel"})
    ELSE IF Orphan(e)
    THEN Decision("ORPHANED_ACTIVE", "JOB_ORPHANED_ACTIVE",
                  {"inspect", "terminate_orphan"})
    ELSE IF e.run /\ ~e.path /\ e.artifact = "valid"
    THEN Decision("FINALIZED", "JOB_FINALIZED",
                  {"report", "rerun"} \cup
                  (IF e.resume THEN {"strict_resume"} ELSE {}))
    ELSE IF Damaged(e)
    THEN Decision("EVIDENCE_DAMAGED", "JOB_EVIDENCE_DAMAGED", {"inspect"})
    ELSE IF e.state \in TerminalStates
    THEN WithoutRun(e)
    ELSE IF Silent(e)
    THEN Stopped(e)
    ELSE Decision("EVIDENCE_DAMAGED", "JOB_OWNERSHIP_INCONSISTENT", {"inspect"})
=============================================================================
