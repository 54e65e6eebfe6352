---------------------------- MODULE JobRecovery ----------------------------
(***************************************************************************)
(* jobs/recovery.py with artifacts/store.py: a job whose worker may die at *)
(* any step, and the recovery commands that other processes run on its     *)
(* root, concurrently, each of which may die too.                          *)
(*                                                                         *)
(* The worker is seen through what it leaves behind: the status, the lock, *)
(* the child it launched and the files of the run (its threads and writes  *)
(* that fail are JobWorker's).  A recoverer runs reconcile_job, whose      *)
(* reads are not atomic, then terminate_orphan or recover_finalize.        *)
(*                                                                         *)
(* The run directory is a function from file names to versions, 0 when     *)
(* there is no such file; a manifest is a copy of it taken by finalize.    *)
(***************************************************************************)
EXTENDS Naturals, Reconcile

CONSTANTS
    Recoverers,      \* processes running recovery commands
    Worker, Nobody,
    MaxLog,          \* bound on the versions of the log
    MaxCrashes,      \* bound on the recoverers that die
    Openings,        \* the sets of windows that may be open, one set per behaviour
    WorkerFinishes   \* the worker may end without being killed

ASSUME RecoveryAssumption ==
    /\ Worker # Nobody
    /\ {Worker, Nobody} \cap Recoverers = {}
    /\ MaxLog \in Nat /\ MaxCrashes \in Nat
    /\ \A windows \in Openings : windows \subseteq {"kids", "launch", "seal", "recycled"}
    /\ WorkerFinishes \in BOOLEAN

Processes == Recoverers \cup {Worker}

\* The files of a run; the temporary manifest of a process is named after it.
Records == {"log", "events", "interruption", "summary"}
Names == Records \cup Processes

ASSUME NamesAssumption == Processes \cap Records = {}

Run == [Names -> Nat]

\* Versions of summary.json.
Canonical == 1
Interrupted == 2

VARIABLES
    status,    \* job-status.json: state, terminal code, recorded child
    lock,      \* holder of the writer lock
    wpc,       \* the worker
    runDir,    \* a run directory exists
    files,     \* its files
    manifest,  \* artifact-manifest.json: whether it is linked, what it lists
    entries,   \* the entries a finalizing process has computed
    leader,    \* the external process: "none", "alive", "dead"
    kid,       \* a descendant in its group: "none", "alive", "dead"
    foreign,   \* the group id belongs to a stranger's group now
    rpc,       \* the recoverers
    seen,      \* the status each of them read
    evidence,  \* what reconcile_job made of the rest
    crashes,
    open       \* the windows that are open, from the beginning
               \* (kids: a descendant may outlive the leader of its group; launch:
               \* the worker may die before it has recorded its child; seal: a
               \* process may die between the link and the unlink of a manifest;
               \* recycled: a stranger may be given the id of a dead group)

ownVars == <<status, lock>>
runVars == <<runDir, files, manifest, entries>>
groupVars == <<leader, kid, foreign>>
crashVars == <<crashes, open>>
recVars == <<rpc, seen, evidence, crashVars>>
vars == <<ownVars, wpc, runVars, groupVars, recVars>>

WorkerPlaces == {"boot", "solving", "launched", "supervising", "recorded",
                 "summarised", "computed", "temporary", "linked", "sealed", "unlocking",
                 "unlocked", "exited", "crashed"}
RecovererPlaces == {"idle", "read", "probed", "terminate", "terminating",
                    "grace", "killed", "gone", "adopt", "adopting", "recover",
                    "checking", "noted", "appended", "summarised", "computed",
                    "temporary", "linked", "sealed", "unlocking", "dead"}

TypeOK ==
    /\ status \in [state : {"RUNNING"} \cup TerminalStates,
                   code : TerminalCodes, child : BOOLEAN]
    /\ lock \in Processes \cup {Nobody}
    /\ wpc \in WorkerPlaces
    /\ runDir \in BOOLEAN
    /\ files \in Run
    /\ manifest \in [linked : BOOLEAN, entries : Run]
    /\ entries \in [Processes -> Run]
    /\ leader \in {"none", "alive", "dead"}
    /\ kid \in {"none", "alive", "dead"}
    /\ foreign \in BOOLEAN
    /\ rpc \in [Recoverers -> RecovererPlaces]
    /\ seen \in [Recoverers -> [state : {"RUNNING"} \cup TerminalStates,
                                code : TerminalCodes, child : BOOLEAN]]
    /\ evidence \in [Recoverers -> [lock : BOOLEAN, worker : BOOLEAN,
                                    child : BOOLEAN]]
    /\ crashes \in 0..MaxCrashes
    /\ open \in Openings

NoFiles == [name \in Names |-> 0]

\* What a process that has read nothing yet, or has used what it read, knows.
NothingRead == [state |-> "RUNNING", code |-> "none", child |-> FALSE]
NothingProbed == [lock |-> FALSE, worker |-> FALSE, child |-> FALSE]

Init ==
    /\ status = [state |-> "RUNNING", code |-> "none", child |-> FALSE]
    /\ lock = Worker
    /\ wpc = "boot"
    /\ runDir = FALSE
    /\ files = NoFiles
    /\ manifest = [linked |-> FALSE, entries |-> NoFiles]
    /\ entries = [p \in Processes |-> NoFiles]
    /\ leader = "none"
    /\ kid = "none"
    /\ foreign = FALSE
    /\ rpc = [r \in Recoverers |-> "idle"]
    /\ seen = [r \in Recoverers |-> NothingRead]
    /\ evidence = [r \in Recoverers |-> NothingProbed]
    /\ crashes = 0
    /\ open \in Openings
-----------------------------------------------------------------------------
(* Evidence.                                                               *)

WorkerAlive == wpc \notin {"exited", "crashed"}

\* process_identity_matches on a recorded child: the start token tells a
\* process that was given a recycled id from the recorded one.
ChildMatches(record) == record.child /\ leader = "alive"

\* os.killpg(pgid, 0)
GroupExists == leader = "alive" \/ kid = "alive" \/ foreign

Present(name) == files[name] > 0

\* ArtifactStore.verify: the files of the run are those of the manifest.
Verified == manifest.linked /\ manifest.entries = files

\* _artifact_state
ArtifactState ==
    IF ~runDir \/ (~Present("summary") /\ ~manifest.linked) THEN "absent"
    ELSE IF Present("summary") /\ Verified THEN "valid"
    ELSE "damaged"

\* Mutant: only an interruption without a summary is recognised as partial.
PartialWithoutSummary ==
    /\ Present("interruption")
    /\ ~manifest.linked
    /\ ~Present("summary")

\* _partial_recovery_payload
PartialRecovery ==
    /\ Present("interruption")
    /\ ~manifest.linked
    /\ files["summary"] # Canonical

EvidenceOf(r) ==
    [state |-> seen[r].state, code |-> seen[r].code,
     worker |-> evidence[r].worker, child |-> evidence[r].child,
     lock |-> evidence[r].lock, fresh |-> TRUE, run |-> runDir, path |-> FALSE,
     artifact |-> ArtifactState, resume |-> FALSE, control |-> FALSE,
     solves |-> TRUE]
-----------------------------------------------------------------------------
(* ArtifactStore.finalize, by the worker or by a recoverer.                *)

At(p, place) == IF p = Worker THEN wpc = place ELSE rpc[p] = place

Move(p, place) ==
    IF p = Worker
    THEN wpc' = place /\ UNCHANGED rpc
    ELSE rpc' = [rpc EXCEPT ![p] = place] /\ UNCHANGED wpc

\* A file of the run is written: its version changes.
Put(name, version) == files' = [files EXCEPT ![name] = version]

Aside == UNCHANGED <<ownVars, runDir, groupVars, seen, evidence, crashVars>>

ComputeEntries(p) ==
    /\ At(p, "summarised")
    /\ entries' = [entries EXCEPT ![p] = files]
    /\ Move(p, "computed")
    /\ Aside /\ UNCHANGED <<files, manifest>>

WriteTemporary(p) ==
    /\ At(p, "computed")
    /\ Put(p, 1)
    /\ Move(p, "temporary")
    /\ Aside /\ UNCHANGED <<manifest, entries>>

\* os.link fails when there is a manifest: see LinksOnce.
LinkManifest(p) ==
    /\ At(p, "temporary")
    /\ ~manifest.linked
    /\ manifest' = [linked |-> TRUE, entries |-> entries[p]]
    /\ Move(p, "linked")
    /\ Aside /\ UNCHANGED <<files, entries>>

RemoveTemporary(p) ==
    /\ At(p, "linked")
    /\ Put(p, 0)
    /\ Move(p, "sealed")
    /\ Aside /\ UNCHANGED <<manifest, entries>>

Finalize(p) ==
    ComputeEntries(p) \/ WriteTemporary(p) \/ LinkManifest(p) \/ RemoveTemporary(p)
-----------------------------------------------------------------------------
(* The worker.                                                             *)

WorkerOnly == UNCHANGED <<recVars, foreign, kid>>

CreateRun ==
    /\ wpc = "boot"
    /\ wpc' = "solving"
    /\ runDir' = TRUE
    /\ WorkerOnly /\ UNCHANGED <<ownVars, files, manifest, entries, leader>>

Launch ==
    /\ wpc = "solving"
    /\ leader = "none"
    /\ leader' = "alive"
    /\ wpc' = "launched"
    /\ WorkerOnly /\ UNCHANGED <<ownVars, runVars>>

RecordChild ==
    /\ wpc = "launched"
    /\ status' = [status EXCEPT !.child = TRUE]
    /\ wpc' = "supervising"
    /\ WorkerOnly /\ UNCHANGED <<lock, runVars, leader>>

ChildEnded ==
    /\ wpc = "supervising"
    /\ leader = "dead"
    /\ status' = [status EXCEPT !.child = FALSE]
    /\ wpc' = "solving"
    /\ WorkerOnly /\ UNCHANGED <<lock, runVars, leader>>

\* The workflow is finished: RUN_FINALIZED is recorded, summary.json written.
RecordFinalized ==
    /\ wpc = "solving"
    /\ Put("events", Canonical)
    /\ wpc' = "recorded"
    /\ WorkerOnly /\ UNCHANGED <<ownVars, runDir, manifest, entries, leader>>

Summarise ==
    /\ wpc = "recorded"
    /\ Put("summary", Canonical)
    /\ wpc' = "summarised"
    /\ WorkerOnly /\ UNCHANGED <<ownVars, runDir, manifest, entries, leader>>

\* The terminal status of run_local_job, after a finalized run, or after an
\* exception that the CLI turned into an exit code (COMPLETED for any code but
\* 5 and 130) before there was a run or with a run left as it was.
EndWorker ==
    /\ WorkerFinishes
    /\ wpc \in {"boot", "solving", "sealed"}
    /\ \E end \in {<<"COMPLETED", "other">>, <<"FAILED", "other">>,
                   <<"CANCELLED", "USER_CANCELLED">>} :
          status' = [state |-> end[1], code |-> end[2], child |-> FALSE]
    /\ wpc' = "unlocking"
    /\ WorkerOnly /\ UNCHANGED <<lock, runVars, leader>>

\* writer_lock is left, and the process lives on until the CLI returns.
ReleaseLock ==
    /\ wpc = "unlocking"
    /\ lock' = Nobody
    /\ wpc' = "unlocked"
    /\ WorkerOnly /\ UNCHANGED <<status, runVars, leader>>

ExitWorker ==
    /\ wpc = "unlocked"
    /\ wpc' = "exited"
    /\ WorkerOnly /\ UNCHANGED <<ownVars, runVars, leader>>

CrashWorker ==
    /\ WorkerAlive
    /\ wpc = "launched" => "launch" \in open
    /\ wpc = "linked" => "seal" \in open
    /\ wpc' = "crashed"
    /\ lock' = IF lock = Worker THEN Nobody ELSE lock
    /\ WorkerOnly /\ UNCHANGED <<status, runVars, leader>>

WorkerStep ==
    \/ CreateRun \/ Launch \/ RecordChild \/ ChildEnded
    \/ RecordFinalized \/ Summarise
    \/ EndWorker \/ ReleaseLock \/ ExitWorker \/ CrashWorker
-----------------------------------------------------------------------------
(* The external process, its group, and the owner of recycled ids.         *)

GroupOnly == UNCHANGED <<ownVars, wpc, runDir, manifest, entries, recVars>>

LogGrows ==
    /\ leader = "alive" \/ kid = "alive"
    /\ files["log"] < MaxLog
    /\ Put("log", files["log"] + 1)
    /\ GroupOnly /\ UNCHANGED <<leader, kid, foreign>>

Fork ==
    /\ "kids" \in open
    /\ leader = "alive"
    /\ kid = "none"
    /\ kid' = "alive"
    /\ GroupOnly /\ UNCHANGED <<files, leader, foreign>>

LeaderDies ==
    /\ leader = "alive"
    /\ leader' = "dead"
    /\ GroupOnly /\ UNCHANGED <<files, kid, foreign>>

KidDies ==
    /\ kid = "alive"
    /\ kid' = "dead"
    /\ GroupOnly /\ UNCHANGED <<files, leader, foreign>>

IdRecycled ==
    /\ "recycled" \in open
    /\ leader = "dead" /\ kid # "alive"
    /\ ~foreign
    /\ foreign' = TRUE
    /\ GroupOnly /\ UNCHANGED <<files, leader, kid>>

GroupStep == LogGrows \/ Fork \/ LeaderDies \/ KidDies \/ IdRecycled
-----------------------------------------------------------------------------
(* A recoverer: reconcile_job.                                             *)

Goto(r, place) == rpc' = [rpc EXCEPT ![r] = place]

Reads == UNCHANGED <<ownVars, wpc, runVars, groupVars, crashVars>>

ReadStatus(r) ==
    /\ rpc[r] = "idle"
    /\ seen' = [seen EXCEPT ![r] = status]
    /\ Goto(r, "read")
    /\ Reads /\ UNCHANGED evidence

\* The lock is probed and the identities of the status read before are looked up.
ProbeOwners(r) ==
    /\ rpc[r] = "read"
    /\ evidence' = [evidence EXCEPT ![r] =
                      [lock |-> lock # Nobody,
                       worker |-> WorkerAlive,
                       child |-> ChildMatches(seen[r])]]
    /\ Goto(r, "probed")
    /\ Reads /\ UNCHANGED seen

\* The evidence of the run is read last, then the command that was asked for
\* goes on if the decision allows it, and fails otherwise.  (recover_finalize
\* takes a partial recovery up whatever else was decided.)
AfterDecision(d) ==
    {place \in {"terminate", "adopt", "recover"} :
        CASE place = "terminate" -> d = "ORPHANED_ACTIVE"
          [] place = "adopt" ->
               /\ d = "FINALIZED"
               /\ files["summary"] = Interrupted
               /\ status.state # "INTERRUPTED"
          [] place = "recover" ->
               /\ d # "FINALIZED"
               /\ runDir
               /\ d = "ORPHANED_STOPPED" \/ PartialRecovery}

Diagnose(r) ==
    /\ rpc[r] = "probed"
    /\ \E place \in AfterDecision(Decide(EvidenceOf(r)).state) \cup {"idle"} :
          Goto(r, place)
    /\ seen' = [seen EXCEPT ![r] = NothingRead]
    /\ evidence' = [evidence EXCEPT ![r] = NothingProbed]
    /\ Reads

\* Leaving a command: an error, or writer_lock released on the way out.
Unlock(r) ==
    /\ rpc[r] = "unlocking"
    /\ Goto(r, "idle")
    /\ lock' = Nobody
    /\ UNCHANGED <<status, wpc, runVars, groupVars, seen, evidence, crashVars>>

\* writer_lock is taken for the next part of a command, or refused.
Lock(r, from, to) ==
    /\ rpc[r] = from
    /\ IF lock = Nobody
       THEN lock' = r /\ Goto(r, to)
       ELSE UNCHANGED lock /\ Goto(r, "idle")
    /\ UNCHANGED <<status, wpc, runVars, groupVars, evidence, crashVars>>
-----------------------------------------------------------------------------
(* terminate_orphan                                                        *)

\* The status is read again and the identity matched before the lock ...
LockToTerminate(r) ==
    /\ ChildMatches(status)
    /\ Lock(r, "terminate", "terminating")
    /\ seen' = [seen EXCEPT ![r] = status]

GiveUpTerminate(r) ==
    /\ rpc[r] = "terminate"
    /\ ~ChildMatches(status)
    /\ Goto(r, "idle")
    /\ Reads /\ UNCHANGED <<seen, evidence>>

\* ... and under it, before SIGTERM, which by itself changes nothing here.
SendTerm(r) ==
    /\ rpc[r] = "terminating"
    /\ Goto(r, IF ChildMatches(seen[r]) THEN "grace" ELSE "unlocking")
    /\ seen' = [seen EXCEPT ![r] = NothingRead]
    /\ Reads /\ UNCHANGED evidence

GroupGone(r) ==
    /\ rpc[r] \in {"grace", "killed"}
    /\ ~GroupExists
    /\ Goto(r, "gone")
    /\ Reads /\ UNCHANGED <<seen, evidence>>

\* Mutant: no SIGKILL after the grace period.
NoEscalation(r) ==
    /\ rpc[r] = "grace"
    /\ GroupExists
    /\ Goto(r, "killed")
    /\ Reads /\ UNCHANGED <<seen, evidence>>

SendKill(r) ==
    /\ rpc[r] = "grace"
    /\ GroupExists
    /\ leader' = IF leader = "alive" THEN "dead" ELSE leader
    /\ kid' = IF kid = "alive" THEN "dead" ELSE kid
    /\ Goto(r, "killed")
    /\ UNCHANGED <<ownVars, wpc, runVars, foreign, seen, evidence, crashVars>>

\* JOB_CANCEL_INCOMPLETE
CancelIncomplete(r) ==
    /\ rpc[r] = "killed"
    /\ GroupExists
    /\ Goto(r, "unlocking")
    /\ Reads /\ UNCHANGED <<seen, evidence>>

ForgetChild(r) ==
    /\ rpc[r] = "gone"
    /\ status' = [status EXCEPT !.child = FALSE]
    /\ Goto(r, "unlocking")
    /\ UNCHANGED <<lock, wpc, runVars, groupVars, seen, evidence, crashVars>>

TerminateOrphan(r) ==
    \/ LockToTerminate(r) \/ GiveUpTerminate(r) \/ SendTerm(r) \/ GroupGone(r)
    \/ SendKill(r) \/ CancelIncomplete(r) \/ ForgetChild(r)
-----------------------------------------------------------------------------
(* recover_finalize                                                        *)

Frozen == [state |-> "INTERRUPTED", code |-> "other", child |-> FALSE]

OwnedProcess == WorkerAlive \/ ChildMatches(status)

\* The run is frozen already, only the status does not say so: identities are
\* matched first, then the lock is taken and the status written.  (The code's
\* refusal of a live owner has no action: the decision that led here was made
\* when there was none, and a process does not come back.)
LockToAdopt(r) ==
    /\ ~OwnedProcess
    /\ Lock(r, "adopt", "adopting")
    /\ UNCHANGED seen

\* Mutant: the evidence is frozen without the writer lock.
RecoverUnlocked(r) ==
    /\ rpc[r] = "recover"
    /\ Goto(r, "checking")
    /\ Reads /\ UNCHANGED <<seen, evidence>>

LockToRecover(r) == Lock(r, "recover", "checking") /\ UNCHANGED seen

\* Mutant: the decision is trusted, identities are not matched under the lock.
InterruptUnmatched(r) ==
    /\ rpc[r] = "checking"
    /\ \/ PartialRecovery /\ UNCHANGED files
       \/ /\ ~Present("interruption") /\ ~Present("summary")
          /\ ~manifest.linked
          /\ Put("interruption", 1)
    /\ Goto(r, "noted")
    /\ UNCHANGED <<ownVars, wpc, runDir, manifest, entries, groupVars, seen,
                   evidence, crashVars>>

\* Mutant: the evidence found under the lock does not stop the recovery.
InterruptAgain(r) ==
    /\ rpc[r] = "checking"
    /\ ~OwnedProcess
    /\ IF Present("interruption") THEN UNCHANGED files ELSE Put("interruption", 1)
    /\ Goto(r, "noted")
    /\ UNCHANGED <<ownVars, wpc, runDir, manifest, entries, groupVars, seen,
                   evidence, crashVars>>

\* Everything is checked again under the lock.  interruption.json is written
\* unless it is there from an interrupted recovery.
Interrupt(r) ==
    /\ rpc[r] = "checking"
    /\ ~OwnedProcess
    /\ \/ PartialRecovery /\ UNCHANGED files
       \/ /\ ~Present("interruption") /\ ~Present("summary")
          /\ ~manifest.linked
          /\ Put("interruption", 1)
    /\ Goto(r, "noted")
    /\ UNCHANGED <<ownVars, wpc, runDir, manifest, entries, groupVars, seen,
                   evidence, crashVars>>

RefuseRecover(r) ==
    /\ rpc[r] = "checking"
    /\ \/ OwnedProcess
       \/ /\ ~PartialRecovery
          /\ \/ Present("interruption") \/ Present("summary")
             \/ manifest.linked
    /\ Goto(r, "unlocking")
    /\ Reads /\ UNCHANGED <<seen, evidence>>

RunWritten == UNCHANGED <<ownVars, wpc, runDir, manifest, entries, groupVars,
                          seen, evidence, crashVars>>

\* The final event is appended unless it is there already ...
AppendEvent(r) ==
    /\ rpc[r] = "noted"
    /\ IF files["events"] = Interrupted THEN UNCHANGED files
                                        ELSE Put("events", Interrupted)
    /\ Goto(r, "appended")
    /\ RunWritten

\* ... and the summary is written unless there is one.
WriteSummary(r) ==
    /\ rpc[r] = "appended"
    /\ IF Present("summary") THEN UNCHANGED files
                             ELSE Put("summary", Interrupted)
    /\ Goto(r, "summarised")
    /\ RunWritten

WriteInterrupted(r) ==
    /\ rpc[r] \in {"sealed", "adopting"}
    /\ status' = Frozen
    /\ Goto(r, "unlocking")
    /\ UNCHANGED <<lock, wpc, runVars, groupVars, seen, evidence, crashVars>>

RecoverFinalize(r) ==
    \/ LockToAdopt(r) \/ LockToRecover(r) \/ Interrupt(r)
    \/ RefuseRecover(r) \/ AppendEvent(r) \/ WriteSummary(r)
    \/ WriteInterrupted(r)
-----------------------------------------------------------------------------
\* A recoverer dies: its lock goes with it, its files stay.  The next command
\* is another process (and names its temporary file anew).
CrashRecoverer(r) ==
    /\ crashes < MaxCrashes
    /\ rpc[r] \notin {"idle", "dead"}
    /\ rpc[r] = "linked" => "seal" \in open
    /\ crashes' = crashes + 1
    /\ Goto(r, "dead")
    /\ lock' = IF lock = r THEN Nobody ELSE lock
    /\ UNCHANGED <<status, wpc, runVars, groupVars, seen, evidence, open>>

Recover(r) ==
    \/ ReadStatus(r) \/ ProbeOwners(r) \/ Diagnose(r) \/ Unlock(r)
    \/ TerminateOrphan(r) \/ RecoverFinalize(r)

Next ==
    \/ WorkerStep
    \/ GroupStep
    \/ \E p \in Processes : Finalize(p)
    \/ \E r \in Recoverers : Recover(r) \/ CrashRecoverer(r)

Safe == Init /\ [][Next]_vars

\* Recovery commands are run again and again and go on once started; a command
\* the decision allows is asked for, and gets the lock, if it is tried forever.
\* An orphan need not end by itself, and nothing is assumed of the worker.
Proceeds(r) ==
    /\ Diagnose(r) \/ LockToTerminate(r) \/ LockToRecover(r) \/ LockToAdopt(r)
    /\ rpc'[r] # "idle"

Spec == Safe /\ \A r \in Recoverers : /\ WF_vars(Recover(r))
                                      /\ WF_vars(Finalize(r))
                                      /\ SF_vars(Proceeds(r))
-----------------------------------------------------------------------------
(* Properties.                                                             *)

\* The manifest of a run is linked once: no two processes, the worker and
\* recoverers included, ever come to finalize the same run.
LinksOnce == \A p \in Processes : At(p, "temporary") => ~manifest.linked

\* A run is frozen as interrupted only when nothing of the job lives: neither
\* the worker nor the child it launched, however stale the decision was; a child
\* that was never recorded is the exception.
FrozenRunIsSilent ==
    "launch" \notin open /\ Present("interruption") => ~WorkerAlive /\ leader # "alive"

\* Nothing of the job outlives the leader that was recorded.
NothingOutlives == {"kids", "launch"} \cap open = {}

\* Evidence that verifies keeps verifying, through every later command, unless
\* something still writes to the run.
EvidenceIsStable == [][NothingOutlives /\ ArtifactState = "valid" => ArtifactState' = "valid"]_vars

\* A recovery that was cut short can be taken up again: it is recognised as
\* partial, or it had finished the evidence.
RecoveryIsResumable ==
    NothingOutlives /\ Present("interruption") /\ lock = Nobody
       => PartialRecovery \/ ArtifactState = "valid"

\* The same, when nobody dies between the link of the manifest and the removal of
\* its temporary file.
ResumableUnlessSealing == "seal" \notin open => RecoveryIsResumable

\* A run whose worker is killed before it wrote an outcome is frozen in the end,
\* its orphan terminated first, even if a recoverer dies on the way.
CrashedRunIsFrozen ==
    (wpc = "crashed" /\ open = {} /\ status.state = "RUNNING" /\ runDir /\ ~Present("summary"))
       ~> (status.state = "INTERRUPTED" /\ ArtifactState = "valid")
=============================================================================
