-------------------------- MODULE JobRecoveryProofs --------------------------
(***************************************************************************)
(* Proofs about JobRecovery, for every set of recoverers, every number of  *)
(* crashes, and with every window open (the properties name the windows    *)
(* they need shut).                                                        *)
(*                                                                         *)
(* IInv: the lock decides who works on the run, and whoever works on it    *)
(* before the manifest found none under the lock.  SInv: a child that      *)
(* outlives its worker was recorded, so whoever freezes the run under the  *)
(* lock sees it.  EInv: nothing but its temporary file is written between  *)
(* the entries of a manifest and its link, so the manifest lists the run.  *)
(***************************************************************************)
EXTENDS JobRecovery, TLAPS

\* Places of a recoverer at which it owns the lock, and at which it is to link
\* the manifest; places of the worker at which it may still do so.
Owning == {"terminating", "grace", "killed", "gone", "adopting", "checking",
           "noted", "appended", "summarised", "computed", "temporary",
           "linked", "sealed", "unlocking"}
Freezing == {"noted", "appended", "summarised", "computed", "temporary"}
Working == {"boot", "solving", "launched", "supervising", "recorded",
            "summarised", "computed", "temporary"}

PcTyped == wpc \in WorkerPlaces /\ rpc \in [Recoverers -> RecovererPlaces]

LockExcludes ==
    /\ WorkerAlive /\ wpc # "unlocked" => lock = Worker
    /\ \A r \in Recoverers : rpc[r] \in Owning => lock = r

NoManifestYet ==
    /\ wpc \in Working => ~manifest.linked
    /\ \A r \in Recoverers : rpc[r] \in Freezing => ~manifest.linked

IInv == PcTyped /\ LockExcludes /\ NoManifestYet

\* IInv holds in the initial state.
LEMMA InitIInv == Init => IInv
BY DEF Init, IInv, PcTyped, LockExcludes, NoManifestYet, WorkerPlaces,
   RecovererPlaces, Owning, Freezing, Working, WorkerAlive

\* finalize, by whoever holds the lock.
LEMMA FinalizeSteps ==
    ASSUME IInv, NEW p \in Processes, Finalize(p)
    PROVE  IInv'
<1> USE RecoveryAssumption DEF RecoveryAssumption, IInv, PcTyped, LockExcludes,
        NoManifestYet, WorkerPlaces, RecovererPlaces, Owning, Freezing,
        Working, WorkerAlive, Processes, At, Move, Aside, ownVars
<1>1. CASE ComputeEntries(p)
  BY <1>1 DEF ComputeEntries
<1>2. CASE WriteTemporary(p)
  BY <1>2 DEF WriteTemporary
<1>3. CASE LinkManifest(p)
  <2>1. CASE p = Worker
    BY <1>3, <2>1 DEF LinkManifest
  <2>2. CASE p # Worker
    BY <1>3, <2>2 DEF LinkManifest
  <2> QED BY <2>1, <2>2
<1>4. CASE RemoveTemporary(p)
  BY <1>4 DEF RemoveTemporary
<1> QED BY <1>1, <1>2, <1>3, <1>4 DEF Finalize

\* The worker's own steps never touch the manifest, and it keeps the lock until
\* it stops working.
LEMMA WorkerSteps ==
    ASSUME IInv, WorkerStep
    PROVE  IInv'
<1> USE RecoveryAssumption DEF RecoveryAssumption, IInv, PcTyped, LockExcludes,
        NoManifestYet, WorkerPlaces, Owning, Freezing, Working, WorkerAlive,
        WorkerOnly, recVars, ownVars, runVars
<1>1. CASE CreateRun \/ Launch \/ RecordChild \/ ChildEnded
  BY <1>1 DEF CreateRun, Launch, RecordChild, ChildEnded
<1>2. CASE RecordFinalized \/ Summarise
  BY <1>2 DEF RecordFinalized, Summarise
<1>3. CASE EndWorker \/ ReleaseLock \/ ExitWorker \/ CrashWorker
  BY <1>3 DEF EndWorker, ReleaseLock, ExitWorker, CrashWorker
<1> QED BY <1>1, <1>2, <1>3 DEF WorkerStep

\* A recoverer gets the lock only when nobody has it, and starts to freeze only
\* when there is no manifest.
LEMMA RecovererSteps ==
    ASSUME IInv, NEW r \in Recoverers, Recover(r) \/ CrashRecoverer(r)
    PROVE  IInv'
<1> USE RecoveryAssumption DEF RecoveryAssumption, IInv, PcTyped, LockExcludes,
        NoManifestYet, WorkerPlaces, RecovererPlaces, Owning, Freezing,
        Working, WorkerAlive, Goto, Reads, RunWritten, ownVars, runVars
<1>1. CASE ReadStatus(r) \/ ProbeOwners(r)
  BY <1>1 DEF ReadStatus, ProbeOwners
<1>2. CASE Diagnose(r)
  <2>1. PICK place \in {"terminate", "adopt", "recover", "idle"} :
            rpc' = [rpc EXCEPT ![r] = place]
    BY <1>2 DEF Diagnose, AfterDecision
  <2> QED BY <1>2, <2>1 DEF Diagnose
<1>3. CASE Unlock(r)
  BY <1>3 DEF Unlock
<1>4. CASE TerminateOrphan(r)
  <2>1. CASE LockToTerminate(r) \/ GiveUpTerminate(r)
    BY <2>1 DEF LockToTerminate, GiveUpTerminate, Lock
  <2>2. CASE SendTerm(r) \/ GroupGone(r) \/ SendKill(r)
    BY <2>2 DEF SendTerm, GroupGone, SendKill
  <2>3. CASE CancelIncomplete(r) \/ ForgetChild(r)
    BY <2>3 DEF CancelIncomplete, ForgetChild
  <2> QED BY <1>4, <2>1, <2>2, <2>3 DEF TerminateOrphan
<1>5. CASE RecoverFinalize(r)
  <2>1. CASE LockToAdopt(r) \/ LockToRecover(r)
    BY <2>1 DEF LockToAdopt, LockToRecover, Lock
  <2>2. CASE Interrupt(r)
    <3>1. ~manifest.linked
      BY <2>2 DEF Interrupt, PartialRecovery
    <3> QED BY <2>2, <3>1 DEF Interrupt
  <2>3. CASE RefuseRecover(r) \/ AppendEvent(r) \/ WriteSummary(r)
    BY <2>3 DEF RefuseRecover, AppendEvent, WriteSummary
  <2>4. CASE WriteInterrupted(r)
    BY <2>4 DEF WriteInterrupted
  <2> QED BY <1>5, <2>1, <2>2, <2>3, <2>4 DEF RecoverFinalize
<1>6. CASE CrashRecoverer(r)
  BY <1>6 DEF CrashRecoverer
<1> QED BY <1>1, <1>2, <1>3, <1>4, <1>5, <1>6 DEF Recover

\* External processes know nothing of locks and manifests.
LEMMA GroupSteps ==
    ASSUME IInv, GroupStep \/ UNCHANGED vars
    PROVE  IInv'
BY DEF IInv, PcTyped, LockExcludes, NoManifestYet, WorkerAlive, GroupStep,
   LogGrows, Fork, LeaderDies, KidDies, IdRecycled, GroupOnly, vars, ownVars,
   runVars, recVars

\* Every behaviour of the worker and the recoverers keeps the invariant.
THEOREM Invariance == Safe => []IInv
<1>1. Init => IInv
  BY InitIInv
<1>2. IInv /\ [Next]_vars => IInv'
  BY FinalizeSteps, WorkerSteps, RecovererSteps, GroupSteps DEF Next
<1> QED BY <1>1, <1>2, PTL DEF Safe

\* However many processes recover a job, and wherever any of them or the worker
\* dies, no process comes to link a manifest (ArtifactStore.finalize) that is
\* there already.
THEOREM ManifestLinkedOnce == Safe => []LinksOnce
<1>1. IInv => LinksOnce
  BY DEF IInv, NoManifestYet, LinksOnce, At, Processes, Working, Freezing
<1> QED BY <1>1, Invariance, PTL
-----------------------------------------------------------------------------
(* A run is frozen only when nothing of its job lives.                      *)

\* Where the worker launches nothing, and has its child recorded.
ChildByPlace ==
    /\ wpc \notin {"launched", "supervising", "crashed"} => leader # "alive"
    /\ wpc = "supervising" => status.child

\* A child that outlives its worker was recorded.
OrphanIsRecorded == wpc = "crashed" /\ leader = "alive" => status.child

\* Places at which a recoverer has seen that no process of the job lives.
Silenced == {"gone", "adopting", "noted", "appended", "summarised", "computed",
             "temporary", "linked", "sealed"}

SilencedIsSilent == \A r \in Recoverers : rpc[r] \in Silenced => leader # "alive"

InterruptedIsSilent ==
    /\ Present("interruption") => ~WorkerAlive
    /\ "launch" \notin open /\ Present("interruption") => leader # "alive"

SInv ==
    /\ files \in Run
    /\ ChildByPlace
    /\ "launch" \notin open => OrphanIsRecorded /\ SilencedIsSilent
    /\ InterruptedIsSilent

\* SInv holds in the initial state.
LEMMA InitSInv == Init => SInv
BY DEF Init, SInv, ChildByPlace, OrphanIsRecorded, Silenced, SilencedIsSilent,
   InterruptedIsSilent, Present, NoFiles, Run, Names, Records

\* Writing a file changes no other, and a temporary manifest has a name of its own.
LEMMA PutKeepsOthers ==
    ASSUME files \in Run, NEW name \in Names, NEW version \in Nat,
           Put(name, version)
    PROVE  /\ files' \in Run
           /\ \A other \in Names \ {name} : files'[other] = files[other]
           /\ files'[name] = version
BY DEF Run, Put

\* The names of temporary manifests are no names of records.
LEMMA NamesDiffer ==
    /\ Records \subseteq Names /\ Processes \subseteq Names
    /\ {"log", "events", "interruption", "summary"} = Records
    /\ \A p \in Processes : p \notin Records
BY NamesAssumption DEF Names, Records

\* finalize writes no interruption and launches nothing.
LEMMA FinalizeKeepsSInv ==
    ASSUME IInv, SInv, NEW p \in Processes, Finalize(p)
    PROVE  SInv'
<1>1. /\ files' \in Run
      /\ files'["interruption"] = files["interruption"]
  <2>1. CASE UNCHANGED files
    BY <2>1 DEF SInv
  <2>2. CASE Put(p, 0) \/ Put(p, 1)
    BY <2>2, PutKeepsOthers, NamesDiffer DEF SInv
  <2> QED
    BY <2>1, <2>2 DEF Finalize, ComputeEntries, WriteTemporary, LinkManifest,
       RemoveTemporary
<1>2. UNCHANGED <<status, leader, open>>
  BY DEF Finalize, ComputeEntries, WriteTemporary, LinkManifest,
     RemoveTemporary, Aside, ownVars, groupVars, crashVars
<1>3. \E from, to \in {"summarised", "computed", "temporary", "linked", "sealed"} :
         At(p, from) /\ Move(p, to)
  BY DEF Finalize, ComputeEntries, WriteTemporary, LinkManifest, RemoveTemporary
<1>4. CASE p = Worker
  BY <1>1, <1>2, <1>3, <1>4
  DEF IInv, PcTyped, SInv, ChildByPlace, OrphanIsRecorded, SilencedIsSilent,
      InterruptedIsSilent, Present, WorkerAlive, At, Move
<1>5. CASE p # Worker
  BY <1>1, <1>2, <1>3, <1>5
  DEF IInv, PcTyped, SInv, ChildByPlace, OrphanIsRecorded, Silenced,
      SilencedIsSilent, InterruptedIsSilent, Present, WorkerAlive, At, Move,
      Processes
<1> QED BY <1>4, <1>5

\* The worker launches only while it has the lock, and dies with its child
\* recorded unless the launch window is open.
LEMMA WorkerKeepsSInv ==
    ASSUME IInv, SInv, WorkerStep
    PROVE  SInv'
<1> USE RecoveryAssumption, NamesDiffer
    DEF RecoveryAssumption, IInv, PcTyped, LockExcludes, SInv, ChildByPlace,
        OrphanIsRecorded, SilencedIsSilent, InterruptedIsSilent, Present,
        WorkerAlive, WorkerOnly, recVars, crashVars, ownVars, runVars
<1>1. CASE CreateRun \/ ChildEnded \/ ReleaseLock \/ ExitWorker \/ CrashWorker
  BY <1>1 DEF CreateRun, ChildEnded, ReleaseLock, ExitWorker, CrashWorker
<1>2. CASE Launch
  <2>1. \A r \in Recoverers : rpc[r] \notin Silenced
    BY <1>2 DEF Launch, Silenced, Owning
  <2> QED BY <1>2, <2>1 DEF Launch
<1>3. CASE RecordChild
  <2>1. status'.child = TRUE
    BY <1>3 DEF RecordChild
  <2> QED BY <1>3, <2>1 DEF RecordChild
<1>4. CASE RecordFinalized
  <2>1. files' \in Run /\ files'["interruption"] = files["interruption"]
    BY <1>4, PutKeepsOthers DEF RecordFinalized, Canonical
  <2> QED BY <1>4, <2>1 DEF RecordFinalized
<1>5. CASE Summarise
  <2>1. files' \in Run /\ files'["interruption"] = files["interruption"]
    BY <1>5, PutKeepsOthers DEF Summarise, Canonical
  <2> QED BY <1>5, <2>1 DEF Summarise
<1>6. CASE EndWorker
  BY <1>6 DEF EndWorker
<1> QED BY <1>1, <1>2, <1>3, <1>4, <1>5, <1>6 DEF WorkerStep

\* A process that ended does not come back, and only the log is written.
LEMMA GroupKeepsSInv ==
    ASSUME SInv, GroupStep \/ UNCHANGED vars
    PROVE  SInv'
<1>1. UNCHANGED <<status, wpc, rpc, open>>
  BY DEF GroupStep, LogGrows, Fork, LeaderDies, KidDies, IdRecycled, GroupOnly,
     vars, ownVars, recVars, crashVars
<1>2. leader' = leader \/ leader' = "dead"
  BY DEF GroupStep, LogGrows, Fork, LeaderDies, KidDies, IdRecycled, vars,
     groupVars
<1>3. files' \in Run /\ files'["interruption"] = files["interruption"]
  <2>1. CASE UNCHANGED files
    BY <2>1 DEF SInv
  <2>2. CASE LogGrows
    <3>1. files["log"] + 1 \in Nat
      BY NamesDiffer DEF SInv, Run
    <3> QED BY <2>2, <3>1, NamesDiffer, PutKeepsOthers DEF SInv, LogGrows
  <2> QED
    BY <2>1, <2>2 DEF GroupStep, Fork, LeaderDies, KidDies, IdRecycled,
       vars, runVars
<1> QED
  BY <1>1, <1>2, <1>3 DEF SInv, ChildByPlace, OrphanIsRecorded, Silenced,
     SilencedIsSilent, InterruptedIsSilent, Present, WorkerAlive

\* A recoverer forgets a child only when it has seen it gone, and freezes a run
\* only when nobody lives.
LEMMA RecovererKeepsSInv ==
    ASSUME IInv, SInv, NEW r \in Recoverers, Recover(r) \/ CrashRecoverer(r)
    PROVE  SInv'
<1> USE RecoveryAssumption, NamesDiffer
    DEF RecoveryAssumption, IInv, PcTyped, LockExcludes, SInv, ChildByPlace,
        OrphanIsRecorded, Silenced, SilencedIsSilent, InterruptedIsSilent,
        Present, WorkerAlive, Goto, Reads, RunWritten, ownVars, runVars,
        groupVars, crashVars
<1>1. CASE ReadStatus(r) \/ ProbeOwners(r)
  BY <1>1 DEF ReadStatus, ProbeOwners
<1>2. CASE Diagnose(r)
  <2>1. PICK place \in {"terminate", "adopt", "recover", "idle"} :
            rpc' = [rpc EXCEPT ![r] = place]
    BY <1>2 DEF Diagnose, AfterDecision
  <2> QED BY <1>2, <2>1 DEF Diagnose
<1>3. CASE Unlock(r) \/ CrashRecoverer(r)
  BY <1>3 DEF Unlock, CrashRecoverer
<1>4. CASE TerminateOrphan(r)
  <2>1. CASE LockToTerminate(r) \/ GiveUpTerminate(r)
    BY <2>1 DEF LockToTerminate, GiveUpTerminate, Lock
  <2>2. CASE SendTerm(r) \/ CancelIncomplete(r)
    BY <2>2 DEF SendTerm, CancelIncomplete
  <2>3. CASE GroupGone(r)
    BY <2>3 DEF GroupGone, GroupExists
  <2>4. CASE SendKill(r)
    BY <2>4 DEF SendKill
  <2>5. CASE ForgetChild(r)
    <3>1. wpc # "supervising"
      BY <2>5 DEF ForgetChild, Owning
    <3> QED BY <2>5, <3>1 DEF ForgetChild
  <2> QED BY <1>4, <2>1, <2>2, <2>3, <2>4, <2>5 DEF TerminateOrphan
<1>5. CASE RecoverFinalize(r)
  <2>1. CASE LockToAdopt(r)
    <3>1. "launch" \notin open => leader # "alive"
      BY <2>1 DEF LockToAdopt, OwnedProcess, ChildMatches
    <3> QED BY <2>1, <3>1 DEF LockToAdopt, Lock
  <2>2. CASE LockToRecover(r)
    BY <2>2 DEF LockToRecover, Lock
  <2>3. CASE Interrupt(r)
    <3>1. ~WorkerAlive /\ ("launch" \notin open => leader # "alive")
      BY <2>3 DEF Interrupt, OwnedProcess, ChildMatches
    <3>2. files' \in Run
      BY <2>3, PutKeepsOthers DEF Interrupt
    <3>3. rpc' = [rpc EXCEPT ![r] = "noted"]
          /\ UNCHANGED <<status, wpc, leader, open>>
      BY <2>3 DEF Interrupt
    <3> QED BY <3>1, <3>2, <3>3
  <2>4. CASE RefuseRecover(r)
    BY <2>4 DEF RefuseRecover
  <2>5. CASE AppendEvent(r)
    <3>1. files' \in Run /\ files'["interruption"] = files["interruption"]
      BY <2>5, PutKeepsOthers DEF AppendEvent, Interrupted
    <3> QED BY <2>5, <3>1 DEF AppendEvent
  <2>6. CASE WriteSummary(r)
    <3>1. files' \in Run /\ files'["interruption"] = files["interruption"]
      BY <2>6, PutKeepsOthers DEF WriteSummary, Interrupted
    <3> QED BY <2>6, <3>1 DEF WriteSummary
  <2>7. CASE WriteInterrupted(r)
    <3>1. wpc # "supervising" /\ ("launch" \notin open => leader # "alive")
      BY <2>7 DEF WriteInterrupted, Owning
    <3> QED BY <2>7, <3>1 DEF WriteInterrupted
  <2> QED
    BY <1>5, <2>1, <2>2, <2>3, <2>4, <2>5, <2>6, <2>7 DEF RecoverFinalize
<1> QED BY <1>1, <1>2, <1>3, <1>4, <1>5 DEF Recover

\* Every behaviour of the worker and the recoverers keeps SInv.
THEOREM SilenceInvariance == Safe => []SInv
<1>1. Init => SInv
  BY InitSInv
<1>2. IInv /\ SInv /\ [Next]_vars => SInv'
  BY FinalizeKeepsSInv, WorkerKeepsSInv, RecovererKeepsSInv, GroupKeepsSInv
  DEF Next
<1> QED BY <1>1, <1>2, Invariance, PTL DEF Safe

\* However many processes recover a job, whatever they decided from and wherever
\* they die, recover_finalize freezes a run only when neither the worker nor the
\* child it recorded lives.
THEOREM FrozenIsSilent == Safe => []FrozenRunIsSilent
<1>1. SInv => FrozenRunIsSilent
  BY DEF SInv, InterruptedIsSilent, FrozenRunIsSilent
<1> QED BY <1>1, SilenceInvariance, PTL
-----------------------------------------------------------------------------
(* The evidence of a run, when nothing outlives its leader.                 *)

Place(p) == IF p = Worker THEN wpc ELSE rpc[p]

Summarised == {"summarised", "computed", "temporary", "linked", "sealed"}

\* The temporary manifest of a process is there while it finalizes, and after its
\* death.
TemporaryIsOwned ==
    \A p \in Processes :
       files[p] = 0 \/ Place(p) \in {"temporary", "linked", "crashed", "dead"}

\* Nothing but the temporary manifest is written between the entries and the link.
EntriesAreTaken ==
    \A p \in Processes :
       /\ Place(p) \in {"computed", "temporary"} =>
             entries[p] = [files EXCEPT ![p] = 0]
       /\ Place(p) \in {"temporary", "linked"} => files[p] = 1
       /\ Place(p) = "linked" => manifest.entries = [files EXCEPT ![p] = 0]

\* A manifest lists the run as it is, unless somebody died or is about to remove
\* its temporary file.
ManifestIsRun ==
    "seal" \notin open /\ manifest.linked =>
       manifest.entries = files \/ \E p \in Processes : Place(p) = "linked"

\* Places of a recoverer that is to freeze the run, or is freezing it.
ToFreeze == {"recover", "checking", "noted", "appended"} \cup Summarised

\* What there is, from when on.
RunExists ==
    /\ wpc \in WorkerPlaces \ {"boot", "unlocking", "unlocked", "exited", "crashed"} => runDir
    /\ \A r \in Recoverers :
          rpc[r] \in ToFreeze => runDir
    /\ manifest.linked \/ Present("interruption") => runDir

SummaryExists ==
    /\ \A p \in Processes : Place(p) \in Summarised => Present("summary")
    /\ manifest.linked => Present("summary")

Evidenced ==
    /\ entries \in [Processes -> Run]
    /\ manifest \in [linked : BOOLEAN, entries : Run]
    /\ kid = "none"
    /\ manifest.linked => leader # "alive"
    /\ TemporaryIsOwned
    /\ EntriesAreTaken
    /\ ManifestIsRun
    /\ RunExists
    /\ SummaryExists
    /\ Present("interruption") => files["summary"] # Canonical

EInv == NothingOutlives => Evidenced

\* Evidenced holds in the initial state.
LEMMA InitEInv == Init => EInv
<1>1. ASSUME Init, NothingOutlives PROVE Evidenced
  <2>1. NoFiles \in Run /\ \A name \in Names : NoFiles[name] = 0
    BY DEF NoFiles, Run
  <2>2. /\ files = NoFiles /\ ~manifest.linked /\ wpc = "boot"
        /\ \A r \in Recoverers : rpc[r] = "idle"
        /\ manifest \in [linked : BOOLEAN, entries : Run]
        /\ entries \in [Processes -> Run]
        /\ kid = "none"
    BY <1>1, <2>1 DEF Init
  <2>3. \A q \in Processes : Place(q) \in {"boot", "idle"}
    BY <2>2 DEF Place, Processes
  <2> QED
    BY <2>1, <2>2, <2>3, NamesDiffer
    DEF Evidenced, TemporaryIsOwned, EntriesAreTaken, ManifestIsRun, RunExists,
        SummaryExists, Summarised, Present, ToFreeze
<1> QED BY <1>1 DEF EInv

\* Places between the entries of a manifest and the end of its sealing.
Sealing == {"computed", "temporary", "linked"}

\* The lock: only one process is at work on the evidence.
LEMMA OneSeals ==
    ASSUME IInv, NEW p \in Processes, NEW q \in Processes,
           Place(p) \in Sealing \/ (p # Worker /\ Place(p) \in Owning)
                    \/ (p = Worker /\ WorkerAlive /\ wpc # "unlocked"),
           Place(q) \in Sealing
    PROVE  p = q
BY RecoveryAssumption
DEF RecoveryAssumption, IInv, LockExcludes, Place, Sealing, Owning,
    WorkerAlive, Processes

\* A step that leaves the evidence alone, on which nobody starts to work, keeps
\* the invariant.
LEMMA QuietKeepsEvidence ==
    ASSUME Evidenced, UNCHANGED <<files, manifest, entries, kid, open>>,
           manifest.linked => leader' # "alive",
           \A p \in Processes :
              \/ Place(p)' = Place(p)
              \/ Place(p)' \in {"crashed", "dead"}
              \/ /\ Place(p) \notin {"temporary", "linked", "crashed", "dead"}
                 /\ Place(p)' \notin Summarised,
           \A p \in Processes :
              Place(p) = "linked" /\ "seal" \notin open => Place(p)' = "linked",
           RunExists'
    PROVE  Evidenced'
<1>1. TemporaryIsOwned'
  BY DEF Evidenced, TemporaryIsOwned
<1>2. EntriesAreTaken'
  BY DEF Evidenced, EntriesAreTaken, Summarised
<1>3. ManifestIsRun'
  BY DEF Evidenced, ManifestIsRun
<1>4. SummaryExists'
  BY DEF Evidenced, SummaryExists, Present, Summarised
<1> QED BY <1>1, <1>2, <1>3, <1>4 DEF Evidenced, Present

\* A record that is written before there is a manifest, while nobody computes its
\* entries, keeps the invariant.
LEMMA WriteKeepsEvidence ==
    ASSUME Evidenced, files \in Run, NEW name \in Records, NEW version \in Nat,
           Put(name, version) \/ UNCHANGED files,
           ~manifest.linked, UNCHANGED <<manifest, entries, kid, open>>,
           \A p \in Processes :
              /\ Place(p) \notin Sealing
              /\ \/ Place(p)' = Place(p)
                 \/ Place(p) \notin {"crashed", "dead"} /\ Place(p)' \notin Sealing,
           RunExists', SummaryExists',
           Present("interruption")' => files'["summary"] # Canonical
    PROVE  Evidenced'
<1>1. \A p \in Processes : files'[p] = files[p]
  BY PutKeepsOthers, NamesDiffer
<1>2. TemporaryIsOwned'
  BY <1>1 DEF Evidenced, TemporaryIsOwned, Sealing
<1>3. EntriesAreTaken'
  BY DEF EntriesAreTaken, Sealing
<1>4. ManifestIsRun'
  BY DEF ManifestIsRun
<1> QED BY <1>2, <1>3, <1>4 DEF Evidenced

\* The worker writes its records while it holds the lock, before any manifest.
LEMMA WorkerKeepsEvidence ==
    ASSUME IInv, SInv, NothingOutlives, Evidenced, WorkerStep
    PROVE  Evidenced'
<1> USE RecoveryAssumption, NamesDiffer
    DEF RecoveryAssumption, WorkerOnly, recVars, crashVars
<1>1. /\ UNCHANGED <<rpc, manifest, entries, kid, open>>
      /\ \A p \in Recoverers : Place(p)' = Place(p)
      /\ Place(Worker) = wpc /\ Place(Worker)' = wpc'
  BY
  DEF WorkerStep, CreateRun, Launch, RecordChild, ChildEnded, RecordFinalized,
     Summarise, EndWorker, ReleaseLock, ExitWorker, CrashWorker, Place, runVars
<1>2. CASE CreateRun \/ Launch \/ RecordChild \/ ChildEnded \/ EndWorker
            \/ ReleaseLock \/ ExitWorker \/ CrashWorker
  <2>1. /\ UNCHANGED files
        /\ runDir' = runDir \/ runDir' = TRUE
        /\ leader' = leader \/ Launch
    BY <1>2 DEF CreateRun, Launch, RecordChild, ChildEnded, EndWorker,
       ReleaseLock, ExitWorker, CrashWorker, runVars
  <2>2. Launch => ~manifest.linked
    BY DEF IInv, NoManifestYet, Launch, Working
  <2>3. /\ wpc \notin {"temporary", "linked", "crashed"} \/ wpc' = "crashed"
        /\ wpc' \notin Summarised
        /\ wpc = "linked" => "seal" \in open
        /\ wpc' \notin {"unlocking", "unlocked", "exited", "crashed"} => runDir'
    BY <1>2 DEF CreateRun, Launch, RecordChild, ChildEnded, EndWorker,
       ReleaseLock, ExitWorker, CrashWorker, Summarised, runVars, Evidenced, RunExists,
       WorkerPlaces, WorkerAlive
  <2>4. RunExists'
    BY <1>1, <2>1, <2>3 DEF Evidenced, RunExists, Present
  <2>5. manifest.linked => leader' # "alive"
    BY <2>1, <2>2 DEF Evidenced
  <2>6. \A p \in Processes :
           /\ \/ Place(p)' = Place(p)
              \/ Place(p)' \in {"crashed", "dead"}
              \/ /\ Place(p) \notin {"temporary", "linked", "crashed", "dead"}
                 /\ Place(p)' \notin Summarised
           /\ Place(p) = "linked" /\ "seal" \notin open => Place(p)' = "linked"
    <3>1. wpc # "dead"
      BY DEF IInv, PcTyped, WorkerPlaces
    <3> QED BY <1>1, <2>3, <3>1 DEF Processes
  <2> QED BY <1>1, <2>1, <2>4, <2>5, <2>6, QuietKeepsEvidence
<1>3. CASE RecordFinalized \/ Summarise
  <2>1. /\ \A q \in Processes : Place(q) \notin Sealing
        /\ ~manifest.linked /\ ~Present("interruption")
    BY <1>3, OneSeals
    DEF RecordFinalized, Summarise, Place, Sealing, Processes, WorkerAlive,
       IInv, NoManifestYet, Working, SInv, InterruptedIsSilent
  <2>2. /\ wpc' \in {"recorded", "summarised"} /\ wpc \in {"solving", "recorded"}
        /\ UNCHANGED runDir
    BY <1>3 DEF RecordFinalized, Summarise
  <2>3. files' \in Run /\ files'["interruption"] = files["interruption"]
    BY <1>3, PutKeepsOthers DEF RecordFinalized, Summarise, SInv, Canonical
  <2>4. RunExists'
    BY <1>1, <2>2, <2>3 DEF Evidenced, RunExists, Present, WorkerPlaces
  <2>5. SummaryExists'
    <3>1. wpc' = "summarised" => files'["summary"] = 1
      BY <1>3, PutKeepsOthers DEF RecordFinalized, Summarise, SInv, Canonical
    <3>2. files'["summary"] = files["summary"] \/ files'["summary"] = 1
      BY <1>3, PutKeepsOthers DEF RecordFinalized, Summarise, SInv, Canonical
    <3> QED
      BY <1>1, <2>1, <2>2, <3>1, <3>2
      DEF Evidenced, SummaryExists, Present, Summarised, Processes
  <2>6. \A p \in Processes :
           \/ Place(p)' = Place(p)
           \/ Place(p) \notin {"crashed", "dead"} /\ Place(p)' \notin Sealing
    BY <1>1, <2>2 DEF Processes, Sealing
  <2>7. CASE RecordFinalized
    BY <1>1, <2>1, <2>3, <2>4, <2>5, <2>6, <2>7, WriteKeepsEvidence
    DEF RecordFinalized, SInv, Canonical, Present
  <2>8. CASE Summarise
    BY <1>1, <2>1, <2>3, <2>4, <2>5, <2>6, <2>8, WriteKeepsEvidence
    DEF Summarise, SInv, Canonical, Present
  <2> QED BY <1>3, <2>7, <2>8
<1> QED BY <1>2, <1>3 DEF WorkerStep

\* The log grows only while the leader lives, when nobody works on the evidence.
LEMMA GroupKeepsEvidence ==
    ASSUME IInv, SInv, NothingOutlives, Evidenced, GroupStep \/ UNCHANGED vars
    PROVE  Evidenced'
<1> USE NamesDiffer
<1>1. UNCHANGED <<wpc, rpc, runDir, manifest, entries, open>>
  BY DEF GroupStep, LogGrows, Fork, LeaderDies, KidDies, IdRecycled, GroupOnly,
     vars, recVars, crashVars, runVars
<1>2. \A p \in Processes : Place(p)' = Place(p)
  BY <1>1 DEF Place
<1>3. UNCHANGED kid
  BY DEF GroupStep, LogGrows, Fork, LeaderDies, KidDies, IdRecycled, vars,
     groupVars, Evidenced, NothingOutlives
<1>4. CASE LogGrows
  <2>1. leader = "alive" /\ UNCHANGED leader
    BY <1>4 DEF LogGrows, Evidenced
  <2>2. \A q \in Processes : Place(q) \notin Sealing
    BY <2>1, RecoveryAssumption
    DEF RecoveryAssumption, SInv, ChildByPlace, SilencedIsSilent, Silenced,
       NothingOutlives, Place, Sealing, Processes
  <2>3. files["log"] + 1 \in Nat
    BY DEF SInv, Run
  <2>4. /\ files' \in Run
        /\ files'["interruption"] = files["interruption"]
        /\ files'["summary"] = files["summary"]
    BY <1>4, <2>3, PutKeepsOthers DEF LogGrows, SInv
  <2>5. RunExists' /\ SummaryExists'
    BY <1>1, <1>2, <2>4 DEF Evidenced, RunExists, SummaryExists, Present
  <2> QED
    BY <1>1, <1>2, <1>3, <1>4, <2>1, <2>2, <2>3, <2>4, <2>5, WriteKeepsEvidence
    DEF LogGrows, SInv, Evidenced, Present
<1>5. CASE UNCHANGED files
  <2>1. leader' = leader \/ leader' = "dead"
    BY DEF GroupStep, LogGrows, Fork, LeaderDies, KidDies, IdRecycled, vars,
       groupVars
  <2>2. RunExists'
    BY <1>1, <1>5 DEF Evidenced, RunExists, Present
  <2> QED
    BY <1>1, <1>2, <1>3, <1>5, <2>1, <2>2, QuietKeepsEvidence DEF Evidenced
<1> QED
  BY <1>4, <1>5
  DEF GroupStep, Fork, LeaderDies, KidDies, IdRecycled, vars, runVars

\* finalize: one process at a time, and what it lists is what it leaves.
LEMMA FinalizeKeepsEvidence ==
    ASSUME IInv, SInv, NothingOutlives, Evidenced, NEW p \in Processes,
    Finalize(p)
    PROVE  Evidenced'
<1> USE RecoveryAssumption, NamesDiffer
    DEF RecoveryAssumption, Aside, groupVars, crashVars
<1>1. /\ UNCHANGED <<runDir, kid, leader, open>>
      /\ \A q \in Processes \ {p} : Place(q)' = Place(q)
      /\ Place(p) \in Summarised /\ Place(p)' \in Summarised
  BY
  DEF Finalize, ComputeEntries, WriteTemporary, LinkManifest, RemoveTemporary,
     Place, Summarised, At, Move, IInv, PcTyped, Processes
<1>2. \A q \in Processes \ {p} : Place(q) \notin Sealing
  BY <1>1, OneSeals
  DEF Summarised, Owning, Place, WorkerAlive, Processes
<1>3. files' \in Run /\ \A name \in Names \ {p} : files'[name] = files[name]
  <2>1. Put(p, 0) \/ Put(p, 1) \/ UNCHANGED files
    BY DEF Finalize, ComputeEntries, WriteTemporary, LinkManifest,
       RemoveTemporary
  <2>2. files \in Run
    BY DEF SInv
  <2>3. p \in Names
    OBVIOUS
  <2>4. CASE Put(p, 0) \/ Put(p, 1)
    BY <2>2, <2>3, <2>4, PutKeepsOthers
  <2>5. CASE UNCHANGED files
    BY <2>2, <2>5
  <2> QED BY <2>1, <2>4, <2>5
<1>4. RunExists'
  <2>1. runDir
    BY <1>1 DEF Evidenced, RunExists, Summarised, Place, WorkerPlaces,
       ToFreeze, Processes
  <2> QED BY <1>1, <2>1 DEF RunExists
<1>5. Present("summary") /\ SummaryExists'
  <2>1. Present("summary") /\ Present("summary")'
    BY <1>1, <1>3 DEF Evidenced, SummaryExists, Present
  <2> QED BY <2>1 DEF SummaryExists
<1>6. Present("interruption")' => files'["summary"] # Canonical
  BY <1>3 DEF Evidenced, Present
<1>7. CASE ComputeEntries(p)
  <2>1. /\ Place(p) = "summarised" /\ Place(p)' = "computed"
        /\ entries' = [entries EXCEPT ![p] = files]
        /\ UNCHANGED <<files, manifest>>
    BY <1>7
    DEF ComputeEntries, Place, At, Move, IInv, PcTyped, Processes
  <2>2. files[p] = 0
    BY <2>1 DEF Evidenced, TemporaryIsOwned
  <2>3. TemporaryIsOwned'
    BY <1>1, <2>1, <2>2 DEF Evidenced, TemporaryIsOwned
  <2>4. EntriesAreTaken'
    <3>1. files = [files EXCEPT ![p] = 0]
      BY <2>2 DEF SInv, Run
    <3> QED BY <1>1, <1>2, <2>1, <3>1 DEF EntriesAreTaken, Sealing, Evidenced
  <2>5. ManifestIsRun'
    BY <1>1, <2>1 DEF Evidenced, ManifestIsRun
  <2>6. entries' \in [Processes -> Run]
    BY <2>1 DEF Evidenced, SInv
  <2> QED
    BY <1>1, <1>4, <1>5, <1>6, <2>1, <2>3, <2>4, <2>5, <2>6 DEF Evidenced
<1>8. CASE WriteTemporary(p)
  <2>1. /\ Place(p) = "computed" /\ Place(p)' = "temporary"
        /\ files' = [files EXCEPT ![p] = 1]
        /\ UNCHANGED <<entries, manifest>>
    BY <1>8
    DEF WriteTemporary, Place, At, Move, IInv, PcTyped, Processes, Put
  <2>2. ~manifest.linked
    BY <2>1
    DEF IInv, NoManifestYet, Place, Working, Freezing, Processes
  <2>3. TemporaryIsOwned'
    BY <1>1, <1>3, <2>1 DEF Evidenced, TemporaryIsOwned
  <2>4. EntriesAreTaken'
    <3>1. entries[p] = [files EXCEPT ![p] = 0] /\ files \in Run
      BY <2>1 DEF Evidenced, EntriesAreTaken, SInv
    <3>2. [files EXCEPT ![p] = 0] = [files' EXCEPT ![p] = 0]
      BY <2>1, <3>1 DEF Run
    <3>3. files'[p] = 1 /\ entries'[p] = [files' EXCEPT ![p] = 0]
      BY <2>1, <3>1, <3>2 DEF Run
    <3> QED BY <1>1, <1>2, <2>1, <3>3 DEF EntriesAreTaken, Sealing
  <2>5. ManifestIsRun'
    BY <2>1, <2>2 DEF ManifestIsRun
  <2> QED
    BY <1>1, <1>4, <1>5, <1>6, <2>1, <2>2, <2>3, <2>4, <2>5 DEF Evidenced
<1>9. CASE LinkManifest(p)
  <2>1. /\ Place(p) = "temporary" /\ Place(p)' = "linked"
        /\ manifest' = [linked |-> TRUE, entries |-> entries[p]]
        /\ UNCHANGED <<files, entries>>
    BY <1>9
    DEF LinkManifest, Place, At, Move, IInv, PcTyped, Processes
  <2>2. TemporaryIsOwned'
    BY <1>1, <2>1 DEF Evidenced, TemporaryIsOwned
  <2>3. EntriesAreTaken'
    <3>1. entries[p] = [files EXCEPT ![p] = 0] /\ files[p] = 1
      BY <2>1 DEF Evidenced, EntriesAreTaken
    <3> QED BY <1>1, <1>2, <2>1, <3>1 DEF EntriesAreTaken, Sealing
  <2>4. ManifestIsRun'
    BY <2>1 DEF ManifestIsRun
  <2>5. leader # "alive"
    BY <2>1
    DEF SInv, ChildByPlace, SilencedIsSilent, Silenced, NothingOutlives, Place,
       Processes
  <2>6. manifest' \in [linked : BOOLEAN, entries : Run]
    BY <2>1 DEF Evidenced
  <2> QED
    BY <1>1, <1>4, <1>5, <1>6, <2>1, <2>2, <2>3, <2>4, <2>5, <2>6 DEF Evidenced
<1>10. CASE RemoveTemporary(p)
  <2>1. /\ Place(p) = "linked" /\ Place(p)' = "sealed"
        /\ files' = [files EXCEPT ![p] = 0]
        /\ UNCHANGED <<entries, manifest>>
    BY <1>10
    DEF RemoveTemporary, Place, At, Move, IInv, PcTyped, Processes, Put
  <2>2. TemporaryIsOwned'
    BY <1>1, <1>3, <2>1 DEF Evidenced, TemporaryIsOwned, SInv, Run
  <2>3. EntriesAreTaken'
    BY <1>1, <1>2, <2>1 DEF EntriesAreTaken, Sealing
  <2>4. ManifestIsRun'
    BY <2>1 DEF Evidenced, EntriesAreTaken, ManifestIsRun
  <2> QED
    BY <1>1, <1>4, <1>5, <1>6, <2>1, <2>2, <2>3, <2>4 DEF Evidenced
<1> QED BY <1>7, <1>8, <1>9, <1>10 DEF Finalize

\* A recoverer freezes a run that has no manifest; its other steps leave the
\* evidence alone.
LEMMA RecovererKeepsEvidence ==
    ASSUME IInv, SInv, NothingOutlives, Evidenced, NEW r \in Recoverers,
           Recover(r) \/ CrashRecoverer(r)
    PROVE  Evidenced'
<1> USE RecoveryAssumption, NamesDiffer
    DEF RecoveryAssumption, Goto, Reads, RunWritten, ownVars, runVars,
        groupVars,
        crashVars
<1> DEFINE Written == Interrupt(r) \/ AppendEvent(r) \/ WriteSummary(r)
<1>1. PICK place \in RecovererPlaces : rpc' = [rpc EXCEPT ![r] = place]
  <2>1. CASE Diagnose(r)
    <3>1. PICK place \in {"terminate", "adopt", "recover", "idle"} :
              rpc' = [rpc EXCEPT ![r] = place]
      BY <2>1 DEF Diagnose, AfterDecision
    <3> QED BY <3>1 DEF RecovererPlaces
  <2>2. CASE ReadStatus(r) \/ ProbeOwners(r) \/ Unlock(r) \/ CrashRecoverer(r)
    BY <2>2 DEF ReadStatus, ProbeOwners, Unlock, CrashRecoverer, RecovererPlaces
  <2>3. CASE TerminateOrphan(r)
    BY <2>3
    DEF TerminateOrphan, LockToTerminate, GiveUpTerminate, SendTerm, GroupGone,
        SendKill, CancelIncomplete, ForgetChild, Lock, RecovererPlaces
  <2>4. CASE RecoverFinalize(r)
    BY <2>4
    DEF RecoverFinalize, LockToAdopt, LockToRecover, Interrupt, RefuseRecover,
        AppendEvent, WriteSummary, WriteInterrupted, Lock, RecovererPlaces
  <2> QED BY <2>1, <2>2, <2>3, <2>4 DEF Recover
<1>2. /\ UNCHANGED <<wpc, runDir, manifest, entries, open>>
      /\ \A q \in Processes \ {r} : Place(q)' = Place(q)
      /\ Place(r) = rpc[r] /\ Place(r)' = place /\ r \in Processes
  <2>1. UNCHANGED <<wpc, runDir, manifest, entries, open>>
    BY DEF Recover, ReadStatus, ProbeOwners, Unlock, CrashRecoverer, Diagnose,
       TerminateOrphan, LockToTerminate, GiveUpTerminate, SendTerm, GroupGone,
       SendKill, CancelIncomplete, ForgetChild, Lock, RecoverFinalize,
       LockToAdopt, LockToRecover, Interrupt, RefuseRecover, AppendEvent,
       WriteSummary, WriteInterrupted
  <2>2. r \in Processes /\ r # Worker
    BY DEF Processes
  <2>3. /\ rpc'[r] = place
        /\ \A q \in Recoverers \ {r} : rpc'[q] = rpc[q]
    BY <1>1 DEF IInv, PcTyped
  <2> QED BY <2>1, <2>2, <2>3 DEF Place, Processes
<1>3. CASE ~Written
  <2>1. UNCHANGED files /\ (leader' = leader \/ leader' = "dead")
    BY <1>3
    DEF Recover, ReadStatus, ProbeOwners, Unlock, CrashRecoverer, Diagnose,
       TerminateOrphan, LockToTerminate, GiveUpTerminate, SendTerm, GroupGone,
       SendKill, CancelIncomplete, ForgetChild, Lock, RecoverFinalize,
       LockToAdopt, LockToRecover, RefuseRecover, WriteInterrupted
  <2>2. UNCHANGED kid
    BY <1>3
    DEF Evidenced, Recover, ReadStatus, ProbeOwners, Unlock, CrashRecoverer,
       Diagnose, TerminateOrphan, LockToTerminate, GiveUpTerminate, SendTerm,
       GroupGone, SendKill, CancelIncomplete, ForgetChild, Lock,
       RecoverFinalize, LockToAdopt, LockToRecover, RefuseRecover,
       WriteInterrupted
  <2>3. /\ \/ place = "dead"
           \/ /\ rpc[r] \notin {"temporary", "linked", "crashed", "dead"}
              /\ place \notin Summarised
        /\ rpc[r] = "linked" => "seal" \in open
        /\ place \in ToFreeze => runDir
    <3>1. CASE Diagnose(r)
      <4>1. rpc[r] = "probed"
        BY <3>1 DEF Diagnose
      <4>2. PICK to \in {"terminate", "adopt", "recover", "idle"} :
                /\ rpc' = [rpc EXCEPT ![r] = to]
                /\ to = "recover" => runDir
        BY <3>1 DEF Diagnose, AfterDecision
      <4>3. place = to
        BY <1>2, <4>2 DEF Place, IInv, PcTyped
      <4> QED BY <4>1, <4>2, <4>3 DEF Summarised, ToFreeze
    <3>2. CASE ReadStatus(r) \/ ProbeOwners(r) \/ Unlock(r)
      BY <1>2, <3>2
      DEF ReadStatus, ProbeOwners, Unlock, Place, Summarised, ToFreeze, IInv,
          PcTyped
    <3>3. CASE CrashRecoverer(r)
      BY <1>2, <3>3
      DEF CrashRecoverer, Place, ToFreeze, Summarised, IInv, PcTyped
    <3>4. CASE TerminateOrphan(r)
      BY <1>2, <3>4
      DEF TerminateOrphan, LockToTerminate, GiveUpTerminate, SendTerm,
          GroupGone, SendKill, CancelIncomplete, ForgetChild, Lock, Place,
          Summarised, ToFreeze, IInv, PcTyped
    <3>5. CASE RecoverFinalize(r)
      BY <1>2, <1>3, <3>5
      DEF RecoverFinalize, LockToAdopt, LockToRecover, RefuseRecover,
          WriteInterrupted, Lock, Place, Summarised, ToFreeze, IInv, PcTyped,
          Evidenced, RunExists
    <3> QED BY <3>1, <3>2, <3>3, <3>4, <3>5 DEF Recover
  <2>4. RunExists'
    <3>1. \A q \in Recoverers :
             rpc'[q] \in ToFreeze => runDir
      BY <1>1, <1>2, <2>3 DEF Evidenced, RunExists, Place, IInv, PcTyped
    <3> QED BY <1>2, <2>1, <3>1 DEF Evidenced, RunExists, Present
  <2> QED
    BY <1>2, <2>1, <2>2, <2>3, <2>4, QuietKeepsEvidence DEF Evidenced
<1>4. CASE Written
  <2>1. /\ rpc[r] \in {"checking", "noted", "appended"}
        /\ place \in {"noted", "appended", "summarised"}
        /\ UNCHANGED <<leader, kid>>
    BY <1>2, <1>4
    DEF Interrupt, AppendEvent, WriteSummary, Place, IInv, PcTyped
  <2>2. /\ \A q \in Processes : Place(q) \notin Sealing
        /\ ~manifest.linked
    <3>1. ~manifest.linked
      BY <1>4
      DEF Interrupt, AppendEvent, WriteSummary, PartialRecovery, IInv,
          NoManifestYet, Freezing
    <3> QED BY <1>2, <2>1, <3>1, OneSeals DEF Owning, Sealing
  <2>3. files \in Run /\ runDir
    BY <2>1 DEF SInv, Evidenced, RunExists, ToFreeze
  <2>4. PICK name \in Records, version \in Nat :
            /\ Put(name, version) \/ UNCHANGED files
            /\ name = "summary" => version = Interrupted /\ ~Present("summary")
    BY <1>4 DEF Interrupt, AppendEvent, WriteSummary, Interrupted
  <2>5. /\ Present("summary") => Present("summary")'
        /\ files'["summary"] = Canonical => files["summary"] = Canonical
    BY <2>3, <2>4, PutKeepsOthers DEF Present, Interrupted, Canonical
  <2>6. Present("interruption")' => files'["summary"] # Canonical
    <3>1. CASE Interrupt(r)
      BY <2>3, <2>5, <3>1
      DEF Interrupt, PartialRecovery, Present, Canonical, Run
    <3>2. CASE AppendEvent(r) \/ WriteSummary(r)
      <4>1. files'["interruption"] = files["interruption"]
        <5>1. CASE AppendEvent(r)
          BY <2>3, <5>1, PutKeepsOthers DEF AppendEvent, Interrupted
        <5>2. CASE WriteSummary(r)
          BY <2>3, <5>2, PutKeepsOthers DEF WriteSummary, Interrupted
        <5> QED BY <3>2, <5>1, <5>2
      <4> QED BY <2>5, <4>1 DEF Evidenced, Present
    <3> QED BY <1>4, <3>1, <3>2
  <2>7. SummaryExists'
    <3>1. place = "summarised" => Present("summary")'
      <4>1. CASE Interrupt(r) \/ AppendEvent(r)
        BY <1>2, <4>1 DEF Interrupt, AppendEvent, Place, IInv, PcTyped
      <4>2. CASE WriteSummary(r)
        BY <2>3, <4>2, PutKeepsOthers DEF WriteSummary, Present, Interrupted
      <4> QED BY <1>4, <4>1, <4>2
    <3> QED
      BY <1>2, <2>1, <2>2, <2>5, <3>1 DEF Evidenced, SummaryExists, Summarised
  <2>8. RunExists'
    BY <1>2, <2>3 DEF Evidenced, RunExists
  <2>9. \A q \in Processes :
           \/ Place(q)' = Place(q)
           \/ Place(q) \notin {"crashed", "dead"} /\ Place(q)' \notin Sealing
    BY <1>2, <2>1 DEF Sealing
  <2> QED
    BY <1>2, <2>1, <2>2, <2>3, <2>4, <2>6, <2>7, <2>8, <2>9, WriteKeepsEvidence
<1> QED BY <1>3, <1>4

\* Every behaviour of the worker and the recoverers keeps the invariant of the
\* evidence.
THEOREM EvidenceInvariance == Safe => []EInv
<1>1. Init => EInv
  BY InitEInv
<1>2. IInv /\ SInv /\ EInv /\ [Next]_vars => EInv'
  <2> SUFFICES ASSUME IInv, SInv, EInv, [Next]_vars, NothingOutlives'
               PROVE  Evidenced'
    BY DEF EInv
  <2>1. UNCHANGED open
    BY DEF Next, WorkerStep, CreateRun, Launch, RecordChild, ChildEnded,
       RecordFinalized, Summarise, EndWorker, ReleaseLock, ExitWorker, CrashWorker,
       WorkerOnly, GroupStep, LogGrows, Fork, LeaderDies, KidDies, IdRecycled,
       GroupOnly, Finalize, ComputeEntries, WriteTemporary, LinkManifest,
       RemoveTemporary, Aside, Recover, ReadStatus, ProbeOwners, Unlock,
       CrashRecoverer, Diagnose, TerminateOrphan, LockToTerminate,
       GiveUpTerminate, SendTerm, GroupGone, SendKill, CancelIncomplete,
       ForgetChild, Lock, RecoverFinalize, LockToAdopt, LockToRecover,
       Interrupt, RefuseRecover, AppendEvent, WriteSummary, WriteInterrupted,
       Reads, RunWritten, recVars, crashVars, vars
  <2>2. NothingOutlives /\ Evidenced
    BY <2>1 DEF EInv, NothingOutlives
  <2> QED
    BY <2>2, WorkerKeepsEvidence, GroupKeepsEvidence, FinalizeKeepsEvidence,
       RecovererKeepsEvidence DEF Next
<1> QED BY <1>1, <1>2, Invariance, SilenceInvariance, PTL DEF Safe

\* A recovery that was cut short anywhere, by any number of deaths, is recognised
\* as partial or had finished the evidence, unless somebody died between the link
\* of the manifest and the removal of its temporary file.
THEOREM Resumable == Safe => []ResumableUnlessSealing
<1>1. IInv /\ EInv => ResumableUnlessSealing
  <2> SUFFICES ASSUME IInv, EInv, "seal" \notin open, NothingOutlives,
                      Present("interruption"), lock = Nobody,
                      manifest.linked
               PROVE  ArtifactState = "valid"
    BY DEF ResumableUnlessSealing, RecoveryIsResumable, PartialRecovery, EInv,
       Evidenced
  <2>1. \A p \in Processes : Place(p) # "linked"
    BY RecoveryAssumption
    DEF RecoveryAssumption, IInv, LockExcludes, Owning, WorkerAlive, Place,
       Processes
  <2> QED
    BY <2>1
    DEF EInv, Evidenced, ManifestIsRun, RunExists, SummaryExists, ArtifactState,
       Verified
<1> QED BY <1>1, Invariance, EvidenceInvariance, PTL

\* Evidence that verifies keeps verifying: no later command, crash or stray write
\* changes a run whose manifest was linked, when nothing outlives its leader.
THEOREM StableEvidence == Safe => EvidenceIsStable
<1>1. IInv /\ SInv /\ EInv /\ [Next]_vars =>
         [NothingOutlives /\ ArtifactState = "valid" => ArtifactState' = "valid"]_vars
  <2> SUFFICES ASSUME IInv, SInv, EInv, [Next]_vars, NothingOutlives,
                      ArtifactState = "valid"
               PROVE  ArtifactState' = "valid"
    OBVIOUS
  <2>1. /\ runDir /\ Present("summary") /\ manifest.linked
        /\ manifest.entries = files
    BY DEF ArtifactState, Verified
  <2>2. \A p \in Processes : Place(p) # "linked"
    BY <2>1, NamesDiffer
    DEF EInv, Evidenced, EntriesAreTaken, SInv, Run
  <2>3. UNCHANGED <<files, manifest>> /\ (runDir' = runDir \/ runDir' = TRUE)
    <3>1. CASE WorkerStep
      BY <2>1, <3>1
      DEF IInv, NoManifestYet, Working, WorkerStep, CreateRun, Launch,
         RecordChild, ChildEnded, RecordFinalized, Summarise, EndWorker,
         ReleaseLock, ExitWorker, CrashWorker, runVars
    <3>2. CASE GroupStep \/ UNCHANGED vars
      BY <2>1, <3>2
      DEF EInv, Evidenced, GroupStep, LogGrows, Fork, LeaderDies, KidDies,
         IdRecycled, GroupOnly, vars, runVars
    <3>3. ASSUME NEW p \in Processes, Finalize(p)
          PROVE  UNCHANGED <<files, manifest, runDir>>
      BY <2>1, <2>2, <3>3
      DEF IInv, NoManifestYet, Working, Freezing, Finalize, ComputeEntries,
         WriteTemporary, LinkManifest, RemoveTemporary, Aside, At, Place,
         Processes
    <3>4. ASSUME NEW r \in Recoverers, Recover(r) \/ CrashRecoverer(r)
          PROVE  UNCHANGED <<files, manifest, runDir>>
      BY <2>1, <3>4
      DEF IInv, NoManifestYet, Freezing, Recover, ReadStatus, ProbeOwners,
         Unlock, CrashRecoverer, Diagnose, TerminateOrphan, LockToTerminate,
         GiveUpTerminate, SendTerm, GroupGone, SendKill, CancelIncomplete,
         ForgetChild, Lock, RecoverFinalize, LockToAdopt, LockToRecover,
         Interrupt, RefuseRecover, AppendEvent, WriteSummary, WriteInterrupted,
         PartialRecovery, Reads, RunWritten, runVars
    <3> QED BY <3>1, <3>2, <3>3, <3>4 DEF Next
  <2> QED BY <2>1, <2>3 DEF ArtifactState, Verified, Present
<1> QED
  BY <1>1, Invariance, SilenceInvariance, EvidenceInvariance, PTL
  DEF Safe, EvidenceIsStable
-----------------------------------------------------------------------------
(* A run that is adopted has no owner.                                      *)

\* Places at which a recoverer has found an interruption, or written it.
Noted == {"adopt", "noted", "appended"}

StatusTyped ==
    status \in [state : {"RUNNING"} \cup TerminalStates, code : TerminalCodes,
               child : BOOLEAN]

\* Whatever the windows, an interruption says that nobody the code could match
\* was alive when it was written, and nobody comes back; a summary that says
\* interrupted was written after it.
AInv ==
    /\ StatusTyped
    /\ Present("interruption") => ~OwnedProcess
    /\ files["summary"] \in {0, Canonical, Interrupted}
    /\ files["summary"] = Interrupted => Present("interruption")
    /\ \A r \in Recoverers : rpc[r] \in Noted => Present("interruption")

\* recover_finalize refuses a run that is frozen already while an owner is alive
\* (recovery.py, 566-576); the model has no such action.
AdoptFindsNobody == \A r \in Recoverers : rpc[r] = "adopt" => ~OwnedProcess

\* AInv holds in the initial state.
LEMMA InitAInv == Init => AInv
BY DEF Init, AInv, StatusTyped, TerminalCodes, Noted, Present, NoFiles, Names,
   Records, Interrupted

\* A step after which interruption and summary are what they were, no process is
\* matched that was not, and no recoverer has come to a place of Noted, keeps AInv.
LEMMA LeavesAInv ==
    ASSUME AInv, StatusTyped',
           files'["interruption"] = files["interruption"],
           files'["summary"] = files["summary"],
           OwnedProcess' => OwnedProcess,
           \A r \in Recoverers : rpc'[r] \in Noted => rpc[r] \in Noted
    PROVE  AInv'
BY DEF AInv, Present

\* The worker has no interruption while it lives, and its summary is canonical.
LEMMA WorkerKeepsAInv ==
    ASSUME SInv, AInv, WorkerStep
    PROVE  AInv'
<1>1. WorkerAlive
  BY DEF WorkerStep, WorkerAlive, CreateRun, Launch, RecordChild, ChildEnded,
     RecordFinalized, Summarise, EndWorker, ReleaseLock, ExitWorker, CrashWorker
<1>2. ~Present("interruption") /\ files["summary"] # Interrupted
  BY <1>1 DEF AInv, OwnedProcess
<1>3. UNCHANGED rpc
  BY DEF WorkerStep, CreateRun, Launch, RecordChild, ChildEnded,
     RecordFinalized, Summarise, EndWorker, ReleaseLock, ExitWorker, CrashWorker, WorkerOnly,
     recVars
<1>4. /\ files'["interruption"] = files["interruption"]
      /\ files'["summary"] \in {files["summary"], Canonical}
  <2>1. CASE UNCHANGED files
    BY <2>1
  <2>2. CASE RecordFinalized
    BY <2>2, PutKeepsOthers, NamesDiffer
    DEF SInv, RecordFinalized, Canonical, Records
  <2>3. CASE Summarise
    BY <2>3, PutKeepsOthers, NamesDiffer DEF SInv, Summarise, Canonical, Records
  <2> QED
    BY <2>1, <2>2, <2>3
    DEF WorkerStep, CreateRun, Launch, RecordChild, ChildEnded, EndWorker,
       ReleaseLock, ExitWorker, CrashWorker, runVars
<1>5. StatusTyped'
  <2> USE DEF AInv, StatusTyped, TerminalStates, TerminalCodes
  <2>1. CASE UNCHANGED status
    BY <2>1
  <2>2. CASE RecordChild \/ ChildEnded
    BY <2>2 DEF RecordChild, ChildEnded
  <2>3. CASE EndWorker
    BY <2>3 DEF EndWorker
  <2> QED
    BY <2>1, <2>2, <2>3 DEF WorkerStep, CreateRun, Launch, RecordFinalized,
       Summarise, ReleaseLock, ExitWorker, CrashWorker, ownVars
<1> QED
  BY <1>2, <1>3, <1>4, <1>5 DEF AInv, Present, Canonical, Interrupted

\* finalize and external processes write neither file and match nobody new.
LEMMA OthersKeepAInv ==
    ASSUME SInv, AInv,
           \/ \E p \in Processes : IInv /\ Finalize(p)
           \/ GroupStep \/ UNCHANGED vars
    PROVE  AInv'
<1>1. ASSUME NEW p \in Processes, IInv, Finalize(p)
      PROVE  AInv'
  <2>1. \A name \in Records : files'[name] = files[name]
    <3>1. CASE UNCHANGED files
      BY <3>1
    <3>2. CASE Put(p, 0) \/ Put(p, 1)
      BY <3>2, PutKeepsOthers, NamesDiffer DEF SInv
    <3> QED
      BY <1>1, <3>1, <3>2 DEF Finalize, ComputeEntries, WriteTemporary,
         LinkManifest, RemoveTemporary
  <2>2. UNCHANGED <<status, leader>>
    BY <1>1 DEF Finalize, ComputeEntries, WriteTemporary, LinkManifest,
       RemoveTemporary, Aside, ownVars, groupVars
  <2>3. \E from, to \in {"summarised", "computed", "temporary", "linked", "sealed"} :
           At(p, from) /\ Move(p, to)
    BY <1>1 DEF Finalize, ComputeEntries, WriteTemporary, LinkManifest,
       RemoveTemporary
  <2>4. OwnedProcess' => OwnedProcess
    BY <2>2, <2>3 DEF OwnedProcess, ChildMatches, WorkerAlive, At, Move
  <2>5. \A r \in Recoverers : rpc'[r] \in Noted => rpc[r] \in Noted
    BY <1>1, <2>3 DEF IInv, PcTyped, Move, Noted
  <2>6. StatusTyped'
    BY <2>2 DEF AInv, StatusTyped
  <2> QED BY <2>1, <2>4, <2>5, <2>6, LeavesAInv, NamesDiffer
<1>2. ASSUME GroupStep \/ UNCHANGED vars
      PROVE  AInv'
  <2>1. UNCHANGED <<status, wpc, rpc>> /\ (leader' = leader \/ leader' = "dead")
    BY <1>2 DEF GroupStep, LogGrows, Fork, LeaderDies, KidDies, IdRecycled,
       GroupOnly, vars, ownVars, recVars, groupVars
  <2>2. /\ files'["interruption"] = files["interruption"]
        /\ files'["summary"] = files["summary"]
    <3>1. CASE UNCHANGED files
      BY <3>1
    <3>2. CASE LogGrows
      <4>1. files["log"] + 1 \in Nat
        BY NamesDiffer DEF SInv, Run
      <4> QED BY <3>2, <4>1, NamesDiffer, PutKeepsOthers DEF SInv, LogGrows
    <3> QED
      BY <1>2, <3>1, <3>2 DEF GroupStep, Fork, LeaderDies, KidDies, IdRecycled,
         vars, runVars
  <2>3. OwnedProcess' => OwnedProcess
    BY <2>1 DEF OwnedProcess, ChildMatches, WorkerAlive
  <2>4. StatusTyped'
    BY <2>1 DEF AInv, StatusTyped
  <2> QED BY <2>1, <2>2, <2>3, <2>4, LeavesAInv
<1> QED BY <1>1, <1>2

\* An interruption is written when no process is matched, and a summary after
\* it; who adopts a run has found such a summary.
LEMMA RecovererKeepsAInv ==
    ASSUME IInv, SInv, AInv, NEW r \in Recoverers, Recover(r) \/ CrashRecoverer(r)
    PROVE  AInv'
<1> USE NamesDiffer
    DEF Goto, Reads, RunWritten, ownVars, runVars, groupVars, crashVars
<1>1. /\ wpc' = wpc
      /\ leader' = leader \/ leader' = "dead"
      /\ status' = status \/ status' = Frozen \/ status' = [status EXCEPT !.child = FALSE]
  BY DEF Recover, ReadStatus, ProbeOwners, Diagnose, Unlock, TerminateOrphan,
     LockToTerminate, GiveUpTerminate, SendTerm, GroupGone, SendKill,
     CancelIncomplete, ForgetChild, RecoverFinalize, LockToAdopt, LockToRecover,
     Interrupt, RefuseRecover, AppendEvent, WriteSummary, WriteInterrupted,
     CrashRecoverer, Lock
<1>2. StatusTyped' /\ (status'.child => status.child)
  <2> USE DEF AInv, StatusTyped
  <2>1. CASE status' = status
    BY <2>1
  <2>2. CASE status' = Frozen
    BY <2>2 DEF Frozen, TerminalStates, TerminalCodes
  <2>3. CASE status' = [status EXCEPT !.child = FALSE]
    BY <2>3
  <2> QED BY <1>1, <2>1, <2>2, <2>3
<1>3. OwnedProcess' => OwnedProcess
  BY <1>1, <1>2 DEF OwnedProcess, ChildMatches, WorkerAlive
<1>4. CASE Diagnose(r)
  <2>1. PICK place \in {"terminate", "adopt", "recover", "idle"} :
          /\ rpc' = [rpc EXCEPT ![r] = place]
          /\ place = "adopt" => files["summary"] = Interrupted
    BY <1>4 DEF Diagnose, AfterDecision
  <2>2. UNCHANGED files
    BY <1>4 DEF Diagnose
  <2>3. \A s \in Recoverers :
           rpc'[s] \in Noted => rpc[s] \in Noted \/ files["summary"] = Interrupted
    BY <2>1 DEF IInv, PcTyped, Noted
  <2> QED BY <1>2, <1>3, <2>2, <2>3 DEF AInv, Present
<1>5. CASE Interrupt(r)
  <2>1. /\ files'["interruption"] > 0
        /\ files'["summary"] = files["summary"]
    <3>1. CASE UNCHANGED files /\ Present("interruption")
      BY <3>1 DEF Present
    <3>2. CASE Put("interruption", 1)
      BY <3>2, PutKeepsOthers DEF SInv, Records
    <3> QED BY <1>5, <3>1, <3>2 DEF Interrupt, PartialRecovery
  <2>2. ~OwnedProcess'
    BY <1>3, <1>5 DEF Interrupt
  <2> QED BY <1>2, <2>1, <2>2 DEF AInv, Present
<1>6. CASE WriteSummary(r)
  <2>1. Present("interruption")
    BY <1>6 DEF WriteSummary, AInv, Noted
  <2>2. files'["interruption"] = files["interruption"]
    BY <1>6, PutKeepsOthers DEF WriteSummary, SInv, Interrupted, Records
  <2>3. files'["summary"] \in {files["summary"], Interrupted}
    BY <1>6, PutKeepsOthers DEF WriteSummary, SInv, Interrupted, Records
  <2> QED BY <1>2, <1>3, <2>1, <2>2, <2>3 DEF AInv, Present
<1>7. CASE AppendEvent(r)
  <2>1. /\ files'["interruption"] = files["interruption"]
        /\ files'["summary"] = files["summary"]
    BY <1>7, PutKeepsOthers DEF AppendEvent, SInv, Interrupted, Records
  <2>2. \A s \in Recoverers : rpc'[s] \in Noted => rpc[s] \in Noted
    BY <1>7 DEF AppendEvent, IInv, PcTyped, Noted
  <2> QED BY <1>2, <1>3, <2>1, <2>2, LeavesAInv
<1>8. CASE ~(Diagnose(r) \/ Interrupt(r) \/ WriteSummary(r) \/ AppendEvent(r))
  <2>1. UNCHANGED files
    BY <1>8
    DEF Recover, ReadStatus, ProbeOwners, Unlock, TerminateOrphan,
       LockToTerminate, GiveUpTerminate, SendTerm, GroupGone, SendKill,
       CancelIncomplete, ForgetChild, RecoverFinalize, LockToAdopt,
       LockToRecover, RefuseRecover, WriteInterrupted, CrashRecoverer, Lock
  <2>2. PICK place \in RecovererPlaces \ Noted : rpc' = [rpc EXCEPT ![r] = place]
    <3>1. CASE TerminateOrphan(r)
      BY <3>1
      DEF TerminateOrphan, LockToTerminate, GiveUpTerminate, SendTerm, GroupGone,
          SendKill, CancelIncomplete, ForgetChild, Lock, RecovererPlaces, Noted
    <3>2. CASE RecoverFinalize(r)
      BY <1>8, <3>2
      DEF RecoverFinalize, LockToAdopt, LockToRecover, RefuseRecover,
          WriteInterrupted, Lock, RecovererPlaces, Noted
    <3>3. CASE ReadStatus(r) \/ ProbeOwners(r) \/ Unlock(r) \/ CrashRecoverer(r)
      BY <3>3
      DEF ReadStatus, ProbeOwners, Unlock, CrashRecoverer, RecovererPlaces, Noted
    <3> QED BY <1>8, <3>1, <3>2, <3>3 DEF Recover
  <2>3. \A s \in Recoverers : rpc'[s] \in Noted => rpc[s] \in Noted
    BY <2>2 DEF IInv, PcTyped
  <2> QED BY <1>2, <1>3, <2>1, <2>3, LeavesAInv
<1> QED BY <1>4, <1>5, <1>6, <1>7, <1>8

\* Every behaviour of the worker and the recoverers keeps AInv.
THEOREM AdoptionInvariance == Safe => []AInv
<1>1. Init => AInv
  BY InitAInv
<1>2. IInv /\ SInv /\ AInv /\ [Next]_vars => AInv'
  BY WorkerKeepsAInv, OthersKeepAInv, RecovererKeepsAInv DEF Next
<1> QED BY <1>1, <1>2, Invariance, SilenceInvariance, PTL DEF Safe

\* A recoverer that found the run frozen as interrupted finds no owner of the job
\* alive when it goes on to write the status, however old its decision is and
\* with every window open: the refusal of the code at this point never applies.
THEOREM AdoptionIsUnopposed == Safe => []AdoptFindsNobody
<1>1. AInv => AdoptFindsNobody
  BY DEF AInv, AdoptFindsNobody, Noted
<1> QED BY <1>1, AdoptionInvariance, PTL
-----------------------------------------------------------------------------
(* What CrashedRunIsFrozen rests on besides fairness.                       *)

\* What reconcile_job reads if nobody moves while it reads.
Now ==
    [state |-> status.state, code |-> status.code,
     worker |-> WorkerAlive, child |-> ChildMatches(status),
     lock |-> lock # Nobody, fresh |-> TRUE, run |-> runDir, path |-> FALSE,
     artifact |-> ArtifactState, resume |-> FALSE, control |-> FALSE,
     solves |-> TRUE]

\* The worker was killed before it wrote an outcome, and nobody is at work.
IsLeft ==
    /\ NothingOutlives /\ "seal" \notin open
    /\ wpc = "crashed" /\ lock = Nobody
    /\ runDir /\ status.state = "RUNNING" /\ files["summary"] # Canonical

\* The decision on such a run names the command that brings it nearer its end: an
\* orphan is terminated, evidence that was frozen is adopted, the rest recovered.
IsTakenUp ==
    IsLeft =>
       AfterDecision(Decide(Now).state) =
          IF leader = "alive" THEN {"terminate"}
          ELSE IF ArtifactState = "valid" THEN {"adopt"} ELSE {"recover"}

\* An orphan of a worker that died is recorded, hence terminated first.
LEMMA LeftOrphan ==
    ASSUME SInv, IsLeft, leader = "alive"
    PROVE  AfterDecision(Decide(Now).state) = {"terminate"}
<1>1. status.child /\ ~WorkerAlive
  BY DEF SInv, OrphanIsRecorded, IsLeft, NothingOutlives, WorkerAlive
<1>2. ~Owned(Now) /\ Orphan(Now)
  BY <1>1 DEF Owned, Orphan, Now, ChildMatches, IsLeft
<1>3. Decide(Now).state = "ORPHANED_ACTIVE"
  BY <1>2 DEF Decide, Decision
<1>4. ~PartialRecovery
  BY DEF SInv, InterruptedIsSilent, IsLeft, NothingOutlives, PartialRecovery
<1> QED BY <1>3, <1>4 DEF AfterDecision

\* The evidence of a run that nobody is at work on is absent, half written with
\* an interruption, or frozen.
LEMMA LeftEvidence ==
    ASSUME IInv, SInv, EInv, AInv, IsLeft
    PROVE  \/ ArtifactState = "absent" /\ ~manifest.linked /\ ~Present("summary")
           \/ ArtifactState = "damaged" /\ PartialRecovery
           \/ ArtifactState = "valid" /\ files["summary"] = Interrupted
<1>1. Evidenced /\ runDir /\ files["summary"] \in {0, Interrupted}
  BY DEF EInv, AInv, IsLeft
<1>2. CASE manifest.linked
  <2>1. \A p \in Processes : Place(p) # "linked"
    BY RecoveryAssumption
    DEF RecoveryAssumption, IInv, LockExcludes, Owning, IsLeft, Place, Processes
  <2> QED
    BY <1>1, <1>2, <2>1
    DEF Evidenced, ManifestIsRun, SummaryExists, ArtifactState, Verified,
        Present, IsLeft
<1>3. CASE ~manifest.linked
  BY <1>1, <1>3
  DEF AInv, ArtifactState, Verified, PartialRecovery, Present, Canonical,
      Interrupted
<1> QED BY <1>2, <1>3

\* With no orphan, the decision follows the evidence.
LEMMA LeftSilent ==
    ASSUME IInv, SInv, EInv, AInv, IsLeft, leader # "alive"
    PROVE  AfterDecision(Decide(Now).state) =
              IF ArtifactState = "valid" THEN {"adopt"} ELSE {"recover"}
<1>1. ~Owned(Now) /\ ~Orphan(Now) /\ Silent(Now)
  BY DEF Owned, Orphan, Silent, Now, ChildMatches, IsLeft, WorkerAlive
<1>2. /\ Now.run /\ ~Now.path /\ Now.artifact = ArtifactState
      /\ Now.state = "RUNNING" /\ ~Now.control /\ runDir
  BY DEF Now, IsLeft
<1>3. CASE ArtifactState = "valid"
  <2>1. Decide(Now).state = "FINALIZED"
    BY <1>1, <1>2, <1>3 DEF Decide, Decision
  <2> QED
    BY <1>3, <2>1, LeftEvidence DEF AfterDecision, IsLeft
<1>4. CASE ArtifactState = "damaged"
  <2>1. Decide(Now).state = "EVIDENCE_DAMAGED"
    BY <1>1, <1>2, <1>4 DEF Decide, Decision, Damaged
  <2> QED
    BY <1>2, <1>4, <2>1, LeftEvidence DEF AfterDecision
<1>5. CASE ArtifactState = "absent"
  <2>1. Decide(Now).state = "ORPHANED_STOPPED"
    BY <1>1, <1>2, <1>5
    DEF Decide, Decision, Damaged, Stopped, TerminalStates
  <2> QED
    BY <1>2, <1>5, <2>1 DEF AfterDecision
<1> QED BY <1>3, <1>4, <1>5 DEF ArtifactState

\* However many recoveries died on the way, and wherever, a run whose worker was
\* killed before it wrote an outcome can always be taken up: reconcile_job
\* allows the one command that brings it nearer to being frozen.
THEOREM CrashedRunIsTakenUp == Safe => []IsTakenUp
<1>1. IInv /\ SInv /\ EInv /\ AInv => IsTakenUp
  BY LeftOrphan, LeftSilent DEF IsTakenUp
<1> QED
  BY <1>1, Invariance, SilenceInvariance, EvidenceInvariance,
     AdoptionInvariance, PTL
=============================================================================
