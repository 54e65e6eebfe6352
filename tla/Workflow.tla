------------------------------- MODULE Workflow -------------------------------
(***************************************************************************)
(* The journal of one run: the events a solve appends to                   *)
(* workflow-events.jsonl, the checkpoints it writes before an event says   *)
(* that a stage is complete, its end (final event, summary, manifest), a   *)
(* process that dies anywhere, the recovery that finishes the journal in   *)
(* its place, and a window that follows it meanwhile.                      *)
(*                                                                         *)
(* The journal is a sequence of pieces: a line is the two halves of an     *)
(* event and a newline, and a write that is cut short leaves some of them. *)
(* Concurrent recoveries, and what else a recovery checks, are those of    *)
(* module JobRecovery.                                                     *)
(***************************************************************************)
EXTENDS Naturals, FiniteSets, SequencesExt

CONSTANTS
  MaxAttempts,  \* task.resource_budget.max_attempts
  MaxDeaths,    \* bound: processes that die
  MaxLag        \* bound: pieces the window is behind the journal

ASSUME WorkflowAssumption == {MaxAttempts, MaxLag} \subseteq Nat \ {0} /\ MaxDeaths \in Nat

VARIABLES
  journal,      \* the pieces of workflow-events.jsonl
  writing,      \* the pieces the writer has still to write
  saved,        \* checkpoints, as <<name, attempt>>
  run,          \* interruption.json, summary.json and the manifest
  pc,           \* the process of the run
  rec,          \* recover_finalize
  window,       \* the cursor of the window, and the timeline it shows
  cancel,       \* cancellation was requested
  deaths

disk == <<journal, writing, saved, run>>
vars == <<disk, pc, rec, window, cancel, deaths>>

-----------------------------------------------------------------------------
(* Lines.                                                                  *)

Newline == [part |-> "newline", event |-> <<>>]
Half(part, e) == [part |-> part, event |-> e]
Line(e) == <<Half("head", e), Half("rest", e), Newline>>

\* A reader takes a line that holds one event and nothing else; the last line
\* need not be ended.
IsEvent(ps, i) ==
  /\ ps[i].part = "head"
  /\ i < Len(ps) /\ ps[i + 1] = Half("rest", ps[i].event)
  /\ i = 1 \/ ps[i - 1] = Newline
  /\ i + 1 = Len(ps) \/ ps[i + 2] = Newline

\* The events of the readable lines, in the order of the file.
Events(ps) ==
  LET read[i \in 0..Len(ps)] ==
        IF i = 0 THEN <<>>
        ELSE IF IsEvent(ps, i) THEN Append(read[i - 1], ps[i].event)
        ELSE read[i - 1]
  IN read[Len(ps)]

\* _last_completed_stage, and the evidence of a recovery.
Completed(es) == {k \in DOMAIN es : es[k].state = "completed"}

LastCompleted(es) ==
  IF Completed(es) = {} THEN "none" ELSE es[Max(Completed(es))].stage

\* _read_last_sequence, and the evidence of a recovery: events are numbered from
\* one and what cannot be read has no number.
LastSequence(ps) ==
  LET es == Events(ps) IN IF es = <<>> THEN 0 ELSE Last(es).seq

-----------------------------------------------------------------------------
(* What a solve does.                                                      *)

\* A step of the solve: the stage it opens, the checkpoint it saves, the stage
\* it closes, and whether the coordinator advances it.
Step(opens, saves, closes) ==
  [opens |-> opens, saves |-> saves, closes |-> closes, advanced |-> FALSE]
Advance(stage, saves) ==
  [opens |-> stage, saves |-> saves, closes |-> stage, advanced |-> TRUE]

Design == <<
  Step("none", "none", "CONTEXT_READY"),
  Step("INTERPRETING_INTENT", "simulation-intent", "INTERPRETING_INTENT"),
  Step("DESIGNING_CASE", "case-design-proposal", "DESIGNING_CASE"),
  Step("none", "risk-decision", "none") >>

\* plan_before_authoring and record_case_authored.
Contracts == <<
  Advance("ACCEPTANCE_COMPILED", "acceptance-plan"),
  Advance("OBSERVATION_PLANNED", "observation-plan"),
  Step("MODEL_GENERATION_STARTED", "none", "none"),
  Advance("CASE_AUTHORED", "case-authored"),
  Step("none", "active-plan", "PLAN_READY") >>

\* An attempt, evaluate_after_evidence, and the repair that follows.
Attempt == <<
  Step("none", "none", "STATIC_INSPECTION_COMPLETE"),
  Step("none", "run-assessment", "RUN_ASSESSED"),
  Advance("POSTPROCESSED", "derived-metrics"),
  Advance("ACCEPTANCE_EVALUATED", "result-report"),
  Step("none", "repair-evidence", "none"),
  Step("MODEL_REPAIR_STARTED", "active-plan", "REPAIR_APPLIED") >>

Program == Design \o Contracts \o Attempt
Loop == Len(Design) + Len(Contracts) + 1
Planned == Loop - 1
Evaluated == Loop + 3

\* Mutant: the repaired plan is named like the plan it repairs.
NameOfAttempt(step, i, attempt) ==
  <<step.saves, IF i < Planned THEN 0 ELSE attempt>>

\* The plan a repair makes is that of the next attempt; names of the stages
\* before the attempts carry none.
NameOf(step, i, attempt) ==
  <<step.saves, IF i < Planned THEN 0
                ELSE IF i = Len(Program) THEN attempt + 1 ELSE attempt>>

Init ==
  /\ journal = <<>> /\ writing = <<>> /\ saved = {}
  /\ run = [interruption |-> FALSE, summary |-> "none", last |-> "none",
            manifest |-> FALSE]
  /\ pc = [at |-> "step", i |-> 1, attempt |-> 1, sequence |-> 0,
           outcome |-> "none", last |-> "none"]
  /\ rec = [at |-> "idle", sequence |-> 0, last |-> "none"]
  /\ window = [offset |-> 0, tail |-> <<>>, timeline |-> <<>>]
  /\ cancel = FALSE /\ deaths = 0

Now == Program[pc.i]
Rest == UNCHANGED <<rec, window, cancel, deaths>>

\* WorkflowStore.record: the next number, one line, then the number is taken.
Record(stage, state, next) ==
  /\ writing' = Line([seq |-> pc.sequence + 1, stage |-> stage, state |-> state,
                      attempt |-> pc.attempt])
  /\ pc' = [next EXCEPT !.sequence = pc.sequence + 1]
  /\ UNCHANGED <<journal, saved, run>> /\ Rest

Go(next) == pc' = next /\ UNCHANGED disk /\ Rest

\* The pieces reach the file some at a time.
Write ==
  /\ writing # <<>>
  /\ \E k \in DOMAIN writing :
       /\ Len(journal) + k <= window.offset + MaxLag
       /\ journal' = journal \o SubSeq(writing, 1, k)
       /\ writing' = SubSeq(writing, k + 1, Len(writing))
  /\ UNCHANGED <<saved, run, pc, rec, window, cancel, deaths>>

Ready(at) == pc.at = at /\ writing = <<>>

Finishing(outcome) == [pc EXCEPT !.at = "finish", !.outcome = outcome]

\* advance is told of a cancellation before it opens a stage.  After an attempt
\* the failure it makes of it is finished like any other.
Begin ==
  /\ Ready("step")
  /\ IF Now.advanced /\ cancel
     THEN Record(Now.opens, "cancelled",
                 Finishing(IF pc.i > Planned THEN "failed" ELSE "cancelled"))
     ELSE IF Now.opens # "none"
          THEN Record(Now.opens, "started", [pc EXCEPT !.at = "work"])
          ELSE Go([pc EXCEPT !.at = "work"])

\* A service of the coordinator that fails is recorded; the solve ends with any
\* other failure, a deferral or a cancellation without an event of its stage.
Work ==
  /\ Ready("work")
  /\ \/ Go([pc EXCEPT !.at = "save"])
     \/ Now.advanced /\ Record(Now.closes, "failed", Finishing("failed"))
     \/ /\ ~Now.advanced
        /\ \E outcome \in {"failed", "deferred"}
                          \cup (IF cancel THEN {"cancelled"} ELSE {}) :
             Go(Finishing(outcome))

\* A checkpoint is written once; a name that is taken raises.
Save ==
  LET name == NameOf(Now, pc.i, pc.attempt)
  IN /\ Ready("save")
     /\ saved' = IF Now.saves = "none" THEN saved ELSE saved \cup {name}
     /\ pc' = [pc EXCEPT !.at = IF name \in saved THEN "raised" ELSE "close"]
     /\ UNCHANGED <<journal, writing, run>> /\ Rest

\* What comes after a step: a plan may be all that was asked for; an evaluated
\* attempt ends the solve or is repaired.
After ==
  LET next == [pc EXCEPT !.at = "step", !.i = @ + 1]
  IN CASE pc.i = Planned -> {next, Finishing("completed"), Finishing("failed")}
       [] pc.i = Evaluated -> {Finishing("completed"), Finishing("failed")}
                              \cup (IF pc.attempt < MaxAttempts THEN {next} ELSE {})
       [] pc.i = Len(Program) -> {[next EXCEPT !.i = Loop, !.attempt = @ + 1]}
       [] OTHER -> {next}

Close ==
  /\ Ready("close")
  /\ \E next \in After :
       IF Now.closes = "none" THEN Go(next)
       ELSE Record(Now.closes, "completed", next)

-----------------------------------------------------------------------------
(* _finish: a store of its own, the final event, the summary, the manifest. *)

Final(sequence, state) ==
  [seq |-> sequence, stage |-> "RUN_FINALIZED", state |-> state, attempt |-> 0]

Finish ==
  /\ Ready("finish")
  /\ LET sequence == LastSequence(journal)
     IN /\ writing' = Line(Final(sequence + 1, pc.outcome))
        /\ pc' = [pc EXCEPT !.at = "summarise", !.sequence = sequence + 1,
                            !.last = IF pc.outcome = "completed" THEN "RUN_FINALIZED"
                                     ELSE LastCompleted(Events(journal))]
  /\ UNCHANGED <<journal, saved, run>> /\ Rest

Summarise ==
  /\ Ready("summarise")
  /\ run' = [run EXCEPT !.summary = pc.outcome, !.last = pc.last]
  /\ pc' = [pc EXCEPT !.at = "seal"]
  /\ UNCHANGED <<journal, writing, saved>> /\ Rest

Seal ==
  /\ Ready("seal")
  /\ run' = [run EXCEPT !.manifest = TRUE]
  /\ pc' = [pc EXCEPT !.at = "done"]
  /\ UNCHANGED <<journal, writing, saved>> /\ Rest

RequestCancel ==
  /\ ~cancel /\ cancel' = TRUE
  /\ UNCHANGED <<disk, pc, rec, window, deaths>>

\* The process dies, perhaps in the middle of a line.
Die ==
  /\ pc.at \notin {"done", "raised", "dead"} /\ deaths < MaxDeaths
  /\ pc' = [pc EXCEPT !.at = "dead"]
  /\ writing' = <<>>
  /\ deaths' = deaths + 1
  /\ UNCHANGED <<journal, saved, run, rec, window, cancel>>

-----------------------------------------------------------------------------
(* recover_finalize of a run whose process is dead.                        *)

\* The evidence is read before anything is written, and again by a recovery that
\* takes up an unfinished one.
RecoverBegin ==
  /\ pc.at = "dead" /\ rec.at = "idle" /\ ~run.manifest
  /\ run.summary = "none" \/ (run.interruption /\ run.summary = "interrupted")
  /\ rec' = [at |-> "event", sequence |-> LastSequence(journal),
             last |-> LastCompleted(Events(journal))]
  /\ run' = [run EXCEPT !.interruption = TRUE]
  /\ UNCHANGED <<journal, writing, saved, pc, window, cancel, deaths>>

HasInterrupted ==
  \E k \in DOMAIN Events(journal) :
    /\ Events(journal)[k].stage = "RUN_FINALIZED"
    /\ Events(journal)[k].state = "interrupted"

\* A line that was cut short is ended first.
Separator ==
  IF journal # <<>> /\ Last(journal) # Newline THEN <<Newline>> ELSE <<>>

\* Mutant: any final event will do.
RecoverEventOnce ==
  /\ rec.at = "event"
  /\ writing' = IF \E k \in DOMAIN Events(journal) :
                     Events(journal)[k].stage = "RUN_FINALIZED" THEN <<>>
                ELSE Separator \o Line(Final(rec.sequence + 1, "interrupted"))
  /\ rec' = [rec EXCEPT !.at = "summary"]
  /\ UNCHANGED <<journal, saved, run, pc, window, cancel, deaths>>

RecoverEvent ==
  /\ rec.at = "event"
  /\ writing' = IF HasInterrupted THEN <<>>
                ELSE Separator \o Line(Final(rec.sequence + 1, "interrupted"))
  /\ rec' = [rec EXCEPT !.at = "summary"]
  /\ UNCHANGED <<journal, saved, run, pc, window, cancel, deaths>>

RecoverSummary ==
  /\ rec.at = "summary" /\ writing = <<>>
  /\ run' = IF run.summary # "none" THEN run
            ELSE [run EXCEPT !.summary = "interrupted", !.last = rec.last]
  /\ rec' = [rec EXCEPT !.at = "seal"]
  /\ UNCHANGED <<journal, writing, saved, pc, window, cancel, deaths>>

RecoverSeal ==
  /\ rec.at = "seal"
  /\ run' = [run EXCEPT !.manifest = TRUE]
  /\ rec' = [rec EXCEPT !.at = "idle"]
  /\ UNCHANGED <<journal, writing, saved, pc, window, cancel, deaths>>

RecoverDies ==
  /\ rec.at # "idle" /\ deaths < MaxDeaths
  /\ rec' = [rec EXCEPT !.at = "idle"]
  /\ writing' = <<>>
  /\ deaths' = deaths + 1
  /\ UNCHANGED <<journal, saved, run, pc, window, cancel>>

-----------------------------------------------------------------------------
(* IncrementalLineCursor.read, and the timeline of the window.             *)

\* The bytes up to the last newline are lines; the others are kept.
Ended(bytes) == Max({0} \cup {i \in DOMAIN bytes : bytes[i] = Newline})

\* The timeline is sorted by number; equal numbers stay as they came.
Shown(timeline, es) ==
  LET all == timeline \o es
      Before(j, k) == all[j].seq < all[k].seq \/ (all[j].seq = all[k].seq /\ j < k)
      Place(k) == Cardinality({j \in DOMAIN all : Before(j, k)}) + 1
  IN [i \in DOMAIN all |-> all[CHOOSE k \in DOMAIN all : Place(k) = i]]

\* Mutant: what does not end in a newline is not kept.
FollowWithoutTail ==
  LET bytes == SubSeq(journal, window.offset + 1, Len(journal))
      end == Ended(bytes)
  IN /\ window.offset < Len(journal)
     /\ window' = [offset |-> Len(journal), tail |-> <<>>,
                   timeline |-> Shown(window.timeline, Events(SubSeq(bytes, 1, end)))]
     /\ UNCHANGED <<disk, pc, rec, cancel, deaths>>

Follow ==
  LET bytes == window.tail \o SubSeq(journal, window.offset + 1, Len(journal))
      end == Ended(bytes)
  IN /\ window.offset < Len(journal)
     /\ window' = [offset |-> Len(journal),
                   tail |-> SubSeq(bytes, end + 1, Len(bytes)),
                   timeline |-> Shown(window.timeline, Events(SubSeq(bytes, 1, end)))]
     /\ UNCHANGED <<disk, pc, rec, cancel, deaths>>

-----------------------------------------------------------------------------
Solve == Write \/ Begin \/ Work \/ Save \/ Close \/ Finish \/ Summarise \/ Seal

Recover == \/ RecoverBegin \/ RecoverEvent \/ RecoverSummary \/ RecoverSeal
           \/ RecoverDies

Next == Solve \/ Recover \/ Follow \/ RequestCancel \/ Die

Spec == Init /\ [][Next]_vars

-----------------------------------------------------------------------------
(* Properties.                                                             *)

\* Every event that says a stage is complete says it once in an attempt, the
\* checkpoint of that stage and attempt is on disk, and none was refused as taken.
CompletedIsSaved ==
  LET es == Events(journal)
  IN /\ pc.at # "raised"
     /\ \A k \in Completed(es) :
          /\ \A m \in Completed(es) :
               m # k => es[m].stage # es[k].stage \/ es[m].attempt # es[k].attempt
          /\ \A i \in DOMAIN Program :
               Program[i].closes = es[k].stage /\ Program[i].saves # "none" =>
                 NameOf(Program[i], i, es[k].attempt) \in saved

\* A summary says how the journal ends: its last event is the final one, with the
\* state of the summary, and the last stage completed is the one it names.
SummaryIsJournal ==
  run.summary # "none" =>
    LET es == Events(journal)
    IN /\ es # <<>>
       /\ Last(es).stage = "RUN_FINALIZED" /\ Last(es).state = run.summary
       /\ run.last = LastCompleted(es)

\* The events that can be read are numbered from one without a gap or a
\* repetition, wherever a process died in the middle of a line, and the window
\* shows them so: none twice, none missing, and all of them when it has read a
\* journal whose last line is ended.
TimelineFollows ==
  LET es == Events(journal)
  IN /\ \A k \in DOMAIN es : es[k].seq = k
     /\ IsPrefix(window.timeline, es)
     /\ window.offset = Len(journal) /\ window.tail = <<>> => window.timeline = es
===============================================================================
