----------------------------- MODULE ModelGateway -----------------------------
(***************************************************************************)
(* models/gateway.py: ModelGateway.generate_structured over the circuit    *)
(* breaker and the transport ledger (models/budgets.py).                   *)
(*                                                                         *)
(* Callers share one gateway.  In normal mode the process has one caller   *)
(* and the candidates are tried in order; in qualification mode every      *)
(* worker calls and the only candidate is the pinned backend, key 1.       *)
(* A request goes through its candidates; at each it is admitted by the    *)
(* circuit, tries, corrects and retries, and leaves with its last failure. *)
(* Of a deadline the model keeps whether there is ample time, too little   *)
(* for a retry, or none.                                                   *)
(***************************************************************************)
EXTENDS CircuitBreaker, FiniteSets, ModelBackends

CONSTANTS
    Callers,        \* threads that use the gateway
    Solo,           \* the only caller in normal mode
    Candidates,     \* number of registered backends
    MaxAttempts,    \* budget.max_transport_attempts
    LineageLimit,   \* lineage_transport_attempt_limit, per mode
    Modes,          \* subset of {"normal", "qualification"}
    MaxRequests     \* bound on the requests of a behaviour

ASSUME GatewayAssumption ==
    /\ Solo \in Callers /\ IsFiniteSet(Callers)
    /\ Candidates \in Nat \ {0}
    /\ Keys = 1..Candidates
    /\ MaxAttempts \in Nat \ {0}
    /\ Modes \subseteq {"normal", "qualification"}
    /\ LineageLimit \in [Modes -> Nat \ {0}]
    /\ MaxRequests \in Nat

VARIABLES
    mode,       \* chosen when the gateway is built
    cancel,     \* what raise_if_cancelled looks at
    ledger,     \* transport attempts used by the lineage of each caller
    overdue,    \* callers whose lineage has passed its total model deadline
    req,        \* the request each caller is in, or the last one it made
    requests,   \* number of requests made
    load        \* history: per key, the requests that were under way at the
                \* backend when its circuit left the closed state (0 while closed)

vars == <<circuit, mode, cancel, ledger, overdue, req, requests, load>>

\* What an exchange can come to besides a value: a failure that the circuit
\* counts, a rate limit with Retry-After, an output that does not fit the schema,
\* or a failure that ends the use of the backend at once.  Other exceptions are
\* Escape; a rejection by policy, which neither backend of the repository raises,
\* is an action of its own.
Answers == {AnswerOf(failure) : failure \in Failures}

\* Of a failure a request keeps whether the circuit counts it.
Class(answer) == IF answer \in Counted THEN answer ELSE "uncounted"

Requests == [at : {"idle", "admit", "try", "sent", "leave"},
             cand : 1..Candidates,
             attempts : 0..MaxAttempts,
             tries : Nat,
             corrected : SUBSET (1..Candidates),
             tried : SUBSET (1..Candidates),
             skipped : SUBSET (1..Candidates),
             time : {"ample", "short", "gone"},
             failure : {"none", "outage", "uncounted"},
             result : {"none", "value", "failed", "deferred", "raised"}]

TypeOK ==
    /\ breaker \in [Keys -> Records] /\ cooled \subseteq Keys
    /\ mode \in Modes
    /\ cancel \in {"none", "requested"}
    /\ ledger \in [Callers -> 0..LineageLimit[mode]]
    /\ overdue \subseteq Callers
    /\ req \in [Callers -> Requests]
    /\ requests \in 0..MaxRequests
    /\ load \in [Keys -> Nat]

NoRequest == [at |-> "idle", cand |-> 1, attempts |-> 0, tries |-> 0,
              corrected |-> {}, tried |-> {}, skipped |-> {}, time |-> "ample",
              failure |-> "none", result |-> "none"]

\* A resumed lineage starts at what it has used, which requests also lead to.
Init ==
    /\ BreakerInit
    /\ mode \in Modes
    /\ cancel = "none"
    /\ ledger = [c \in Callers |-> 0]
    /\ overdue = {}
    /\ req = [c \in Callers |-> NoRequest]
    /\ requests = 0
    /\ load = [k \in Keys |-> 0]

\* registry.candidates(mode): all of them, or the pinned one.
LastCandidate == IF mode = "normal" THEN Candidates ELSE 1

At(c, where) == req[c].at = where
Key(c) == req[c].cand
Running(c) == ~At(c, "idle")
InFlight(k) == {c \in Callers : req[c].at \in {"try", "sent", "leave"} /\ Key(c) = k}

Becomes(c, request) == req' = [req EXCEPT ![c] = request]

\* The request ends: a ModelResult, a GatewayRequestError or another exception.
End(c, result) == Becomes(c, [NoRequest EXCEPT !.result = result])

Aside == UNCHANGED <<mode, cancel, overdue, requests, load>>
-------------------------------------------------------------------------------
Begin(c) ==
    /\ mode = "normal" => c = Solo
    /\ At(c, "idle") /\ requests < MaxRequests
    /\ cancel = "none"
    /\ requests' = requests + 1
    /\ Becomes(c, [NoRequest EXCEPT !.at = "admit",
                      !.time = IF c \in overdue THEN "gone" ELSE "ample"])
    /\ UNCHANGED <<circuit, mode, cancel, ledger, overdue, load>>

Admit(c) ==
    /\ At(c, "admit")
    /\ Passes(Key(c)) \/ Probes(Key(c))
    /\ Becomes(c, [req[c] EXCEPT !.at = "try", !.tries = 0, !.failure = "none"])
    /\ UNCHANGED ledger /\ Aside

\* The pinned backend is deferred at once; another mode goes on to the next
\* candidate and reports a deferral only if every circuit was open.
Defer(c) ==
    /\ At(c, "admit")
    /\ Defers(Key(c))
    /\ IF Key(c) < LastCandidate
       THEN Becomes(c, [req[c] EXCEPT !.cand = @ + 1,
                                        !.skipped = @ \cup {Key(c)}])
       ELSE End(c, IF Cardinality(req[c].skipped) = LastCandidate - 1
                   THEN "deferred" ELSE "failed")
    /\ UNCHANGED ledger /\ Aside
-------------------------------------------------------------------------------
(* One round of the retry loop                                             *)

MayTry(c) == At(c, "try") /\ req[c].attempts < MaxAttempts

CancelledInTry(c) ==
    /\ MayTry(c) /\ cancel = "requested"
    /\ End(c, "raised")
    /\ UNCHANGED <<circuit, ledger>> /\ Aside

\* No time is left: recorded as the backend's timeout although nothing is sent.
DeadlineInTry(c) ==
    /\ MayTry(c) /\ cancel = "none"
    /\ req[c].time = "gone"
    /\ Becomes(c, [req[c] EXCEPT !.at = "leave", !.failure = "outage"])
    /\ UNCHANGED <<circuit, ledger>> /\ Aside

\* Too little time for a retry: the earlier failure stands.
NoRetryWindow(c) ==
    /\ MayTry(c) /\ cancel = "none"
    /\ req[c].time = "short" /\ req[c].tries > 0
    /\ Becomes(c, [req[c] EXCEPT !.at = "leave"])
    /\ UNCHANGED <<circuit, ledger>> /\ Aside

\* Mutant: attempts are counted per backend and never added up.
SendUncounted(c) ==
    /\ MayTry(c) /\ cancel = "none"
    /\ req[c].time # "gone"
    /\ ledger[c] < LineageLimit[mode]
    /\ Becomes(c, [req[c] EXCEPT !.at = "sent", !.tried = @ \cup {Key(c)}])
    /\ UNCHANGED <<circuit, ledger>> /\ Aside

\* Mutant: the attempt is reserved without looking at the limit.
SendOverLimit(c) ==
    /\ MayTry(c) /\ cancel = "none"
    /\ req[c].time # "gone"
    /\ ledger' = [ledger EXCEPT ![c] = @ + 1]
    /\ Becomes(c, [req[c] EXCEPT !.at = "sent", !.attempts = @ + 1,
                                 !.tries = @ + 1, !.tried = @ \cup {Key(c)}])
    /\ UNCHANGED circuit /\ Aside

\* reserve_transport_attempt before the exchange.
Send(c) ==
    /\ MayTry(c) /\ cancel = "none"
    /\ req[c].time # "gone"
    /\ ledger[c] < LineageLimit[mode]
    /\ ledger' = [ledger EXCEPT ![c] = @ + 1]
    /\ Becomes(c, [req[c] EXCEPT !.at = "sent", !.attempts = @ + 1,
                                 !.tries = @ + 1, !.tried = @ \cup {Key(c)}])
    /\ UNCHANGED circuit /\ Aside

\* LineageBudgetExhausted leaves the request without a word to the circuit.
LineageExhausted(c) ==
    /\ MayTry(c) /\ cancel = "none"
    /\ req[c].time # "gone"
    /\ ledger[c] = LineageLimit[mode]
    /\ End(c, "raised")
    /\ UNCHANGED <<circuit, ledger>> /\ Aside
-------------------------------------------------------------------------------
(* What the answer of the backend leads to                                 *)

\* _retry_delay: two delays for a counted failure, Retry-After for a rate limit.
HasDelay(c, answer) ==
    \/ answer = "outage" /\ req[c].tries <= 2
    \/ answer = "rate_limited"

\* Mutant: the attempts left for the other candidates are off by one.
ReservedShort(c) ==
    /\ mode = "normal"
    /\ LastCandidate - Key(c) > 0
    /\ MaxAttempts - req[c].attempts < LastCandidate - Key(c)

\* In normal mode the last attempts are kept for the candidates not tried yet.
Reserved(c) ==
    /\ mode = "normal"
    /\ LastCandidate - Key(c) > 0
    /\ MaxAttempts - req[c].attempts <= LastCandidate - Key(c)

MayCorrect(c) == Key(c) \notin req[c].corrected /\ req[c].attempts < MaxAttempts

MayRetry(c, answer) ==
    /\ HasDelay(c, answer)
    /\ req[c].attempts < MaxAttempts
    /\ ~Reserved(c)

\* A value closes the circuit.
Succeed(c) ==
    /\ At(c, "sent")
    /\ RecordSuccess(Key(c))
    /\ load' = [load EXCEPT ![Key(c)] = 0]
    /\ End(c, "value")
    /\ UNCHANGED <<ledger, mode, cancel, overdue, requests>>

\* A cancellation, a failed listener or an error of the host leaves the request.
Escape(c) ==
    /\ At(c, "sent")
    /\ End(c, "raised")
    /\ UNCHANGED <<circuit, ledger>> /\ Aside

RejectedByPolicy(c) ==
    /\ At(c, "sent")
    /\ RecordFailure(Key(c), "policy")
    /\ End(c, "failed")
    /\ UNCHANGED ledger /\ Aside

\* One correction of the output per backend, sent again without delay.
Correct(c) ==
    /\ At(c, "sent")
    /\ MayCorrect(c)
    /\ Becomes(c, [req[c] EXCEPT !.at = "try", !.failure = "uncounted",
                                 !.corrected = @ \cup {Key(c)}])
    /\ UNCHANGED <<circuit, ledger>> /\ Aside

\* After the delay, for which there must be time.
Retry(c) ==
    /\ At(c, "sent")
    /\ req[c].time # "gone"
    /\ \E answer \in Answers :
         /\ MayRetry(c, answer)
         /\ Becomes(c, [req[c] EXCEPT !.at = "try", !.failure = Class(answer)])
    /\ UNCHANGED <<circuit, ledger>> /\ Aside

GiveUp(c) ==
    /\ At(c, "sent")
    /\ \E answer \in Answers :
         /\ answer = "misfit" => ~MayCorrect(c)
         /\ MayRetry(c, answer) => req[c].time # "ample"
         /\ Becomes(c, [req[c] EXCEPT !.at = "leave", !.failure = Class(answer)])
    /\ UNCHANGED <<circuit, ledger>> /\ Aside

\* The failure is recorded with the circuit of the candidate, and the request
\* goes on to the next one if the mode and the attempts allow it.
LeaveCandidate(c) ==
    /\ At(c, "leave")
    /\ RecordFailure(Key(c), req[c].failure)
    /\ load' = IF breaker[Key(c)].state = "closed" /\ breaker'[Key(c)].state = "open"
               THEN [load EXCEPT ![Key(c)] = Cardinality(InFlight(Key(c)))]
               ELSE load
    /\ IF Key(c) < LastCandidate /\ req[c].attempts < MaxAttempts
       THEN Becomes(c, [req[c] EXCEPT !.at = "admit", !.cand = @ + 1])
       ELSE End(c, "failed")
    /\ UNCHANGED <<ledger, mode, cancel, overdue, requests>>
-------------------------------------------------------------------------------
(* The environment                                                         *)

Cancel ==
    /\ cancel' = "requested"
    /\ UNCHANGED <<circuit, mode, ledger, overdue, req, requests, load>>

\* Time passes: less of the stage is left, or none.
TimeShrinks(c) ==
    /\ Running(c) /\ req[c].time = "ample"
    /\ Becomes(c, [req[c] EXCEPT !.time = "short"])
    /\ UNCHANGED <<circuit, ledger>> /\ Aside

DeadlinePasses(c) ==
    /\ Running(c) /\ req[c].time # "gone"
    /\ Becomes(c, [req[c] EXCEPT !.time = "gone"])
    /\ overdue' \in {overdue, overdue \cup {c}}
    /\ UNCHANGED <<circuit, mode, cancel, ledger, requests, load>>

Cooldown ==
    /\ \E k \in Keys : CooldownPasses(k)
    /\ UNCHANGED <<mode, cancel, ledger, overdue, req, requests, load>>

\* A qualification worker takes the next task, which is another lineage.
NextTask(c) ==
    /\ mode = "qualification"
    /\ At(c, "idle") /\ (ledger[c] > 0 \/ c \in overdue)
    /\ ledger' = [ledger EXCEPT ![c] = 0]
    /\ overdue' = overdue \ {c}
    /\ UNCHANGED <<circuit, mode, cancel, req, requests, load>>
-------------------------------------------------------------------------------
TryRound(c) ==
    \/ CancelledInTry(c) \/ DeadlineInTry(c) \/ NoRetryWindow(c) \/ Send(c)
    \/ LineageExhausted(c)

Answered(c) ==
    \/ Succeed(c) \/ Escape(c) \/ RejectedByPolicy(c) \/ Correct(c) \/ Retry(c)
    \/ GiveUp(c)

\* generate_structured, from its admission to its end.
Generate(c) ==
    Admit(c) \/ Defer(c) \/ TryRound(c) \/ Answered(c) \/ LeaveCandidate(c)

Next ==
    \/ Cancel \/ Cooldown
    \/ \E c \in Callers :
         Begin(c) \/ Generate(c) \/ TimeShrinks(c) \/ DeadlinePasses(c) \/ NextTask(c)

Safe == Init /\ [][Next]_vars

\* A thread that is in a request goes on, and an exchange is bounded by its
\* timeout, so it is answered.
Spec == Safe /\ \A c \in Callers : WF_vars(Generate(c))
-------------------------------------------------------------------------------
(* Properties                                                              *)

\* An outage never brings a backend more requests at a time than it had when its
\* circuit opened: the workers that come to an open circuit together at the end of
\* its cooldown are not let through together, and each failure that arrives late
\* and opens it again, which may put another probe beside one that is still under
\* way, takes its own request out (before_request, record_failure).
OutageIsNotAmplified ==
    \A k \in Keys :
       breaker[k].state # "closed" => Cardinality(InFlight(k)) <= load[k]

\* A request that gives up on its last candidate in normal mode with time left
\* has asked every backend whose circuit was not open: retries never use up the
\* attempts of a candidate that was not asked yet.  (An output correction may,
\* and the premise excludes it.)
EveryCandidateIsTried ==
    [][\A c \in Callers :
         /\ mode = "normal" /\ Candidates <= MaxAttempts
         /\ At(c, "leave") /\ ~Running(c)'
         /\ req[c].time = "ample" /\ req[c].corrected = {}
         => req[c].tried \cup req[c].skipped = 1..Candidates]_vars

\* Every request ends, whatever the backends answer.
RequestsEnd == \A c \in Callers : Running(c) ~> ~Running(c)
===============================================================================
