---------------------------- MODULE CircuitBreaker ----------------------------
(***************************************************************************)
(* models/circuit_breaker.py: SharedCircuitBreaker.                        *)
(*                                                                         *)
(* One record per key (backend, model, identity); each operation holds the *)
(* breaker's lock from its first line to its last and is one step.  Time   *)
(* is the set cooled: cooldown_seconds have passed since opened_at.        *)
(* probe_in_flight is written and never read by the code: it is left out.  *)
(***************************************************************************)
EXTENDS Naturals

CONSTANTS
    Keys,       \* keys of the backends
    Threshold   \* failure_threshold

ASSUME BreakerAssumption == Threshold \in Nat \ {0}

VARIABLES
    breaker,  \* a record per key
    cooled    \* keys whose circuit opened cooldown_seconds ago or earlier

\* Failure kinds of a backend that its circuit counts: OVERLOADED,
\* NETWORK_UNAVAILABLE, TIMEOUT and PROCESS_INTERRUPTED are one kind here.
Counted == {"outage"}

\* _CircuitRecord
Records == [state : {"closed", "open", "half_open"}, failures : 0..Threshold]

Fresh == [state |-> "closed", failures |-> 0]

Opened == [state |-> "open", failures |-> Threshold]

circuit == <<breaker, cooled>>

BreakerInit == breaker = [k \in Keys |-> Fresh] /\ cooled = {}

\* Mutant: a half-open circuit lets everybody through.
PassesHalfOpen(k) ==
    breaker[k].state \in {"closed", "half_open"} /\ UNCHANGED circuit

\* before_request: a closed circuit lets everybody through ...
Passes(k) == breaker[k].state = "closed" /\ UNCHANGED circuit

\* ... an open one that has cooled down lets one probe through ...
Probes(k) ==
    /\ breaker[k].state = "open" /\ k \in cooled
    /\ breaker' = [breaker EXCEPT ![k].state = "half_open"]
    /\ UNCHANGED cooled

\* ... and any other raises CircuitDeferredError.
Defers(k) ==
    /\ breaker[k].state # "closed"
    /\ ~(breaker[k].state = "open" /\ k \in cooled)
    /\ UNCHANGED circuit

\* record_success
RecordSuccess(k) ==
    /\ breaker' = [breaker EXCEPT ![k] = Fresh]
    /\ cooled' = cooled \ {k}

\* record_failure: a counted failure opens a half-open circuit, and any other
\* that reached the threshold (above which the count makes no difference).
Opens(k) == breaker[k].state = "half_open" \/ breaker[k].failures + 1 >= Threshold

RecordFailure(k, kind) ==
    \/ kind \notin Counted /\ UNCHANGED circuit
    \/ /\ kind \in Counted /\ Opens(k)
       /\ breaker' = [breaker EXCEPT ![k] = Opened]
       /\ cooled' = cooled \ {k}
    \/ /\ kind \in Counted /\ ~Opens(k)
       /\ breaker' = [breaker EXCEPT ![k].failures = @ + 1]
       /\ UNCHANGED cooled

\* cooldown_seconds after opened_at.
CooldownPasses(k) ==
    /\ breaker[k].state = "open"
    /\ cooled' = cooled \cup {k}
    /\ UNCHANGED breaker
===============================================================================
