---------------------- MODULE GatewayAndAcceptanceProofs ----------------------
(*****************************************************************************)
(* Proofs about ModelGateway, for any number of callers, backends,           *)
(* attempts and requests; and, after them, about Acceptance, which judges    *)
(* what a run computed by the intent that a model interpreted. The two       *)
(* parts share nothing.                                                      *)
(*****************************************************************************)
EXTENDS ModelGateway, Acceptance, FiniteSetTheorems, SequenceTheorems, WellFoundedInduction,
        TLAPS

BreakerOK == breaker \in [Keys -> Records] /\ cooled \subseteq Keys

\* The operations of the circuit keep its records well typed.
LEMMA BreakerTyped ==
    ASSUME BreakerOK, NEW k \in Keys, NEW kind,
           \/ Passes(k) \/ Probes(k) \/ Defers(k) \/ RecordSuccess(k)
           \/ RecordFailure(k, kind) \/ CooldownPasses(k) \/ UNCHANGED circuit
    PROVE  BreakerOK'
<1> USE BreakerAssumption DEF BreakerAssumption, BreakerOK, Records, circuit
<1>1. CASE Passes(k) \/ Defers(k) \/ CooldownPasses(k) \/ UNCHANGED circuit
  BY <1>1 DEF Passes, Defers, CooldownPasses
<1>2. CASE Probes(k)
  BY <1>2 DEF Probes
<1>3. CASE RecordSuccess(k)
  BY <1>3 DEF RecordSuccess, Fresh
<1>4. CASE RecordFailure(k, kind)
  BY <1>4 DEF RecordFailure, Opens, Opened
<1> QED BY <1>1, <1>2, <1>3, <1>4

\* A step that gives one caller a well typed request keeps them all well typed.
LEMMA RequestTyped ==
    ASSUME req \in [Callers -> Requests], NEW c \in Callers, NEW r \in Requests,
           Becomes(c, r)
    PROVE  req' \in [Callers -> Requests]
    BY DEF Becomes

LEMMA NoRequestTyped ==
    ASSUME NEW result \in {"none", "value", "failed", "deferred", "raised"}
    PROVE  /\ NoRequest \in Requests
           /\ [NoRequest EXCEPT !.result = result] \in Requests
    BY GatewayAssumption DEF GatewayAssumption, NoRequest, Requests

LEMMA SentTyped ==
    ASSUME NEW r \in Requests, r.attempts < MaxAttempts
    PROVE  [r EXCEPT !.at = "sent", !.attempts = @ + 1, !.tries = @ + 1,
                     !.tried = @ \cup {r.cand}] \in Requests
<1>1. r.attempts + 1 \in 0..MaxAttempts
  BY GatewayAssumption DEF GatewayAssumption, Requests
<1>2. r.tried \cup {r.cand} \in SUBSET (1..Candidates)
  BY DEF Requests
<1>3. r.tries + 1 \in Nat
  BY DEF Requests
<1> QED BY <1>1, <1>2, <1>3 DEF Requests

LEMMA AdvancedTyped ==
    ASSUME NEW r \in Requests, r.cand < LastCandidate
    PROVE  /\ [r EXCEPT !.at = "admit", !.cand = @ + 1] \in Requests
           /\ [r EXCEPT !.cand = @ + 1, !.skipped = @ \cup {r.cand}] \in Requests
<1>1. r.cand + 1 \in 1..Candidates
  BY GatewayAssumption DEF GatewayAssumption, Requests, LastCandidate
<1>2. r.skipped \cup {r.cand} \in SUBSET (1..Candidates)
  BY DEF Requests
<1> QED BY <1>1, <1>2 DEF Requests

LEMMA AdmittedTyped ==
    ASSUME NEW time \in {"ample", "short", "gone"}
    PROVE  [NoRequest EXCEPT !.at = "admit", !.time = time] \in Requests
<1>1. NoRequest \in Requests
  BY NoRequestTyped
<1> QED BY <1>1 DEF Requests

\* Whatever a round of the retry loop does to the request of its caller.
LEMMA TryRoundTyped ==
    ASSUME TypeOK, NEW c \in Callers, TryRound(c)
    PROVE  req' \in [Callers -> Requests]
<1>0. req \in [Callers -> Requests] /\ req[c] \in Requests
  BY DEF TypeOK
<1>1. CASE CancelledInTry(c) \/ LineageExhausted(c)
  BY <1>0, <1>1, NoRequestTyped, RequestTyped
  DEF CancelledInTry, LineageExhausted, End
<1>2. CASE DeadlineInTry(c)
  <2>1. [req[c] EXCEPT !.at = "leave", !.failure = "outage"] \in Requests
    BY <1>0 DEF Requests
  <2> QED BY <1>0, <1>2, <2>1, RequestTyped DEF DeadlineInTry
<1>3. CASE NoRetryWindow(c)
  <2>1. [req[c] EXCEPT !.at = "leave"] \in Requests
    BY <1>0 DEF Requests
  <2> QED BY <1>0, <1>3, <2>1, RequestTyped DEF NoRetryWindow
<1>4. CASE Send(c)
  <2>1. [req[c] EXCEPT !.at = "sent", !.attempts = @ + 1, !.tries = @ + 1,
                         !.tried = @ \cup {Key(c)}] \in Requests
    BY <1>0, <1>4, SentTyped DEF Send, MayTry, Key
  <2> QED BY <1>0, <1>4, <2>1, RequestTyped DEF Send
<1> QED BY <1>1, <1>2, <1>3, <1>4 DEF TryRound

\* Whatever an answer of the backend does to the request of its caller.
LEMMA AnsweredTyped ==
    ASSUME TypeOK, NEW c \in Callers, Answered(c)
    PROVE  req' \in [Callers -> Requests]
<1>0. req \in [Callers -> Requests] /\ req[c] \in Requests
  BY DEF TypeOK
<1>1. CASE Succeed(c) \/ Escape(c) \/ RejectedByPolicy(c)
  BY <1>0, <1>1, NoRequestTyped, RequestTyped
  DEF Succeed, Escape, RejectedByPolicy, End
<1>2. CASE Correct(c)
  <2>1. [req[c] EXCEPT !.at = "try", !.failure = "uncounted",
                       !.corrected = @ \cup {Key(c)}] \in Requests
    BY <1>0 DEF Requests, Key
  <2> QED BY <1>0, <1>2, <2>1, RequestTyped DEF Correct
<1>3. CASE Retry(c)
  <2>1. PICK answer \in Answers :
            Becomes(c, [req[c] EXCEPT !.at = "try", !.failure = Class(answer)])
    BY <1>3 DEF Retry
  <2>2. [req[c] EXCEPT !.at = "try", !.failure = Class(answer)] \in Requests
    BY <1>0 DEF Requests, Class, Counted
  <2> QED BY <1>0, <2>1, <2>2, RequestTyped
<1>4. CASE GiveUp(c)
  <2>1. PICK answer \in Answers :
            Becomes(c, [req[c] EXCEPT !.at = "leave", !.failure = Class(answer)])
    BY <1>4 DEF GiveUp
  <2>2. [req[c] EXCEPT !.at = "leave", !.failure = Class(answer)] \in Requests
    BY <1>0 DEF Requests, Class, Counted
  <2> QED BY <1>0, <2>1, <2>2, RequestTyped
<1> QED BY <1>1, <1>2, <1>3, <1>4 DEF Answered

\* The requests in flight at a backend are finitely many.
LEMMA FlightIsFinite ==
    ASSUME NEW k \in Keys
    PROVE  /\ IsFiniteSet(InFlight(k)) /\ Cardinality(InFlight(k)) \in Nat
           /\ IsFiniteSet(InFlight(k)') /\ Cardinality(InFlight(k)') \in Nat
<1>1. InFlight(k) \in SUBSET Callers /\ InFlight(k)' \in SUBSET Callers
  BY DEF InFlight
<1> QED BY <1>1, FS_Subset, FS_CardinalityType, GatewayAssumption
        DEF GatewayAssumption

\* Every state of the gateway is well typed: no lineage uses more attempts than
\* its limit, no request more than its own.
THEOREM TypeCorrect == Safe => []TypeOK
<1> USE GatewayAssumption DEF GatewayAssumption
<1>1. Init => TypeOK
  BY BreakerAssumption, NoRequestTyped DEF Init, BreakerInit, Records, Fresh,
     BreakerAssumption, TypeOK
<1>2. TypeOK /\ [Next]_vars => TypeOK'
  <2> SUFFICES ASSUME TypeOK, [Next]_vars PROVE TypeOK'
    OBVIOUS
  <2> USE DEF TypeOK
  <2>0. ASSUME NEW c \in Callers PROVE Key(c) \in Keys
    BY DEF Key, Requests
  <2>1. CASE Cancel
    BY <2>1 DEF Cancel, circuit
  <2>2. CASE Cooldown
    BY <2>2, BreakerTyped DEF Cooldown, BreakerOK
  <2>13. ASSUME NEW c \in Callers PROVE req[c] \in Requests
    OBVIOUS
  <2>3. ASSUME NEW c \in Callers, Begin(c) PROVE TypeOK'
    <3>1. [NoRequest EXCEPT !.at = "admit",
              !.time = IF c \in overdue THEN "gone" ELSE "ample"] \in Requests
      BY AdmittedTyped
    <3>2. req' \in [Callers -> Requests]
      BY <2>3, <3>1, RequestTyped DEF Begin
    <3> QED BY <2>3, <3>2 DEF Begin, circuit
  <2>4. ASSUME NEW c \in Callers, Admit(c) PROVE TypeOK'
    <3>1. BreakerOK'
      BY <2>0, <2>4, BreakerTyped DEF Admit, BreakerOK
    <3>2. [req[c] EXCEPT !.at = "try", !.tries = 0, !.failure = "none"] \in Requests
      BY <2>13 DEF Requests
    <3>3. req' \in [Callers -> Requests]
      BY <2>4, <3>2, RequestTyped DEF Admit
    <3> QED BY <2>4, <3>1, <3>3 DEF Admit, Aside, BreakerOK
  <2>5. ASSUME NEW c \in Callers, Defer(c) PROVE TypeOK'
    <3>1. CASE Key(c) < LastCandidate
      <4>1. [req[c] EXCEPT !.cand = @ + 1, !.skipped = @ \cup {Key(c)}] \in Requests
        BY <2>13, <3>1, AdvancedTyped DEF Key
      <4> QED BY <2>5, <3>1, <4>1, RequestTyped DEF Defer, Defers, Aside, circuit
    <3>2. CASE ~(Key(c) < LastCandidate)
      BY <2>5, <3>2, NoRequestTyped, RequestTyped
         DEF Defer, Defers, Aside, circuit, End
    <3> QED BY <3>1, <3>2
  <2>6. ASSUME NEW c \in Callers, TryRound(c) PROVE TypeOK'
    <3>1. mode' = mode /\ ledger' \in [Callers -> 0..LineageLimit[mode]]
      BY <2>6 DEF TryRound, CancelledInTry, DeadlineInTry, NoRetryWindow, Send,
         LineageExhausted, Aside
    <3> QED BY <2>6, <3>1, TryRoundTyped DEF TryRound, CancelledInTry, DeadlineInTry,
            NoRetryWindow, Send, LineageExhausted, Aside, circuit
  <2>7. ASSUME NEW c \in Callers, Answered(c) PROVE TypeOK'
    <3>1. BreakerOK'
      BY <2>0, <2>7, BreakerTyped DEF Answered, Succeed, Escape, RejectedByPolicy,
         Correct, Retry, GiveUp, BreakerOK, circuit
    <3>2. load' \in [Keys -> Nat]
      <4>1. load' = load \/ load' = [load EXCEPT ![Key(c)] = 0]
        BY <2>7 DEF Answered, Succeed, Escape, RejectedByPolicy, Correct, Retry,
           GiveUp, Aside
      <4>2. load \in [Keys -> Nat] /\ Key(c) \in Keys
        BY <2>0
      <4> HIDE DEF TypeOK
      <4> QED BY <4>1, <4>2
    <3>3. /\ mode' = mode /\ requests' = requests /\ cancel' = cancel
          /\ overdue' = overdue /\ ledger' = ledger
      BY <2>7 DEF Answered, Succeed, Escape, RejectedByPolicy, Correct, Retry,
         GiveUp, Aside
    <3>4. req' \in [Callers -> Requests]
      BY <2>7, AnsweredTyped
    <3> QED BY <3>1, <3>2, <3>3, <3>4 DEF BreakerOK
  <2>8. ASSUME NEW c \in Callers, LeaveCandidate(c) PROVE TypeOK'
    <3>1. BreakerOK'
      BY <2>0, <2>8, BreakerTyped DEF LeaveCandidate, BreakerOK
    <3>4. load' \in [Keys -> Nat]
      BY <2>0, <2>8, FlightIsFinite DEF LeaveCandidate
    <3>2. CASE Key(c) < LastCandidate /\ req[c].attempts < MaxAttempts
      <4>1. [req[c] EXCEPT !.at = "admit", !.cand = @ + 1] \in Requests
        BY <2>13, <3>2, AdvancedTyped DEF Key
      <4> QED BY <2>8, <3>1, <3>2, <3>4, <4>1, RequestTyped
              DEF LeaveCandidate, Aside, BreakerOK
    <3>3. CASE ~(Key(c) < LastCandidate /\ req[c].attempts < MaxAttempts)
      BY <2>8, <3>1, <3>3, <3>4, NoRequestTyped, RequestTyped
         DEF LeaveCandidate, Aside, BreakerOK, End
    <3> QED BY <3>2, <3>3
  <2>9. ASSUME NEW c \in Callers, TimeShrinks(c) PROVE TypeOK'
    <3>1. [req[c] EXCEPT !.time = "short"] \in Requests
      BY <2>13 DEF Requests
    <3> QED BY <2>9, <3>1, RequestTyped DEF TimeShrinks, Aside, circuit
  <2>10. ASSUME NEW c \in Callers, DeadlinePasses(c) PROVE TypeOK'
    <3>1. [req[c] EXCEPT !.time = "gone"] \in Requests
      BY <2>13 DEF Requests
    <3> QED BY <2>10, <3>1, RequestTyped DEF DeadlinePasses, circuit
  <2>11. ASSUME NEW c \in Callers, NextTask(c) PROVE TypeOK'
    BY <2>11 DEF NextTask, circuit
  <2>12. CASE UNCHANGED vars
    BY <2>12 DEF vars, circuit
  <2> QED BY <2>1, <2>2, <2>3, <2>4, <2>5, <2>6, <2>7, <2>8, <2>9, <2>10, <2>11,
          <2>12 DEF Next, Generate
<1> QED BY <1>1, <1>2, PTL DEF Safe
-------------------------------------------------------------------------------
(* Retries keep attempts for the candidates that were not asked yet.       *)

\* Requests for which the property speaks.
Patient(r) ==
    /\ mode = "normal" /\ Candidates <= MaxAttempts
    /\ r.time = "ample" /\ r.corrected = {}

\* The candidates a request has passed were asked or deferred, and it has an
\* attempt left for each of the others.
Provident(r) ==
    Patient(r) =>
      /\ r.at \in {"admit", "try"} =>
           /\ 1..(r.cand - 1) \subseteq r.tried \cup r.skipped
           /\ r.attempts + (Candidates - r.cand) < MaxAttempts
      /\ r.at \in {"sent", "leave"} =>
           /\ 1..r.cand \subseteq r.tried \cup r.skipped
           /\ r.attempts + (Candidates - r.cand) <= MaxAttempts

AllProvident == \A c \in Callers : Provident(req[c])

LEMMA ProvidentStep ==
    ASSUME TypeOK, AllProvident, mode' = mode, NEW c \in Callers, NEW r \in Requests,
           Becomes(c, r), Provident(r)
    PROVE  AllProvident'
<1>1. ASSUME NEW d \in Callers PROVE Provident(req[d])'
  <2>1. req'[d] = IF d = c THEN r ELSE req[d]
    BY DEF TypeOK, Becomes
  <2> QED BY <2>1 DEF AllProvident, Provident, Patient
<1> QED BY <1>1 DEF AllProvident

\* A request that has ended is provident.
LEMMA EndedIsProvident ==
    ASSUME NEW result PROVE Provident([NoRequest EXCEPT !.result = result])
    BY DEF Provident, NoRequest

LEMMA ProvidentTryRound ==
    ASSUME TypeOK, AllProvident, NEW c \in Callers, TryRound(c)
    PROVE  AllProvident'
<1> USE GatewayAssumption DEF GatewayAssumption
<1>0. req[c] \in Requests /\ Provident(req[c])
  BY DEF TypeOK, AllProvident
<1>1. CASE CancelledInTry(c) \/ LineageExhausted(c)
  BY <1>1, ProvidentStep, EndedIsProvident, NoRequestTyped
     DEF CancelledInTry, LineageExhausted, End, Aside
<1>2. CASE DeadlineInTry(c)
  <2> DEFINE r == [req[c] EXCEPT !.at = "leave", !.failure = "outage"]
  <2>1. r \in Requests /\ Provident(r)
    BY <1>0, <1>2 DEF DeadlineInTry, Requests, Provident, Patient
  <2> QED BY <1>2, <2>1, ProvidentStep DEF DeadlineInTry, Aside
<1>3. CASE NoRetryWindow(c)
  <2> DEFINE r == [req[c] EXCEPT !.at = "leave"]
  <2>1. r \in Requests /\ Provident(r)
    BY <1>0, <1>3 DEF NoRetryWindow, Requests, Provident, Patient
  <2> QED BY <1>3, <2>1, ProvidentStep DEF NoRetryWindow, Aside
<1>4. CASE Send(c)
  <2> DEFINE r == [req[c] EXCEPT !.at = "sent", !.attempts = @ + 1,
                                 !.tries = @ + 1, !.tried = @ \cup {req[c].cand}]
  <2>1. r \in Requests
    BY <1>0, <1>4, SentTyped DEF Send, MayTry
  <2>2. Provident(r)
    <3> SUFFICES ASSUME Patient(r)
                 PROVE  /\ 1..r.cand \subseteq r.tried \cup r.skipped
                        /\ r.attempts + (Candidates - r.cand) <= MaxAttempts
      BY <1>0 DEF Provident, Requests
    <3>1. Patient(req[c]) /\ req[c].at = "try"
      BY <1>0, <1>4 DEF Patient, Send, MayTry, At, Requests
    <3>2. /\ 1..(req[c].cand - 1) \subseteq req[c].tried \cup req[c].skipped
          /\ req[c].attempts + (Candidates - req[c].cand) < MaxAttempts
      BY <1>0, <3>1 DEF Provident
    <3>3. /\ r.cand = req[c].cand /\ r.attempts = req[c].attempts + 1
          /\ r.tried = req[c].tried \cup {req[c].cand} /\ r.skipped = req[c].skipped
          /\ req[c].cand \in 1..Candidates /\ req[c].attempts \in Nat
      BY <1>0 DEF Requests
    <3> HIDE DEF r
    <3>4. r.attempts + (Candidates - r.cand) <= MaxAttempts
      BY <3>2, <3>3
    <3>5. 1..r.cand \subseteq (1..(req[c].cand - 1)) \cup {req[c].cand}
      BY <3>3
    <3>6. 1..r.cand \subseteq r.tried \cup r.skipped
      BY <3>2, <3>3, <3>5
    <3> QED BY <3>4, <3>6
  <2> QED BY <1>4, <2>1, <2>2, ProvidentStep DEF Send, Aside, Key
<1> QED BY <1>1, <1>2, <1>3, <1>4 DEF TryRound

LEMMA ProvidentAnswered ==
    ASSUME TypeOK, AllProvident, NEW c \in Callers, Answered(c)
    PROVE  AllProvident'
<1> USE GatewayAssumption DEF GatewayAssumption
<1>0. req[c] \in Requests /\ Provident(req[c])
  BY DEF TypeOK, AllProvident
<1>1. CASE Succeed(c) \/ Escape(c) \/ RejectedByPolicy(c)
  BY <1>1, ProvidentStep, EndedIsProvident, NoRequestTyped
     DEF Succeed, Escape, RejectedByPolicy, End, Aside
<1>2. CASE Correct(c)
  <2> DEFINE r == [req[c] EXCEPT !.at = "try", !.failure = "uncounted",
                                 !.corrected = @ \cup {Key(c)}]
  <2>1. r \in Requests
    BY <1>0 DEF Requests, Key
  <2>2. r.corrected # {}
    BY <1>0 DEF Requests
  <2> QED BY <1>2, <2>1, <2>2, ProvidentStep DEF Correct, Aside, Provident, Patient
<1>3. CASE Retry(c)
  <2>1. PICK answer \in Answers :
            /\ MayRetry(c, answer)
            /\ Becomes(c, [req[c] EXCEPT !.at = "try", !.failure = Class(answer)])
    BY <1>3 DEF Retry
  <2> DEFINE r == [req[c] EXCEPT !.at = "try", !.failure = Class(answer)]
  <2>2. r \in Requests
    BY <1>0 DEF Requests, Class, Counted
  <2>3. Provident(r)
    <3> SUFFICES ASSUME Patient(r)
                 PROVE  /\ 1..(r.cand - 1) \subseteq r.tried \cup r.skipped
                        /\ r.attempts + (Candidates - r.cand) < MaxAttempts
      BY <1>0 DEF Provident, Requests
    <3>1. Patient(req[c]) /\ req[c].at = "sent"
      BY <1>0, <1>3 DEF Patient, Retry, At, Requests
    <3>2. 1..req[c].cand \subseteq req[c].tried \cup req[c].skipped
      BY <1>0, <3>1 DEF Provident
    <3>3. /\ r.cand = req[c].cand /\ r.attempts = req[c].attempts
          /\ r.tried = req[c].tried /\ r.skipped = req[c].skipped
          /\ req[c].cand \in 1..Candidates /\ req[c].attempts \in Nat
      BY <1>0 DEF Requests
    <3>4. req[c].attempts + (Candidates - req[c].cand) < MaxAttempts
      BY <2>1, <3>1, <3>3 DEF MayRetry, Reserved, Patient, LastCandidate, Key
    <3> QED BY <3>2, <3>3, <3>4
  <2> QED BY <1>3, <2>1, <2>2, <2>3, ProvidentStep DEF Retry, Aside
<1>4. CASE GiveUp(c)
  <2>1. PICK answer \in Answers :
            Becomes(c, [req[c] EXCEPT !.at = "leave", !.failure = Class(answer)])
    BY <1>4 DEF GiveUp
  <2> DEFINE r == [req[c] EXCEPT !.at = "leave", !.failure = Class(answer)]
  <2>2. r \in Requests
    BY <1>0 DEF Requests, Class, Counted
  <2>3. Provident(r)
    BY <1>0, <1>4 DEF GiveUp, At, Provident, Patient, Requests
  <2> QED BY <1>4, <2>1, <2>2, <2>3, ProvidentStep DEF GiveUp, Aside
<1> QED BY <1>1, <1>2, <1>3, <1>4 DEF Answered

LEMMA ProvidentInvariant == Safe => []AllProvident
<1> USE GatewayAssumption DEF GatewayAssumption
<1>1. Init => AllProvident
  BY DEF Init, AllProvident, Provident, NoRequest
<1>2. TypeOK /\ TypeOK' /\ AllProvident /\ [Next]_vars => AllProvident'
  <2> SUFFICES ASSUME TypeOK, TypeOK', AllProvident, [Next]_vars PROVE AllProvident'
    OBVIOUS
  <2>0. ASSUME NEW c \in Callers PROVE req[c] \in Requests /\ Provident(req[c])
    BY DEF TypeOK, AllProvident
  <2>1. CASE UNCHANGED <<mode, req>>
    BY <2>1 DEF AllProvident, Provident, Patient
  <2>2. ASSUME NEW c \in Callers, Begin(c) PROVE AllProvident'
    <3> DEFINE time == IF c \in overdue THEN "gone" ELSE "ample"
               r == [NoRequest EXCEPT !.at = "admit", !.time = time]
    <3>1. r \in Requests
      BY AdmittedTyped
    <3>2. Provident(r)
      BY DEF Provident, Patient, NoRequest
    <3> QED BY <2>2, <3>1, <3>2, ProvidentStep DEF Begin
  <2>3. ASSUME NEW c \in Callers, Admit(c) PROVE AllProvident'
    <3> DEFINE r == [req[c] EXCEPT !.at = "try", !.tries = 0, !.failure = "none"]
    <3>1. r \in Requests
      BY <2>0 DEF Requests
    <3>2. /\ r.cand = req[c].cand /\ r.attempts = req[c].attempts
          /\ r.skipped = req[c].skipped /\ r.tried = req[c].tried
          /\ r.at = "try" /\ req[c].at = "admit"
          /\ r.time = req[c].time /\ r.corrected = req[c].corrected
      BY <2>0, <2>3 DEF Requests, Admit, At
    <3>3. Provident(r)
      BY <2>0, <3>2 DEF Provident, Patient
    <3> QED BY <2>3, <3>1, <3>3, ProvidentStep DEF Admit, Aside
  <2>4. ASSUME NEW c \in Callers, Defer(c) PROVE AllProvident'
    <3>1. CASE Key(c) < LastCandidate
      <4> DEFINE r == [req[c] EXCEPT !.cand = @ + 1, !.skipped = @ \cup {req[c].cand}]
      <4>1. r \in Requests
        BY <2>0, <3>1, AdvancedTyped DEF Key
      <4>2. Provident(r)
        <5>1. /\ r.cand = req[c].cand + 1 /\ r.attempts = req[c].attempts
              /\ r.skipped = req[c].skipped \cup {req[c].cand}
              /\ r.tried = req[c].tried /\ r.at = "admit" /\ req[c].at = "admit"
              /\ r.time = req[c].time /\ r.corrected = req[c].corrected
              /\ req[c].cand \in 1..Candidates /\ req[c].attempts \in Nat
          BY <2>0, <2>4 DEF Requests, Defer, At
        <5> HIDE DEF r
        <5> SUFFICES ASSUME Patient(r)
                     PROVE  /\ 1..(r.cand - 1) \subseteq r.tried \cup r.skipped
                            /\ r.attempts + (Candidates - r.cand) < MaxAttempts
          BY <5>1 DEF Provident
        <5>2. Patient(req[c])
          BY <5>1 DEF Patient
        <5>3. /\ 1..(req[c].cand - 1) \subseteq req[c].tried \cup req[c].skipped
              /\ req[c].attempts + (Candidates - req[c].cand) < MaxAttempts
          BY <2>0, <5>1, <5>2 DEF Provident
        <5> QED BY <5>1, <5>3
      <4> QED BY <2>4, <3>1, <4>1, <4>2, ProvidentStep DEF Defer, Key, Aside
    <3>2. CASE ~(Key(c) < LastCandidate)
      BY <2>4, <3>2, ProvidentStep, EndedIsProvident, NoRequestTyped
         DEF Defer, End, Aside
    <3> QED BY <3>1, <3>2
  <2>5. ASSUME NEW c \in Callers, LeaveCandidate(c) PROVE AllProvident'
    <3>1. CASE Key(c) < LastCandidate /\ req[c].attempts < MaxAttempts
      <4> DEFINE r == [req[c] EXCEPT !.at = "admit", !.cand = @ + 1]
      <4>1. r \in Requests
        BY <2>0, <3>1, AdvancedTyped DEF Key
      <4>2. Provident(r)
        <5>1. /\ r.cand = req[c].cand + 1 /\ r.attempts = req[c].attempts
              /\ r.skipped = req[c].skipped /\ r.tried = req[c].tried
              /\ r.at = "admit" /\ req[c].at = "leave"
              /\ r.time = req[c].time /\ r.corrected = req[c].corrected
              /\ req[c].cand \in 1..Candidates /\ req[c].attempts \in Nat
          BY <2>0, <2>5 DEF Requests, LeaveCandidate, At
        <5>2. Patient(r) => Patient(req[c])
          BY <5>1 DEF Patient
        <5> HIDE DEF r
        <5> QED BY <2>0, <5>1, <5>2 DEF Provident
      <4>3. Becomes(c, r) /\ mode' = mode
        BY <2>5, <3>1 DEF LeaveCandidate
      <4> HIDE DEF r
      <4> QED BY <2>0, <4>1, <4>2, <4>3, ProvidentStep
    <3>2. CASE ~(Key(c) < LastCandidate /\ req[c].attempts < MaxAttempts)
      BY <2>5, <3>2, ProvidentStep, EndedIsProvident, NoRequestTyped
         DEF LeaveCandidate, End, Aside
    <3> QED BY <3>1, <3>2
  <2>6. ASSUME NEW c \in Callers, TimeShrinks(c) PROVE AllProvident'
    <3> DEFINE r == [req[c] EXCEPT !.time = "short"]
    <3>1. r \in Requests /\ Provident(r)
      BY <2>0 DEF Requests, Provident, Patient
    <3> QED BY <2>6, <3>1, ProvidentStep DEF TimeShrinks, Aside
  <2>7. ASSUME NEW c \in Callers, DeadlinePasses(c) PROVE AllProvident'
    <3> DEFINE r == [req[c] EXCEPT !.time = "gone"]
    <3>1. r \in Requests /\ Provident(r)
      BY <2>0 DEF Requests, Provident, Patient
    <3> QED BY <2>7, <3>1, ProvidentStep DEF DeadlinePasses
  <2>8. CASE Cancel \/ Cooldown \/ (\E c \in Callers : NextTask(c)) \/ UNCHANGED vars
    BY <2>1, <2>8 DEF Cancel, Cooldown, NextTask, vars
  <2> QED BY <2>2, <2>3, <2>4, <2>5, <2>6, <2>7, <2>8, ProvidentTryRound,
          ProvidentAnswered DEF Next, Generate
<1> QED BY <1>1, <1>2, TypeCorrect, PTL DEF Safe

\* A request in normal mode that gives up with time left has asked every backend
\* whose circuit was not open, for any number of backends and attempts.
THEOREM EveryCandidate == Safe => EveryCandidateIsTried
<1> USE GatewayAssumption DEF GatewayAssumption
<1>1. ASSUME TypeOK, AllProvident, [Next]_vars, NEW c \in Callers, mode = "normal",
             Candidates <= MaxAttempts, At(c, "leave"), ~Running(c)',
             req[c].time = "ample", req[c].corrected = {}
      PROVE  req[c].tried \cup req[c].skipped = 1..Candidates
  <2>1. req[c] \in Requests /\ Provident(req[c])
    BY <1>1 DEF TypeOK, AllProvident
  <2>2. /\ 1..req[c].cand \subseteq req[c].tried \cup req[c].skipped
        /\ req[c].attempts + (Candidates - req[c].cand) <= MaxAttempts
    BY <1>1, <2>1 DEF Provident, Patient, At
  <2>3. LeaveCandidate(c)
    <3>1. req'[c] # req[c]
      BY <1>1 DEF Running, At
    <3>2. ASSUME NEW d \in Callers, d # c, NEW r, Becomes(d, r) PROVE req'[c] = req[c]
      BY <1>1, <3>2 DEF Becomes, TypeOK
    <3>3. ASSUME NEW d \in Callers, d # c PROVE
              ~(Begin(d) \/ Generate(d) \/ TimeShrinks(d) \/ DeadlinePasses(d))
      BY <3>1, <3>2, <3>3 DEF Begin, Generate, Admit, Defer, TryRound, Answered,
         LeaveCandidate, TimeShrinks, DeadlinePasses, CancelledInTry, DeadlineInTry,
         NoRetryWindow, Send, LineageExhausted, Succeed, Escape, RejectedByPolicy,
         Correct, Retry, GiveUp, End
    <3>4. ~(Begin(c) \/ Admit(c) \/ Defer(c) \/ TryRound(c) \/ Answered(c))
      BY <1>1 DEF Begin, Admit, Defer, TryRound, Answered, CancelledInTry,
         DeadlineInTry, NoRetryWindow, Send, LineageExhausted, MayTry, Succeed, Escape,
         RejectedByPolicy, Correct, Retry, GiveUp, At
    <3>5. ~(TimeShrinks(c) \/ DeadlinePasses(c))
      <4>1. ASSUME NEW time, Becomes(c, [req[c] EXCEPT !.time = time])
            PROVE  req'[c].at = req[c].at
        BY <1>1, <2>1, <4>1 DEF Becomes, TypeOK, Requests
      <4> QED BY <1>1, <4>1 DEF TimeShrinks, DeadlinePasses, Running, At
    <3> QED BY <1>1, <3>1, <3>3, <3>4, <3>5
            DEF Next, Generate, Cancel, Cooldown, NextTask, vars
  <2>4. ~(Key(c) < LastCandidate /\ req[c].attempts < MaxAttempts)
    <3>1. CASE Key(c) < LastCandidate /\ req[c].attempts < MaxAttempts
      <4>1. req'[c] = [req[c] EXCEPT !.at = "admit", !.cand = @ + 1]
        BY <1>1, <2>3, <3>1 DEF LeaveCandidate, Becomes, TypeOK
      <4>2. req'[c].at = "admit"
        BY <2>1, <4>1 DEF Requests
      <4> QED BY <1>1, <4>2 DEF Running, At
    <3> QED BY <3>1
  <2>5. req[c].cand = Candidates
    BY <1>1, <2>1, <2>2, <2>4 DEF Requests, Key, LastCandidate
  <2> QED BY <2>1, <2>2, <2>5 DEF Requests
<1>2. TypeOK /\ AllProvident /\ [Next]_vars =>
        [\A c \in Callers :
           /\ mode = "normal" /\ Candidates <= MaxAttempts
           /\ At(c, "leave") /\ ~Running(c)'
           /\ req[c].time = "ample" /\ req[c].corrected = {}
           => req[c].tried \cup req[c].skipped = 1..Candidates]_vars
  BY <1>1
<1> QED BY <1>2, TypeCorrect, ProvidentInvariant, PTL DEF Safe, EveryCandidateIsTried
-------------------------------------------------------------------------------
(* An outage brings a backend no more traffic than it had.                  *)

\* A step that concerns one caller leaves the requests of the others alone.
LEMMA OnlyOneMoves ==
    ASSUME TypeOK, NEW c \in Callers, NEW d \in Callers, c # d, NEW r, Becomes(c, r)
    PROVE  req'[d] = req[d]
    BY DEF TypeOK, Becomes

LEMMA Became ==
    ASSUME TypeOK, NEW c \in Callers, NEW r, Becomes(c, r)
    PROVE  req'[c] = r
    BY DEF TypeOK, Becomes

\* Only an admission brings a caller into flight.
LEMMA OnlyAdmission ==
    ASSUME TypeOK, [Next]_vars, NEW k \in Keys, NEW c \in InFlight(k)' \ InFlight(k)
    PROVE  Admit(c) /\ Key(c) = k
<1>0. c \in Callers /\ req[c] \in Requests
  BY DEF InFlight, TypeOK
<1>1. /\ req'[c].at \in {"try", "sent", "leave"} /\ req'[c].cand = k
      /\ ~(req[c].at \in {"try", "sent", "leave"} /\ req[c].cand = k)
  BY <1>0 DEF InFlight, Key
<1>2. req'[c] # req[c]
  BY <1>1
<1>4. ASSUME NEW d \in Callers, d # c
      PROVE  ~(Begin(d) \/ Generate(d) \/ TimeShrinks(d) \/ DeadlinePasses(d))
  BY <1>0, <1>2, <1>4, OnlyOneMoves DEF Begin, Generate, Admit, Defer, TryRound,
     Answered, LeaveCandidate, TimeShrinks, DeadlinePasses, CancelledInTry,
     DeadlineInTry, NoRetryWindow, Send, LineageExhausted, Succeed, Escape,
     RejectedByPolicy, Correct, Retry, GiveUp, End
<1>5. ASSUME NEW result PROVE ~End(c, result)
  <2>1. [NoRequest EXCEPT !.result = result].at = "idle"
    BY DEF NoRequest
  <2> QED BY <1>0, <1>1, <2>1, Became DEF End
<1>6. ~Begin(c)
  <2> DEFINE time == IF c \in overdue THEN "gone" ELSE "ample"
  <2>1. [NoRequest EXCEPT !.at = "admit", !.time = time].at = "admit"
    BY DEF NoRequest
  <2> QED BY <1>0, <1>1, <2>1, Became DEF Begin
<1>7. ~Defer(c)
  <2>1. CASE Key(c) < LastCandidate
    <3>1. [req[c] EXCEPT !.cand = @ + 1, !.skipped = @ \cup {Key(c)}].at = req[c].at
      BY <1>0 DEF Requests
    <3> QED BY <1>0, <1>1, <2>1, <3>1, Became DEF Defer, At
  <2> QED BY <1>5, <2>1 DEF Defer
<1>8. ~TryRound(c)
  <2>1. ~(CancelledInTry(c) \/ LineageExhausted(c))
    BY <1>5 DEF CancelledInTry, LineageExhausted
  <2>2. ~(At(c, "try") /\ req'[c].cand = req[c].cand)
    BY <1>1 DEF At
  <2>3. ~DeadlineInTry(c)
    <3>1. [req[c] EXCEPT !.at = "leave", !.failure = "outage"].cand = req[c].cand
      BY <1>0 DEF Requests
    <3> QED BY <1>0, <2>2, <3>1, Became DEF DeadlineInTry, MayTry
  <2>4. ~NoRetryWindow(c)
    <3>1. [req[c] EXCEPT !.at = "leave"].cand = req[c].cand
      BY <1>0 DEF Requests
    <3> QED BY <1>0, <2>2, <3>1, Became DEF NoRetryWindow, MayTry
  <2>5. ~Send(c)
    <3>1. [req[c] EXCEPT !.at = "sent", !.attempts = @ + 1, !.tries = @ + 1,
                         !.tried = @ \cup {Key(c)}].cand = req[c].cand
      BY <1>0 DEF Requests
    <3> QED BY <1>0, <2>2, <3>1, Became DEF Send, MayTry
  <2> QED BY <2>1, <2>3, <2>4, <2>5 DEF TryRound
<1>9. ~Answered(c)
  <2>1. ~(Succeed(c) \/ Escape(c) \/ RejectedByPolicy(c))
    BY <1>5 DEF Succeed, Escape, RejectedByPolicy
  <2>2. ~(At(c, "sent") /\ req'[c].cand = req[c].cand)
    BY <1>1 DEF At
  <2>3. ~Correct(c)
    <3>1. [req[c] EXCEPT !.at = "try", !.failure = "uncounted",
                         !.corrected = @ \cup {Key(c)}].cand = req[c].cand
      BY <1>0 DEF Requests
    <3> QED BY <1>0, <2>2, <3>1, Became DEF Correct
  <2>4. ASSUME NEW place, NEW failure
        PROVE  [req[c] EXCEPT !.at = place, !.failure = failure].cand = req[c].cand
    BY <1>0 DEF Requests
  <2>5. ASSUME Retry(c) PROVE FALSE
    <3>1. PICK answer \in Answers :
              Becomes(c, [req[c] EXCEPT !.at = "try", !.failure = Class(answer)])
      BY <2>5 DEF Retry
    <3>2. req'[c] = [req[c] EXCEPT !.at = "try", !.failure = Class(answer)]
      BY <1>0, <3>1, Became
    <3>3. req'[c].cand = req[c].cand
      BY <2>4, <3>2
    <3> QED BY <2>2, <2>5, <3>3 DEF Retry
  <2>6. ASSUME GiveUp(c) PROVE FALSE
    <3>1. PICK answer \in Answers :
              Becomes(c, [req[c] EXCEPT !.at = "leave", !.failure = Class(answer)])
      BY <2>6 DEF GiveUp
    <3>2. req'[c] = [req[c] EXCEPT !.at = "leave", !.failure = Class(answer)]
      BY <1>0, <3>1, Became
    <3>3. req'[c].cand = req[c].cand
      BY <2>4, <3>2
    <3> QED BY <2>2, <2>6, <3>3 DEF GiveUp
  <2> QED BY <2>1, <2>3, <2>5, <2>6 DEF Answered
<1>10. ~LeaveCandidate(c)
  <2>1. [req[c] EXCEPT !.at = "admit", !.cand = @ + 1].at = "admit"
    BY <1>0 DEF Requests
  <2> QED BY <1>0, <1>1, <1>5, <2>1, Became DEF LeaveCandidate
<1>11. ~(TimeShrinks(c) \/ DeadlinePasses(c))
  <2>1. ASSUME NEW time
        PROVE  /\ [req[c] EXCEPT !.time = time].at = req[c].at
               /\ [req[c] EXCEPT !.time = time].cand = req[c].cand
    BY <1>0 DEF Requests
  <2> QED BY <1>0, <1>1, <2>1, Became DEF TimeShrinks, DeadlinePasses
<1>12. Admit(c)
  BY <1>0, <1>2, <1>4, <1>6, <1>7, <1>8, <1>9, <1>10, <1>11
     DEF Next, Generate, Cancel, Cooldown, NextTask, vars
<1>13. Key(c) = k
  <2>1. [req[c] EXCEPT !.at = "try", !.tries = 0, !.failure = "none"].cand = req[c].cand
    BY <1>0 DEF Requests
  <2> QED BY <1>0, <1>1, <1>12, <2>1, Became DEF Admit, Key
<1> QED BY <1>12, <1>13

\* At most one caller comes into flight in a step, by an admission.
LEMMA AdmissionAddsOne ==
    ASSUME TypeOK, [Next]_vars, NEW k \in Keys, NEW c \in Callers, Admit(c)
    PROVE  InFlight(k)' \subseteq InFlight(k) \cup {c}
<1>1. ASSUME NEW d \in InFlight(k)' \ InFlight(k), d # c PROVE FALSE
  <2>1. req'[d] = req[d]
    BY <1>1, OnlyOneMoves DEF Admit, InFlight
  <2> QED BY <1>1, <2>1 DEF InFlight, Key
<1> QED BY <1>1

\* A request that leaves its candidate is in flight there no more.
LEMMA LeavingTakesOne ==
    ASSUME TypeOK, [Next]_vars, NEW c \in Callers, LeaveCandidate(c)
    PROVE  \A k \in Keys : /\ InFlight(k)' \subseteq InFlight(k)
                           /\ Key(c) = k => InFlight(k)' \subseteq InFlight(k) \ {c}
                           /\ Key(c) = k => c \in InFlight(k)
<1>0. c \in Callers /\ req[c] \in Requests /\ Key(c) \in Keys
  BY GatewayAssumption DEF TypeOK, Requests, Key, GatewayAssumption
<1>1. [req[c] EXCEPT !.at = "admit", !.cand = @ + 1].at = "admit"
  BY <1>0 DEF Requests
<1>2. [NoRequest EXCEPT !.result = "failed"].at = "idle"
  BY DEF NoRequest
<1>3. req'[c].at \in {"admit", "idle"}
  BY <1>1, <1>2, Became DEF LeaveCandidate, End
<1>4. ASSUME NEW k \in Keys, NEW d \in InFlight(k)' \ InFlight(k) PROVE FALSE
  <2>1. d # c
    BY <1>3, <1>4 DEF InFlight
  <2>2. req'[d] = req[d]
    BY <1>4, <2>1, OnlyOneMoves DEF LeaveCandidate, End, InFlight
  <2> QED BY <1>4, <2>2 DEF InFlight, Key
<1> QED BY <1>0, <1>3, <1>4 DEF LeaveCandidate, At, InFlight

\* A circuit that is open has at least one request less in flight than when it
\* left the closed state: the one whose failure opened it.  The probe takes its
\* place when it is half-open.
LoadBounds ==
    \A k \in Keys :
       /\ breaker[k].state = "open" => Cardinality(InFlight(k)) < load[k]
       /\ breaker[k].state = "half_open" => Cardinality(InFlight(k)) <= load[k]

\* Every step keeps the bounds.
LEMMA LoadBoundsStep ==
    ASSUME TypeOK, TypeOK', LoadBounds, [Next]_vars, NEW k \in Keys
    PROVE  /\ breaker'[k].state = "open" => Cardinality(InFlight(k)') < load'[k]
           /\ breaker'[k].state = "half_open" => Cardinality(InFlight(k)') <= load'[k]
<1> DEFINE n == Cardinality(InFlight(k))
           m == Cardinality(InFlight(k)')
<1>0. /\ n \in Nat /\ m \in Nat /\ load[k] \in Nat /\ load'[k] \in Nat
      /\ breaker[k] \in Records /\ breaker'[k] \in Records
  BY FlightIsFinite DEF TypeOK
<1>1. /\ breaker[k].state = "open" => n < load[k]
      /\ breaker[k].state = "half_open" => n <= load[k]
  BY DEF LoadBounds
<1>2. ASSUME InFlight(k)' \subseteq InFlight(k) PROVE m <= n
  BY <1>2, FlightIsFinite, FS_Subset
<1>3. ASSUME \A c \in Callers : ~Admit(c) PROVE m <= n
  BY <1>2, <1>3, OnlyAdmission DEF InFlight
<1>4. ASSUME NEW c \in Callers, Admit(c)
      PROVE  /\ breaker'[k].state = "open" => m < load'[k]
             /\ breaker'[k].state = "half_open" => m <= load'[k]
  <2>1. load' = load
    BY <1>4 DEF Admit, Aside
  <2>2. CASE Key(c) = k /\ Probes(k)
    <3>1. m <= n + 1
      <4>1. /\ IsFiniteSet(InFlight(k) \cup {c})
            /\ Cardinality(InFlight(k) \cup {c}) \in {n, n + 1}
        BY FlightIsFinite, FS_AddElement
      <4>2. InFlight(k)' \in SUBSET (InFlight(k) \cup {c})
        BY <1>4, AdmissionAddsOne
      <4>3. m <= Cardinality(InFlight(k) \cup {c})
        BY <4>1, <4>2, FS_Subset
      <4> QED BY <1>0, <4>1, <4>3
    <3>2. breaker[k].state = "open" /\ breaker'[k].state = "half_open"
      BY <1>0, <2>2 DEF Probes, TypeOK, Records
    <3> QED BY <1>0, <1>1, <2>1, <3>1, <3>2
  <2>3. CASE Key(c) = k /\ Passes(k)
    BY <2>3 DEF Passes, circuit
  <2>4. CASE Key(c) # k
    <3>1. breaker'[k] = breaker[k]
      BY <1>4, <2>4 DEF Admit, Passes, Probes, circuit, TypeOK
    <3>2. InFlight(k)' \subseteq InFlight(k)
      <4>1. ASSUME NEW d \in InFlight(k)' \ InFlight(k) PROVE FALSE
        <5>1. Admit(d) /\ Key(d) = k /\ d \in Callers /\ d # c
          BY <2>4, <4>1, OnlyAdmission DEF InFlight
        <5>2. req'[d] = req[d]
          BY <1>4, <5>1, OnlyOneMoves DEF Admit
        <5> QED BY <4>1, <5>2 DEF InFlight, Key
      <4> QED BY <4>1
    <3> QED BY <1>0, <1>1, <1>2, <2>1, <3>1, <3>2
  <2> QED BY <1>4, <2>2, <2>3, <2>4 DEF Admit
<1>5. ASSUME NEW c \in Callers, LeaveCandidate(c)
      PROVE  /\ breaker'[k].state = "open" => m < load'[k]
             /\ breaker'[k].state = "half_open" => m <= load'[k]
  <2>1. m <= n /\ Key(c) \in Keys
    BY <1>2, <1>5, LeavingTakesOne, GatewayAssumption
    DEF TypeOK, Requests, Key, GatewayAssumption
  <2>2. CASE Key(c) # k
    <3>1. breaker'[k] = breaker[k] /\ load'[k] = load[k]
      BY <1>5, <2>2 DEF LeaveCandidate, RecordFailure, circuit, TypeOK
    <3> QED BY <1>0, <1>1, <2>1, <3>1
  <2>3. CASE Key(c) = k
    <3>1. m < n
      <4>1. InFlight(k)' \subseteq InFlight(k) \ {c} /\ c \in InFlight(k)
        BY <1>5, <2>3, LeavingTakesOne
      <4>2. Cardinality(InFlight(k) \ {c}) = n - 1 /\ IsFiniteSet(InFlight(k) \ {c})
        BY <4>1, FlightIsFinite, FS_RemoveElement
      <4>3. InFlight(k)' \in SUBSET (InFlight(k) \ {c})
        BY <4>1
      <4>4. m <= n - 1
        BY <4>2, <4>3, FS_Subset
      <4> QED BY <1>0, <4>4
    <3>2. load'[k] = IF breaker[k].state = "closed" /\ breaker'[k].state = "open"
                     THEN n ELSE load[k]
      BY <1>5, <2>3 DEF LeaveCandidate, TypeOK
    <3>3. breaker'[k].state \in {breaker[k].state, "open"}
      BY <1>5, <2>3 DEF LeaveCandidate, RecordFailure, Opened, circuit, TypeOK, Records
    <3> QED BY <1>0, <1>1, <3>1, <3>2, <3>3 DEF Records
  <2> QED BY <2>2, <2>3
<1>6. ASSUME NEW c \in Callers, Succeed(c)
      PROVE  /\ breaker'[k].state = "open" => m < load'[k]
             /\ breaker'[k].state = "half_open" => m <= load'[k]
  <2>1. CASE Key(c) = k
    BY <1>6, <2>1 DEF Succeed, RecordSuccess, Fresh, TypeOK
  <2>2. CASE Key(c) # k
    <3>1. breaker'[k] = breaker[k] /\ load'[k] = load[k]
      BY <1>6, <2>2 DEF Succeed, RecordSuccess, TypeOK
    <3>3. InFlight(k)' \subseteq InFlight(k)
      <4>1. [NoRequest EXCEPT !.result = "value"].at = "idle"
        BY DEF NoRequest
      <4>2. req'[c].at = "idle"
        BY <1>6, <4>1, Became DEF Succeed, End
      <4>3. ASSUME NEW d \in InFlight(k)' \ InFlight(k) PROVE FALSE
        <5>1. d # c
          BY <4>2, <4>3 DEF InFlight
        <5>2. req'[d] = req[d]
          BY <1>6, <4>3, <5>1, OnlyOneMoves DEF Succeed, End, InFlight
        <5> QED BY <4>3, <5>2 DEF InFlight, Key
      <4> QED BY <4>3
    <3> QED BY <1>0, <1>1, <1>2, <3>1, <3>3
  <2> QED BY <2>1, <2>2
<1>7. CASE \A c \in Callers : ~Admit(c) /\ ~LeaveCandidate(c) /\ ~Succeed(c)
  <2>1. breaker' = breaker /\ load' = load
    BY <1>7
    DEF Next, Cancel, Cooldown, CooldownPasses, Begin, Generate, Defer, Defers,
        TryRound, CancelledInTry, DeadlineInTry, NoRetryWindow, Send,
        LineageExhausted, Answered, Escape, RejectedByPolicy, RecordFailure, Counted,
        Correct, Retry, GiveUp, TimeShrinks, DeadlinePasses, NextTask, Aside,
        circuit, vars
  <2> QED BY <1>0, <1>1, <1>3, <1>7, <2>1
<1> QED BY <1>4, <1>5, <1>6, <1>7

\* However many workers share the gateway, and whatever order they come and fail
\* in, an outage never brings a backend more requests at a time than it had when
\* its circuit opened.
THEOREM NotAmplified == Safe => []OutageIsNotAmplified
<1>1. Init => LoadBounds
  <2>1. Init => \A k \in Keys : breaker[k].state = "closed"
    <3>1. Init => breaker = [k \in Keys |-> Fresh]
      BY DEF Init, BreakerInit
    <3>2. Fresh.state = "closed"
      BY DEF Fresh
    <3> QED BY <3>1, <3>2
  <2>2. ASSUME NEW k \in Keys, breaker[k].state = "closed"
        PROVE  breaker[k].state # "open" /\ breaker[k].state # "half_open"
    BY <2>2
  <2> QED BY <2>1, <2>2 DEF LoadBounds
<1>2. TypeOK /\ TypeOK' /\ LoadBounds /\ [Next]_vars => LoadBounds'
  BY LoadBoundsStep DEF LoadBounds
<1>3. TypeOK /\ LoadBounds => OutageIsNotAmplified
  <2>1. ASSUME TypeOK, LoadBounds, NEW k \in Keys, breaker[k].state # "closed"
        PROVE  Cardinality(InFlight(k)) <= load[k]
    BY <2>1, FlightIsFinite DEF TypeOK, Records, LoadBounds
  <2> QED BY <2>1 DEF OutageIsNotAmplified
<1> QED BY <1>1, <1>2, <1>3, TypeCorrect, PTL DEF Safe

-------------------------------------------------------------------------------
(* A request comes nearer to its end with each step of its thread.         *)

\* How far the place of a request is from the end of the round it is in.
Rank == [admit |-> 3, sent |-> 3, try |-> 2, leave |-> 1, idle |-> 0]

\* A request ends, or goes on to a backend behind, or uses up an attempt, or comes
\* nearer to the end of its round: an order that only goes down.
Nearer(r, s) ==
    \/ s.at = "idle"
    \/ s.cand > r.cand
    \/ s.cand = r.cand /\ s.attempts > r.attempts
    \/ s.cand = r.cand /\ s.attempts = r.attempts /\ Rank[s.at] < Rank[r.at]

Unmoved(r, s) == s.at = r.at /\ s.cand = r.cand /\ s.attempts = r.attempts

\* The attempts that are left when a round of the retry loop begins: without one
\* the loop would end with neither a value nor a failure to record.
AttemptLeft ==
    \A c \in Callers : req[c].at \in {"admit", "try"} => req[c].attempts < MaxAttempts

Descends ==
    \A c \in Callers :
      /\ Generate(c) => Nearer(req[c], req'[c])
      /\ Running(c) /\ ~Generate(c) => Unmoved(req[c], req'[c])

LEMMA EndIsNearer ==
    ASSUME TypeOK, NEW c \in Callers, NEW result, End(c, result)
    PROVE  req'[c].at = "idle" /\ Nearer(req[c], req'[c])
<1>1. [NoRequest EXCEPT !.result = result].at = "idle"
  BY DEF NoRequest
<1>2. req'[c] = [NoRequest EXCEPT !.result = result]
  BY Became DEF End
<1> QED BY <1>1, <1>2 DEF Nearer

\* Each step of the thread of a request brings its end nearer.
LEMMA GenerateDescends ==
    ASSUME TypeOK, NEW c \in Callers, Generate(c)
    PROVE  Nearer(req[c], req'[c])
<1>0. req[c] \in Requests /\ Key(c) = req[c].cand
      /\ req[c].cand \in Nat /\ req[c].attempts \in Nat
  BY GatewayAssumption DEF TypeOK, Requests, Key, GatewayAssumption
<1>1. CASE Admit(c)
  <2> DEFINE r == [req[c] EXCEPT !.at = "try", !.tries = 0, !.failure = "none"]
  <2>1. r.at = "try" /\ r.cand = req[c].cand /\ r.attempts = req[c].attempts
    BY <1>0 DEF Requests
  <2>2. req'[c] = r /\ req[c].at = "admit"
    BY <1>1, Became DEF Admit, At
  <2> QED BY <1>0, <2>1, <2>2 DEF Nearer, Rank
<1>2. CASE Defer(c)
  <2>1. CASE Key(c) < LastCandidate
    <3> DEFINE r == [req[c] EXCEPT !.cand = @ + 1, !.skipped = @ \cup {Key(c)}]
    <3>1. r.cand = req[c].cand + 1
      BY <1>0 DEF Requests
    <3>2. req'[c] = r
      BY <1>2, <2>1, Became DEF Defer
    <3> QED BY <1>0, <3>1, <3>2 DEF Nearer
  <2> QED BY <1>2, <2>1, EndIsNearer DEF Defer
<1>3. ASSUME NEW r, req'[c] = r, r.at = "leave", r.cand = req[c].cand,
             r.attempts = req[c].attempts, req[c].at \in {"try", "sent"}
      PROVE  Nearer(req[c], req'[c])
  BY <1>0, <1>3 DEF Nearer, Rank
<1>4. ASSUME NEW r, req'[c] = r, r.at = "try", r.cand = req[c].cand,
             r.attempts = req[c].attempts, req[c].at = "sent"
      PROVE  Nearer(req[c], req'[c])
  BY <1>0, <1>4 DEF Nearer, Rank
<1>5. CASE TryRound(c)
  <2>1. CASE CancelledInTry(c) \/ LineageExhausted(c)
    BY <2>1, EndIsNearer DEF CancelledInTry, LineageExhausted
  <2>2. CASE DeadlineInTry(c)
    <3> DEFINE r == [req[c] EXCEPT !.at = "leave", !.failure = "outage"]
    <3>1. r.at = "leave" /\ r.cand = req[c].cand /\ r.attempts = req[c].attempts
      BY <1>0 DEF Requests
    <3>2. req'[c] = r /\ req[c].at = "try"
      BY <2>2, Became DEF DeadlineInTry, MayTry, At
    <3> QED BY <1>3, <3>1, <3>2
  <2>3. CASE NoRetryWindow(c)
    <3> DEFINE r == [req[c] EXCEPT !.at = "leave"]
    <3>1. r.at = "leave" /\ r.cand = req[c].cand /\ r.attempts = req[c].attempts
      BY <1>0 DEF Requests
    <3>2. req'[c] = r /\ req[c].at = "try"
      BY <2>3, Became DEF NoRetryWindow, MayTry, At
    <3> QED BY <1>3, <3>1, <3>2
  <2>4. CASE Send(c)
    <3> DEFINE r == [req[c] EXCEPT !.at = "sent", !.attempts = @ + 1,
                                   !.tries = @ + 1, !.tried = @ \cup {Key(c)}]
    <3>1. r.cand = req[c].cand /\ r.attempts = req[c].attempts + 1
      BY <1>0 DEF Requests
    <3>2. req'[c] = r
      BY <2>4, Became DEF Send
    <3> QED BY <1>0, <3>1, <3>2 DEF Nearer
  <2> QED BY <1>5, <2>1, <2>2, <2>3, <2>4 DEF TryRound
<1>6. CASE Answered(c)
  <2>1. CASE Succeed(c) \/ Escape(c) \/ RejectedByPolicy(c)
    BY <2>1, EndIsNearer DEF Succeed, Escape, RejectedByPolicy
  <2>2. CASE Correct(c)
    <3> DEFINE r == [req[c] EXCEPT !.at = "try", !.failure = "uncounted",
                                   !.corrected = @ \cup {Key(c)}]
    <3>1. r.at = "try" /\ r.cand = req[c].cand /\ r.attempts = req[c].attempts
      BY <1>0 DEF Requests
    <3>2. req'[c] = r /\ req[c].at = "sent"
      BY <2>2, Became DEF Correct, At
    <3> QED BY <1>4, <3>1, <3>2
  <2>3. ASSUME NEW place, NEW failure
        PROVE  LET r == [req[c] EXCEPT !.at = place, !.failure = failure]
               IN  r.at = place /\ r.cand = req[c].cand /\ r.attempts = req[c].attempts
    BY <1>0 DEF Requests
  <2>4. CASE Retry(c)
    <3>1. PICK answer \in Answers :
              Becomes(c, [req[c] EXCEPT !.at = "try", !.failure = Class(answer)])
      BY <2>4 DEF Retry
    <3> DEFINE r == [req[c] EXCEPT !.at = "try", !.failure = Class(answer)]
    <3>2. r.at = "try" /\ r.cand = req[c].cand /\ r.attempts = req[c].attempts
      BY <2>3
    <3>3. req'[c] = r /\ req[c].at = "sent"
      BY <2>4, <3>1, Became DEF Retry, At
    <3> QED BY <1>4, <3>2, <3>3
  <2>5. CASE GiveUp(c)
    <3>1. PICK answer \in Answers :
              Becomes(c, [req[c] EXCEPT !.at = "leave", !.failure = Class(answer)])
      BY <2>5 DEF GiveUp
    <3> DEFINE r == [req[c] EXCEPT !.at = "leave", !.failure = Class(answer)]
    <3>2. r.at = "leave" /\ r.cand = req[c].cand /\ r.attempts = req[c].attempts
      BY <2>3
    <3>3. req'[c] = r /\ req[c].at = "sent"
      BY <2>5, <3>1, Became DEF GiveUp, At
    <3> QED BY <1>3, <3>2, <3>3
  <2> QED BY <1>6, <2>1, <2>2, <2>4, <2>5 DEF Answered
<1>7. CASE LeaveCandidate(c)
  <2>1. CASE Key(c) < LastCandidate /\ req[c].attempts < MaxAttempts
    <3> DEFINE r == [req[c] EXCEPT !.at = "admit", !.cand = @ + 1]
    <3>1. r.cand = req[c].cand + 1
      BY <1>0 DEF Requests
    <3>2. req'[c] = r
      BY <1>7, <2>1, Became DEF LeaveCandidate
    <3> QED BY <1>0, <3>1, <3>2 DEF Nearer
  <2> QED BY <1>7, <2>1, EndIsNearer DEF LeaveCandidate
<1> QED BY <1>1, <1>2, <1>5, <1>6, <1>7 DEF Generate

\* What is not a step of its thread leaves a running request where it is.
LEMMA OthersLeaveAlone ==
    ASSUME TypeOK, [Next]_vars, NEW c \in Callers, Running(c), ~Generate(c)
    PROVE  Unmoved(req[c], req'[c])
<1>0. req[c] \in Requests
  BY DEF TypeOK
<1>1. CASE req'[c] = req[c]
  BY <1>1 DEF Unmoved
<1>2. ASSUME NEW d \in Callers, d # c,
             Begin(d) \/ Generate(d) \/ TimeShrinks(d) \/ DeadlinePasses(d)
      PROVE  req'[c] = req[c]
  BY <1>2, OnlyOneMoves DEF Begin, Generate, Admit, Defer, TryRound,
     Answered, LeaveCandidate, TimeShrinks, DeadlinePasses, CancelledInTry,
     DeadlineInTry, NoRetryWindow, Send, LineageExhausted, Succeed, Escape,
     RejectedByPolicy, Correct, Retry, GiveUp, End
<1>3. CASE TimeShrinks(c) \/ DeadlinePasses(c)
  <2>1. ASSUME NEW time
        PROVE  Unmoved(req[c], [req[c] EXCEPT !.time = time])
    BY <1>0 DEF Requests, Unmoved
  <2> QED BY <1>3, <2>1, Became DEF TimeShrinks, DeadlinePasses
<1>4. ~Begin(c)
  BY DEF Begin, Running
<1> QED BY <1>1, <1>2, <1>3, <1>4 DEF Next, Cancel, Cooldown, NextTask, vars

\* A thread that is admitted, corrects or retries has an attempt left to make.
LEMMA AttemptLeftStep ==
    ASSUME TypeOK, AttemptLeft, [Next]_vars
    PROVE  AttemptLeft'
<1> SUFFICES ASSUME NEW c \in Callers, req'[c].at \in {"admit", "try"}
             PROVE  req'[c].attempts < MaxAttempts
  BY DEF AttemptLeft
<1>0. req[c] \in Requests
  BY DEF TypeOK
<1>1. CASE Running(c) /\ ~Generate(c)
  <2>1. Unmoved(req[c], req'[c])
    BY <1>1, OthersLeaveAlone
  <2> QED BY <2>1 DEF AttemptLeft, Unmoved
<1>2. CASE ~Running(c)
  <2>1. CASE Begin(c)
    <3> DEFINE time == IF c \in overdue THEN "gone" ELSE "ample"
    <3>1. [NoRequest EXCEPT !.at = "admit", !.time = time].attempts = 0
      BY DEF NoRequest
    <3>2. req'[c] = [NoRequest EXCEPT !.at = "admit", !.time = time]
      BY <2>1, Became DEF Begin
    <3> QED BY <3>1, <3>2, GatewayAssumption DEF GatewayAssumption
  <2>2. CASE ~Begin(c)
    <3>1. ~Generate(c)
      BY <1>2 DEF Running, Generate, Admit, Defer, TryRound, Answered, LeaveCandidate,
         CancelledInTry, DeadlineInTry, NoRetryWindow, Send, LineageExhausted, MayTry,
         Succeed, Escape, RejectedByPolicy, Correct, Retry, GiveUp, At
    <3>2. ASSUME NEW d \in Callers, d # c,
                 Begin(d) \/ Generate(d) \/ TimeShrinks(d) \/ DeadlinePasses(d)
          PROVE  req'[c] = req[c]
      BY <3>2, OnlyOneMoves DEF Begin, Generate, Admit, Defer, TryRound,
         Answered, LeaveCandidate, TimeShrinks, DeadlinePasses, CancelledInTry,
         DeadlineInTry, NoRetryWindow, Send, LineageExhausted, Succeed, Escape,
         RejectedByPolicy, Correct, Retry, GiveUp, End
    <3>3. req'[c] = req[c]
      BY <1>2, <2>2, <3>1, <3>2
      DEF Next, TimeShrinks, DeadlinePasses, Cancel, Cooldown, NextTask, vars
    <3> QED BY <1>2, <3>3 DEF Running, At
  <2> QED BY <2>1, <2>2
<1>3. CASE Generate(c)
  <2>1. ASSUME NEW result PROVE ~End(c, result)
    BY <2>1, EndIsNearer
  <2>2. CASE Admit(c)
    <3>1. [req[c] EXCEPT !.at = "try", !.tries = 0, !.failure = "none"].attempts
          = req[c].attempts
      BY <1>0 DEF Requests
    <3> QED BY <2>2, <3>1, Became DEF Admit, At, AttemptLeft
  <2>3. CASE Defer(c)
    <3>1. [req[c] EXCEPT !.cand = @ + 1, !.skipped = @ \cup {Key(c)}].attempts
          = req[c].attempts
      BY <1>0 DEF Requests
    <3> QED BY <2>1, <2>3, <3>1, Became DEF Defer, At, AttemptLeft
  <2>4. CASE TryRound(c)
    <3>1. ~(CancelledInTry(c) \/ LineageExhausted(c))
      BY <2>1 DEF CancelledInTry, LineageExhausted
    <3>2. ASSUME NEW r, req'[c] = r, r.at \in {"leave", "sent"} PROVE FALSE
      BY <3>2
    <3>3. ~DeadlineInTry(c)
      <4>1. [req[c] EXCEPT !.at = "leave", !.failure = "outage"].at = "leave"
        BY <1>0 DEF Requests
      <4> QED BY <3>2, <4>1, Became DEF DeadlineInTry
    <3>4. ~NoRetryWindow(c)
      <4>1. [req[c] EXCEPT !.at = "leave"].at = "leave"
        BY <1>0 DEF Requests
      <4> QED BY <3>2, <4>1, Became DEF NoRetryWindow
    <3>5. ~Send(c)
      <4>1. [req[c] EXCEPT !.at = "sent", !.attempts = @ + 1,
                           !.tries = @ + 1, !.tried = @ \cup {Key(c)}].at = "sent"
        BY <1>0 DEF Requests
      <4> QED BY <3>2, <4>1, Became DEF Send
    <3> QED BY <2>4, <3>1, <3>3, <3>4, <3>5 DEF TryRound
  <2>5. CASE Answered(c)
    <3>1. ~(Succeed(c) \/ Escape(c) \/ RejectedByPolicy(c))
      BY <2>1 DEF Succeed, Escape, RejectedByPolicy
    <3>2. CASE Correct(c)
      <4>1. [req[c] EXCEPT !.at = "try", !.failure = "uncounted",
                           !.corrected = @ \cup {Key(c)}].attempts = req[c].attempts
        BY <1>0 DEF Requests
      <4> QED BY <3>2, <4>1, Became DEF Correct, MayCorrect
    <3>3. ASSUME NEW place, NEW failure
          PROVE  LET r == [req[c] EXCEPT !.at = place, !.failure = failure]
                 IN  r.at = place /\ r.attempts = req[c].attempts
      BY <1>0 DEF Requests
    <3>4. CASE Retry(c)
      <4>1. PICK answer \in Answers :
              /\ MayRetry(c, answer)
              /\ Becomes(c, [req[c] EXCEPT !.at = "try", !.failure = Class(answer)])
        BY <3>4 DEF Retry
      <4>2. req'[c] = [req[c] EXCEPT !.at = "try", !.failure = Class(answer)]
        BY <4>1, Became
      <4> QED BY <3>3, <4>1, <4>2 DEF MayRetry
    <3>5. ~GiveUp(c)
      <4>1. ASSUME NEW answer \in Answers,
                   Becomes(c, [req[c] EXCEPT !.at = "leave", !.failure = Class(answer)])
            PROVE  FALSE
        <5>1. req'[c] = [req[c] EXCEPT !.at = "leave", !.failure = Class(answer)]
          BY <4>1, Became
        <5> QED BY <3>3, <5>1
      <4> QED BY <4>1 DEF GiveUp
    <3> QED BY <2>5, <3>1, <3>2, <3>4, <3>5 DEF Answered
  <2>6. CASE LeaveCandidate(c)
    <3>1. [req[c] EXCEPT !.at = "admit", !.cand = @ + 1].attempts = req[c].attempts
      BY <1>0 DEF Requests
    <3> QED BY <2>1, <2>6, <3>1, Became DEF LeaveCandidate
  <2> QED BY <1>3, <2>2, <2>3, <2>4, <2>5, <2>6 DEF Generate
<1> QED BY <1>1, <1>2, <1>3

\* A request that is admitted or back in the retry loop has an attempt left, so the
\* loop of the code (gateway.py, 357) is never entered in vain, and a request never
\* leaves it without a value or a failure.
THEOREM RoundHasAttempt == Safe => []AttemptLeft
<1>1. Init => AttemptLeft
  BY DEF Init, AttemptLeft, NoRequest
<1>2. AttemptLeft /\ TypeOK /\ [Next]_vars => AttemptLeft'
  BY AttemptLeftStep
<1> QED BY <1>1, <1>2, TypeCorrect, PTL DEF Safe

\* Whatever the backends answer and whatever other callers do to the circuits, each
\* step of generate_structured brings its request nearer to its end, in an order
\* bounded by the backends and the attempts, and nothing takes it back: what remains
\* of RequestsEnd is that the thread keeps running and that an exchange is answered.
THEOREM RequestDescends == Safe => [][Descends]_vars
<1>1. TypeOK /\ [Next]_vars => [Descends]_vars
  BY GenerateDescends, OthersLeaveAlone DEF Descends
<1> QED BY <1>1, TypeCorrect, PTL DEF Safe

-------------------------------------------------------------------------------
(*****************************************************************************)
(* Acceptance, for every set of tasks and every trace of a solver. The       *)
(* requests are merged, and the redundant ones dropped, by loops over        *)
(* sequences of any length (Gather, Irredundant). Induct proves what such    *)
(* a loop leaves: induction as a fact about sets of numbers, from the        *)
(* well-foundedness of their order. AcceptanceInv relates what each stage    *)
(* leaves to what it was given: the intent to the task, the acceptance and   *)
(* the plan to the intent, the metrics to the plan, the report and the       *)
(* status to the metrics.                                                    *)
(*****************************************************************************)

Sample == [value : Values \cup {NotFinite}, step : Nat, written : BOOLEAN]

\* A request that stands for another, and a plan that holds one.
StandsFor(p, o) ==
    /\ p.id = o.id /\ p.kind = o.kind /\ p.scope = o.scope
    /\ p.time = o.time \/ p.time.kind = "history"

Holds(plan, o) == o.id \in DOMAIN plan /\ StandsFor(plan[o.id], o)

Rebound == [k \in DOMAIN task.plain |-> Rebind(task.plain[k])]
Judged == {c.observation.id : c \in ToSet(task.conditions)}

Interpreted ==
    /\ intent.plain = Irredundant(Rebound, Judged)
    /\ intent.conditions =
          [k \in DOMAIN task.conditions |-> Reconciled(task.conditions[k], task.statements)]

Compiled ==
    /\ Interpreted
    /\ \A c \in acceptance.conditions : c \in ToSet(intent.conditions) /\ c.confirmed /\ Covered(c)
    /\ \A c \in ToSet(intent.conditions) : Holds(acceptance.observations, c.observation)
    /\ IsFiniteSet(DOMAIN acceptance.observations)

IsPlanned ==
    /\ Compiled
    /\ \A o \in ToSet(intent.plain) : Holds(items, o)
    /\ \A c \in ToSet(intent.conditions) : Holds(items, c.observation)

IsDerived ==
    /\ IsPlanned
    /\ \E absent \in SUBSET DOMAIN items : metrics = [i \in DOMAIN items |-> Derive(items[i], absent)]

IsJudged ==
    /\ IsDerived
    /\ report = Verdict({Evaluated(c) : c \in acceptance.conditions})
    /\ status = StatusOf(report)

AcceptanceInv ==
    /\ task \in Tasks
    /\ trace \in Seq(Sample)
    /\ at = "acceptance" => Interpreted
    /\ at = "observations" => Compiled
    /\ at = "solve" => IsPlanned
    /\ at = "evaluate" => IsDerived
    /\ at = "done" => \/ IsJudged
                      \/ report = "none" /\ status # "RUN_COMPLETED"
    /\ at # "done" => report = "none" /\ status = "none"

-------------------------------------------------------------------------------

Below == {p \in Nat \X Nat : p[1] < p[2]}

\* A set of numbers that is not empty has a least one.
LEMMA Least ==
    ASSUME NEW T \in SUBSET Nat, T # {}
    PROVE  \E m \in T : \A n \in T : m <= n
<1>1. IsWellFoundedOn(Below, Nat)
    BY NatLessThanWellFounded DEF Below, OpToRel
<1>2. PICK x \in T : \A y \in T : ~(<<y, x>> \in Below)
    BY <1>1, WFMin
<1>3. \A y \in T : ~(y < x)
    BY <1>2 DEF Below
<1> QED BY <1>3

\* Induction on the numbers, as a fact about sets of them.
LEMMA Induct ==
    ASSUME NEW S \in SUBSET Nat, 0 \in S, \A n \in S : n + 1 \in S
    PROVE  S = Nat
<1> SUFFICES ASSUME S # Nat PROVE FALSE
    OBVIOUS
<1> DEFINE T == Nat \ S
<1>1. T \in SUBSET Nat /\ T # {}
    OBVIOUS
<1>2. PICK m \in T : \A n \in T : m <= n
    <2> HIDE DEF T
    <2> QED BY <1>1, Least
<1>3. m # 0 /\ m - 1 \in Nat /\ ~(m <= m - 1) /\ (m - 1) + 1 = m
    BY <1>2
<1>4. m - 1 \in S
    BY <1>2, <1>3
<1> QED BY <1>2, <1>3, <1>4

-------------------------------------------------------------------------------

\* A request merged with others is held with them, and none of those is lost.
LEMMA MergeHolds ==
    ASSUME NEW acc, NEW o, Merge(acc, o) # Clash
    PROVE  /\ acc # Clash
           /\ Holds(Merge(acc, o), o)
           /\ \A p : Holds(acc, p) => Holds(Merge(acc, o), p)
           /\ IsFiniteSet(DOMAIN acc) => IsFiniteSet(DOMAIN Merge(acc, o))
<1>1. acc # Clash
    BY DEF Merge
<1>2. PICK q : /\ Merge(acc, o) = Override(acc, q) /\ q.id = o.id
               /\ StandsFor(q, o)
               /\ o.id \in DOMAIN acc => StandsFor(q, acc[o.id])
    <2>1. CASE o.id \notin DOMAIN acc
        BY <1>1, <2>1 DEF Merge, StandsFor
    <2>2. CASE o.id \in DOMAIN acc
        <3>1. Compatible(acc[o.id], o) /\ Merge(acc, o) = Override(acc, Broader(acc[o.id], o))
            BY <1>1, <2>2 DEF Merge
        <3> QED BY <2>2, <3>1 DEF Compatible, Broader, StandsFor
    <2> QED BY <2>1, <2>2
<1> PICK new : new = Merge(acc, o)
    OBVIOUS
<1>3. /\ DOMAIN new = DOMAIN acc \cup {o.id}
      /\ new[o.id] = q
      /\ \A i \in DOMAIN acc : i # o.id => new[i] = acc[i]
    BY <1>2 DEF Override
<1>4. Holds(new, o)
    BY <1>2, <1>3 DEF Holds
<1>5. ASSUME NEW p, Holds(acc, p) PROVE Holds(new, p)
    <2>1. CASE p.id = o.id
        BY <1>2, <1>3, <1>5, <2>1 DEF Holds, StandsFor
    <2>2. CASE p.id # o.id
        BY <1>3, <1>5, <2>2 DEF Holds
    <2> QED BY <2>1, <2>2
<1>6. IsFiniteSet(DOMAIN acc) => IsFiniteSet(DOMAIN new)
    BY <1>3, FS_AddElement
<1> QED BY <1>1, <1>4, <1>5, <1>6

IsGathering(base, seq, n, unique) ==
    unique = [k \in 0..n |-> IF k = 0 THEN base ELSE Merge(unique[k - 1], seq[k])]

\* The requests can be merged one after the other, however many they are.
LEMMA GatheringExists ==
    ASSUME NEW base, NEW seq, NEW n \in Nat
    PROVE  \E unique : IsGathering(base, seq, n, unique)
<1> DEFINE S == {m \in Nat : \E unique : IsGathering(base, seq, m, unique)}
<1>1. 0 \in S
    <2> DEFINE g == [k \in 0..0 |-> base]
    <2>1. IsGathering(base, seq, 0, g)
        BY DEF IsGathering
    <2> QED BY <2>1
<1>2. ASSUME NEW m \in S PROVE m + 1 \in S
    <2>1. PICK g : IsGathering(base, seq, m, g)
        OBVIOUS
    <2> DEFINE h == [k \in 0..m + 1 |-> IF k <= m THEN g[k] ELSE Merge(g[k - 1], seq[k])]
    <2>2. ASSUME NEW k \in 0..m + 1
          PROVE  h[k] = IF k = 0 THEN base ELSE Merge(h[k - 1], seq[k])
        <3>1. k = 0 \/ (k # 0 /\ k <= m) \/ k = m + 1
            OBVIOUS
        <3>2. CASE k = 0
            BY <2>1, <3>2 DEF IsGathering
        <3>3. CASE k # 0 /\ k <= m
            <4>1. k \in 0..m /\ k - 1 <= m /\ k - 1 \in 0..m + 1
                BY <3>3
            <4>2. h[k] = g[k] /\ h[k - 1] = g[k - 1]
                BY <4>1, <3>3
            <4>3. g[k] = IF k = 0 THEN base ELSE Merge(g[k - 1], seq[k])
                BY <4>1, <2>1, Zenon DEF IsGathering
            <4> QED BY <3>3, <4>2, <4>3
        <3>4. CASE k = m + 1
            BY <3>4
        <3> QED BY <3>1, <3>2, <3>3, <3>4
    <2>3. IsGathering(base, seq, m + 1, h)
        BY <2>2 DEF IsGathering
    <2> QED BY <2>3
<1>3. S \in SUBSET Nat
    OBVIOUS
<1> HIDE DEF S
<1>4. S = Nat
    BY <1>1, <1>2, <1>3, Induct
<1> QED BY <1>4 DEF S

\* Gather is what the merging of the last request leaves.
LEMMA GatherSteps ==
    ASSUME NEW base, NEW seq, Len(seq) \in Nat
    PROVE  \E unique :
              /\ unique[0] = base
              /\ \A k \in 1..Len(seq) : unique[k] = Merge(unique[k - 1], seq[k])
              /\ Gather(base, seq) = unique[Len(seq)]
<1> DEFINE n == Len(seq)
           u == CHOOSE f : IsGathering(base, seq, n, f)
<1>1. IsGathering(base, seq, n, u)
    BY GatheringExists
<1>2. Gather(base, seq) = u[n]
    BY DEF Gather, IsGathering
<1> HIDE DEF u
<1>3. 0 \in 0..n
    OBVIOUS
<1>4. u[0] = base
    BY <1>1, <1>3, Zenon DEF IsGathering
<1>5. ASSUME NEW k \in 1..n PROVE u[k] = Merge(u[k - 1], seq[k])
    <2>1. k \in 0..n /\ k # 0
        OBVIOUS
    <2>2. u[k] = IF k = 0 THEN base ELSE Merge(u[k - 1], seq[k])
        BY <1>1, <2>1, Zenon DEF IsGathering
    <2> QED BY <2>1, <2>2
<1> QED BY <1>2, <1>4, <1>5

\* When no two requests clash, what is gathered holds each of them, and all that
\* was there before them.
LEMMA GatherHolds ==
    ASSUME NEW base, NEW seq, IsSequence(seq), Gather(base, seq) # Clash
    PROVE  /\ base # Clash
           /\ \A k \in DOMAIN seq : Holds(Gather(base, seq), seq[k])
           /\ \A o : Holds(base, o) => Holds(Gather(base, seq), o)
           /\ IsFiniteSet(DOMAIN base) => IsFiniteSet(DOMAIN Gather(base, seq))
<1> DEFINE n == Len(seq)
<1>1. n \in Nat /\ DOMAIN seq = 1..n
    BY DEF IsSequence
<1>2. PICK u : /\ u[0] = base
               /\ \A k \in 1..n : u[k] = Merge(u[k - 1], seq[k])
               /\ Gather(base, seq) = u[n]
    BY <1>1, GatherSteps
<1> DEFINE P(m) == u[m] # Clash =>
                      /\ base # Clash
                      /\ \A k \in 1..m : Holds(u[m], seq[k])
                      /\ \A o : Holds(base, o) => Holds(u[m], o)
                      /\ IsFiniteSet(DOMAIN base) => IsFiniteSet(DOMAIN u[m])
           S == {m \in Nat : m <= n => P(m)}
<1>3. 0 \in S
    BY <1>2
<1>4. ASSUME NEW m \in S PROVE m + 1 \in S
    <2> SUFFICES ASSUME m + 1 <= n, u[m + 1] # Clash PROVE P(m + 1)
        OBVIOUS
    <2>1. m + 1 \in 1..n /\ m <= n /\ (m + 1) - 1 = m
        BY <1>1
    <2>2. u[m + 1] = Merge(u[m], seq[m + 1])
        BY <1>2, <2>1
    <2>3. P(m)
        BY <2>1
    <2>4. /\ u[m] # Clash
          /\ Holds(u[m + 1], seq[m + 1])
          /\ \A p : Holds(u[m], p) => Holds(u[m + 1], p)
          /\ IsFiniteSet(DOMAIN u[m]) => IsFiniteSet(DOMAIN u[m + 1])
        BY <2>2, MergeHolds
    <2>5. \A k \in 1..m + 1 : k \in 1..m \/ k = m + 1
        OBVIOUS
    <2> QED BY <2>3, <2>4, <2>5
<1>5. S \in SUBSET Nat
    OBVIOUS
<1> HIDE DEF S
<1>6. S = Nat
    BY <1>3, <1>4, <1>5, Induct
<1>7. P(n)
    BY <1>1, <1>6 DEF S
<1> QED BY <1>1, <1>2, <1>7

\* The requests kept by name are finitely many.
LEMMA LastOfFinite ==
    ASSUME NEW plain, IsSequence(plain)
    PROVE  IsFiniteSet(DOMAIN LastOf(plain))
<1>1. DOMAIN plain = 1..Len(plain) /\ Len(plain) \in Nat
    BY DEF IsSequence
<1>2. IsFiniteSet(DOMAIN plain)
    BY <1>1, FS_Interval
<1> DEFINE S == DOMAIN plain
           T == {plain[k].id : k \in S}
           f == [k \in S |-> plain[k].id]
<1>3. T = {f[k] : k \in S}
    OBVIOUS
<1>4. f \in Surjection(S, T)
    BY DEF Surjection
<1>5. IsFiniteSet(T)
    BY <1>2, <1>4, FS_Surjection
<1> QED BY <1>5 DEF LastOf

\* The members of a finite set in some order
LEMMA Listed ==
    ASSUME NEW S, IsFiniteSet(S)
    PROVE  IsSequence(SetToSeq(S)) /\ \A x \in S : \E k \in DOMAIN SetToSeq(S) : SetToSeq(S)[k] = x
<1> DEFINE n == Cardinality(S)
           s == SetToSeq(S)
<1>1. n \in Nat
    BY FS_CardinalityType
<1>2. ExistsBijection(1..n, S)
    BY FS_CardinalityType
<1>3. PICK f \in [1..n -> S] : f \in Bijection(1..n, S)
    BY <1>2 DEF ExistsBijection, Bijection, Injection, Surjection
<1>4. IsInjective(f)
    BY <1>3 DEF IsInjective, Bijection, Injection
<1>5. s \in [1..n -> S] /\ IsInjective(s)
    BY <1>4 DEF SetToSeq
<1> HIDE DEF s
<1>6. DOMAIN s = 1..n
    BY <1>5
<1> DEFINE T == {s[k] : k \in 1..n}
<1>7. s \in Bijection(1..n, T)
    BY <1>5 DEF IsInjective, Bijection, Injection, Surjection
<1>8. IsFiniteSet(1..n) /\ Cardinality(1..n) = n
    BY <1>1, FS_Interval
<1>9. IsFiniteSet(T) /\ Cardinality(T) = n
    <2>1. ExistsBijection(1..n, T)
        BY <1>7 DEF ExistsBijection
    <2> HIDE DEF T
    <2> QED BY <1>8, <2>1, FS_Bijection
<1>10. T \subseteq S
    BY <1>5
<1>11. T = S
    BY <1>9, <1>10, FS_Subset
<1>12. Len(s) = n
    <2>1. s \in Seq(S)
        BY <1>1, <1>5, SeqDef
    <2>2. Len(s) \in Nat /\ DOMAIN s = 1..Len(s)
        BY <2>1, LenProperties
    <2>3. PICK m \in Nat : m = Len(s)
        BY <2>2
    <2>4. 1..m = 1..n
        BY <1>6, <2>2, <2>3
    <2>5. m = n
        <3>1. m \in 1..m \/ m = 0
            OBVIOUS
        <3>2. n \in 1..n \/ n = 0
            BY <1>1
        <3> QED BY <1>1, <2>4, <3>1, <3>2
    <2> QED BY <2>3, <2>5
<1> QED BY <1>1, <1>6, <1>11, <1>12 DEF s, IsSequence

Longer(s, o) == Append(s, o)

Sifted(plain, judged, k, before) ==
    IF Redundant(plain[k], plain, judged) THEN before ELSE Append(before, plain[k])

IsSifting(plain, judged, n, rest) ==
    rest = [k \in 0..n |-> IF k = 0 THEN <<>> ELSE Sifted(plain, judged, k, rest[k - 1])]

\* The requests can be sifted one after the other, however many they are.
LEMMA SiftingExists ==
    ASSUME NEW plain, NEW judged, NEW n \in Nat
    PROVE  \E rest : IsSifting(plain, judged, n, rest)
<1> DEFINE S == {m \in Nat : \E rest : IsSifting(plain, judged, m, rest)}
<1>1. 0 \in S
    <2> DEFINE g == [k \in 0..0 |-> <<>>]
    <2>1. IsSifting(plain, judged, 0, g)
        BY DEF IsSifting
    <2> QED BY <2>1
<1>2. ASSUME NEW m \in S PROVE m + 1 \in S
    <2>1. PICK g : IsSifting(plain, judged, m, g)
        OBVIOUS
    <2> DEFINE h == [k \in 0..m + 1 |-> IF k <= m THEN g[k] ELSE Sifted(plain, judged, k, g[k - 1])]
    <2>2. ASSUME NEW k \in 0..m + 1
          PROVE  h[k] = IF k = 0 THEN <<>> ELSE Sifted(plain, judged, k, h[k - 1])
        <3>1. k = 0 \/ (k # 0 /\ k <= m) \/ k = m + 1
            OBVIOUS
        <3>2. CASE k = 0
            BY <2>1, <3>2 DEF IsSifting
        <3>3. CASE k # 0 /\ k <= m
            <4>1. k \in 0..m /\ k - 1 <= m /\ k - 1 \in 0..m + 1
                BY <3>3
            <4>2. h[k] = g[k] /\ h[k - 1] = g[k - 1]
                BY <4>1, <3>3
            <4>3. g[k] = IF k = 0 THEN <<>> ELSE Sifted(plain, judged, k, g[k - 1])
                BY <4>1, <2>1, Zenon DEF IsSifting
            <4> QED BY <3>3, <4>2, <4>3
        <3>4. CASE k = m + 1
            BY <3>4
        <3> QED BY <3>1, <3>2, <3>3, <3>4
    <2>3. IsSifting(plain, judged, m + 1, h)
        BY <2>2 DEF IsSifting
    <2> QED BY <2>3
<1>3. S \in SUBSET Nat
    OBVIOUS
<1> HIDE DEF S
<1>4. S = Nat
    BY <1>1, <1>2, <1>3, Induct
<1> QED BY <1>4 DEF S

\* Irredundant is what the sifting of the last request leaves.
LEMMA SiftSteps ==
    ASSUME NEW plain, NEW judged, Len(plain) \in Nat
    PROVE  \E rest :
              /\ rest[0] = <<>>
              /\ \A k \in 1..Len(plain) :
                    rest[k] = IF Redundant(plain[k], plain, judged) THEN rest[k - 1]
                              ELSE Longer(rest[k - 1], plain[k])
              /\ Irredundant(plain, judged) = rest[Len(plain)]
<1> DEFINE n == Len(plain)
           r == CHOOSE f : IsSifting(plain, judged, n, f)
<1>1. IsSifting(plain, judged, n, r)
    BY SiftingExists
<1>2. Irredundant(plain, judged) = r[n]
    BY DEF Irredundant, IsSifting, Sifted
<1> HIDE DEF r
<1>3. 0 \in 0..n
    OBVIOUS
<1>4. r[0] = <<>>
    BY <1>1, <1>3, Zenon DEF IsSifting
<1>5. ASSUME NEW k \in 1..n
      PROVE  r[k] = IF Redundant(plain[k], plain, judged) THEN r[k - 1] ELSE Longer(r[k - 1], plain[k])
    <2>1. k \in 0..n /\ k # 0
        OBVIOUS
    <2>2. r[k] = IF k = 0 THEN <<>> ELSE Sifted(plain, judged, k, r[k - 1])
        BY <1>1, <2>1, Zenon DEF IsSifting
    <2> QED BY <2>1, <2>2, Zenon DEF Longer, Sifted
<1> QED BY <1>2, <1>4, <1>5

Lists(t, o) == \E j \in DOMAIN t : t[j] = o

LongerBy(S, s, o, t) ==
    /\ t \in Seq(S)
    /\ Lists(t, o)
    /\ \A p : Lists(s, p) => Lists(t, p)

\* What appending does, under a name the provers can instantiate.
LEMMA LongerLists ==
    ASSUME NEW S, NEW s \in Seq(S), NEW o \in S
    PROVE  LongerBy(S, s, o, Longer(s, o))
<1> PICK t : t = Longer(s, o)
    OBVIOUS
<1>1. /\ t \in Seq(S) /\ Len(t) = Len(s) + 1 /\ t[Len(s) + 1] = o
      /\ \A i \in 1..Len(s) : t[i] = s[i]
    BY DEF Longer
<1>2. DOMAIN s = 1..Len(s) /\ DOMAIN t = 1..Len(s) + 1 /\ Len(s) \in Nat
    BY <1>1
<1>3. Lists(t, o)
    BY <1>1, <1>2 DEF Lists
<1>4. \A p : Lists(s, p) => Lists(t, p)
    BY <1>1, <1>2 DEF Lists
<1> QED BY <1>1, <1>3, <1>4 DEF LongerBy

\* Every request that is not redundant stays.
LEMMA IrredundantStays ==
    ASSUME NEW plain, NEW judged, IsSequence(plain)
    PROVE  /\ IsSequence(Irredundant(plain, judged))
           /\ \A k \in DOMAIN plain : ~Redundant(plain[k], plain, judged) =>
                 Lists(Irredundant(plain, judged), plain[k])
<1> DEFINE n == Len(plain)
           R(k) == Redundant(plain[k], plain, judged)
           All == {plain[k] : k \in DOMAIN plain}
<1>1. n \in Nat /\ DOMAIN plain = 1..n
    BY DEF IsSequence
<1>2. PICK r : /\ r[0] = <<>>
               /\ \A k \in 1..n : r[k] = IF R(k) THEN r[k - 1] ELSE Longer(r[k - 1], plain[k])
               /\ Irredundant(plain, judged) = r[n]
    BY <1>1, SiftSteps
<1> DEFINE P(m) == /\ r[m] \in Seq(All)
                   /\ \A k \in 1..m : ~R(k) => Lists(r[m], plain[k])
           S == {m \in Nat : m <= n => P(m)}
<1> HIDE DEF R, All
<1>3. 0 \in S
    <2>1. r[0] \in Seq(All)
        BY <1>2, EmptySeq
    <2> QED BY <2>1
<1>4. ASSUME NEW m \in S PROVE m + 1 \in S
    <2> SUFFICES ASSUME m + 1 <= n PROVE P(m + 1)
        OBVIOUS
    <2>1. m + 1 \in 1..n /\ m <= n /\ (m + 1) - 1 = m
        BY <1>1
    <2>2. r[m + 1] = IF R(m + 1) THEN r[m] ELSE Longer(r[m], plain[m + 1])
        BY <1>2, <2>1
    <2>3. P(m)
        BY <2>1
    <2>4. \A k \in 1..m + 1 : k \in 1..m \/ k = m + 1
        OBVIOUS
    <2>5. plain[m + 1] \in All
        BY <1>1, <2>1 DEF All
    <2>6. CASE R(m + 1)
        BY <2>2, <2>3, <2>4, <2>6
    <2>7. CASE ~R(m + 1)
        <3> PICK s : s = r[m]
            OBVIOUS
        <3> PICK t : t = r[m + 1]
            OBVIOUS
        <3>1. s \in Seq(All) /\ t = Longer(s, plain[m + 1])
            BY <2>2, <2>3, <2>7
        <3>2. LongerBy(All, s, plain[m + 1], t)
            BY <2>5, <3>1, LongerLists, Zenon
        <3>3. \A k \in 1..m : ~R(k) => Lists(s, plain[k])
            BY <2>3
        <3>4. \A k \in 1..m : ~R(k) => Lists(t, plain[k])
            BY <3>2, <3>3 DEF LongerBy
        <3>5. \A k \in 1..m + 1 : ~R(k) => Lists(t, plain[k])
            BY <2>4, <3>2, <3>4 DEF LongerBy
        <3> QED BY <3>2, <3>5 DEF LongerBy
    <2> QED BY <2>6, <2>7
<1>5. S \in SUBSET Nat
    OBVIOUS
<1> HIDE DEF S
<1>6. S = Nat
    BY <1>3, <1>4, <1>5, Induct
<1>7. P(n)
    BY <1>1, <1>6 DEF S
<1>8. IsSequence(r[n])
    BY <1>7, LenProperties DEF IsSequence
<1> QED BY <1>1, <1>2, <1>7, <1>8 DEF R

-------------------------------------------------------------------------------

\* A function on 1..n is a sequence of its values.
LEMMA IsSequenceOf ==
    ASSUME NEW n \in Nat, NEW s, DOMAIN s = 1..n, s = [k \in 1..n |-> s[k]]
    PROVE  IsSequence(s)
<1> DEFINE T == {s[k] : k \in 1..n}
<1>1. s \in [1..n -> T]
    OBVIOUS
<1> HIDE DEF T
<1>2. s \in Seq(T)
    BY <1>1, SeqDef
<1> QED BY <1>2, LenProperties DEF IsSequence

\* The values of a function on a finite set are finitely many.
LEMMA FiniteRange ==
    ASSUME NEW S, IsFiniteSet(S), NEW f
    PROVE  IsFiniteSet({f[x] : x \in S})
<1> DEFINE T == {f[x] : x \in S}
           g == [x \in S |-> f[x]]
<1>1. g \in Surjection(S, T)
    BY DEF Surjection
<1> HIDE DEF T, g
<1>2. IsFiniteSet(T)
    BY <1>1, FS_Surjection
<1> QED BY <1>2 DEF T

\* What stands for a request that stands for another stands for that one.
LEMMA StandsForTransitive ==
    ASSUME NEW p, NEW q, NEW o, StandsFor(p, q), StandsFor(q, o)
    PROVE  StandsFor(p, o)
BY DEF StandsFor

\* What the interpretation of the intent makes of the requests is a sequence.
LEMMA InterpretedSequences ==
    ASSUME task \in Tasks, Interpreted
    PROVE  /\ IsSequence(Rebound) /\ DOMAIN Rebound = DOMAIN task.plain
           /\ IsSequence(intent.plain)
           /\ Len(task.conditions) \in Nat /\ DOMAIN intent.conditions = 1..Len(task.conditions)
<1>1. IsSequence(task.plain) /\ IsSequence(task.conditions)
    BY AcceptanceAssumption
<1>2. IsSequence(Rebound) /\ DOMAIN Rebound = DOMAIN task.plain
    BY <1>1, IsSequenceOf DEF IsSequence, Rebound
<1>3. IsSequence(intent.plain)
    BY <1>2, IrredundantStays DEF Interpreted
<1> QED BY <1>1, <1>2, <1>3 DEF Interpreted, IsSequence

\* compiler.py: the compiled acceptance holds an observation for every
\* condition.
LEMMA CompileHolds ==
    ASSUME task \in Tasks, Interpreted, NEW merged, merged # Clash,
           merged = Gather(LastOf(intent.plain),
                           [k \in DOMAIN intent.conditions |-> intent.conditions[k].observation])
    PROVE  /\ \A c \in ToSet(intent.conditions) : Holds(merged, c.observation)
           /\ IsFiniteSet(DOMAIN merged)
<1> DEFINE seq == [k \in DOMAIN intent.conditions |-> intent.conditions[k].observation]
<1>1. PICK n \in Nat : DOMAIN intent.conditions = 1..n
    BY InterpretedSequences
<1>2. IsSequence(seq)
    BY <1>1, IsSequenceOf
<1>3. IsFiniteSet(DOMAIN LastOf(intent.plain))
    BY InterpretedSequences, LastOfFinite
<1>4. DOMAIN seq = DOMAIN intent.conditions
      /\ \A k \in DOMAIN intent.conditions : seq[k] = intent.conditions[k].observation
    OBVIOUS
<1>5. merged = Gather(LastOf(intent.plain), seq)
    OBVIOUS
<1> HIDE DEF seq
<1>6. /\ \A k \in DOMAIN seq : Holds(merged, seq[k])
      /\ IsFiniteSet(DOMAIN merged)
    BY <1>2, <1>3, <1>5, GatherHolds
<1> QED BY <1>4, <1>6 DEF ToSet

\* planner.py: the plan holds every observation of the intent.
LEMMA PlanHolds ==
    ASSUME task \in Tasks, Compiled, NEW merged, merged # Clash,
           merged = Planned(<<>>, intent.plain,
                            SetToSeq({acceptance.observations[i] : i \in DOMAIN acceptance.observations}))
    PROVE  /\ \A o \in ToSet(intent.plain) : Holds(merged, o)
           /\ \A c \in ToSet(intent.conditions) : Holds(merged, c.observation)
<1> DEFINE wanted == acceptance.observations
           W == {wanted[i] : i \in DOMAIN wanted}
           list == SetToSeq(W)
           base == Gather(<<>>, intent.plain)
<1>1. IsFiniteSet(W)
    BY FiniteRange DEF Compiled
<1>2. IsSequence(list) /\ \A x \in W : \E k \in DOMAIN list : list[k] = x
    <2> HIDE DEF W
    <2> QED BY <1>1, Listed
<1>3. merged = Gather(base, list)
    BY DEF Planned
<1>4. IsSequence(intent.plain)
    BY InterpretedSequences DEF Compiled
<1> HIDE DEF base, list, W
<1>5. /\ base # Clash
      /\ \A k \in DOMAIN list : Holds(merged, list[k])
      /\ \A o : Holds(base, o) => Holds(merged, o)
    <2>1. IsSequence(list) /\ Gather(base, list) # Clash
        BY <1>2, <1>3
    <2>2. /\ base # Clash
          /\ \A k \in DOMAIN list : Holds(Gather(base, list), list[k])
          /\ \A o : Holds(base, o) => Holds(Gather(base, list), o)
        BY <2>1, GatherHolds
    <2> QED BY <1>3, <2>2
<1>6. \A k \in DOMAIN intent.plain : Holds(base, intent.plain[k])
    BY <1>4, <1>5, GatherHolds DEF base
<1>7. ASSUME NEW c \in ToSet(intent.conditions)
      PROVE  Holds(merged, c.observation)
    <2> PICK o : o = c.observation
        OBVIOUS
    <2> PICK q : q = wanted[o.id]
        OBVIOUS
    <2>1. o.id \in DOMAIN wanted /\ StandsFor(q, o)
        BY DEF Compiled, Holds
    <2>2. q \in W
        BY <2>1 DEF W
    <2>3. Holds(merged, q)
        BY <1>2, <1>5, <2>2
    <2>4. q.id = o.id
        BY <2>1 DEF StandsFor
    <2> QED BY <2>1, <2>3, <2>4, StandsForTransitive DEF Holds
<1> QED BY <1>5, <1>6, <1>7 DEF ToSet

\* A request that is held is carried out as it was made.
LEMMA HeldIsCarried ==
    ASSUME NEW o, NEW p, Holds(items, p), p.kind = o.kind, p.time = o.time
    PROVE  Carries(o, p.scope)
BY DEF Holds, StandsFor, Carries

\* Every request of the task is carried out, under the scope the mesh gives it.
LEMMA NothingDropped ==
    ASSUME task \in Tasks, IsPlanned,
           NEW o \in ToSet(task.plain) \cup {c.observation : c \in ToSet(task.conditions)}
    PROVE  \/ Carries(o, Rebind(o).scope)
           \/ o.scope = "pair" /\ \A patch \in {"inlet", "outlet"} : Carries(o, patch)
<1>1. Rebind(o).kind = o.kind /\ Rebind(o).time = o.time
    BY DEF Rebind
<1>2. ASSUME Holds(items, Rebind(o)) PROVE Carries(o, Rebind(o).scope)
    BY <1>1, <1>2, HeldIsCarried
<1>3. CASE o \in {c.observation : c \in ToSet(task.conditions)}
    <2>1. PICK k \in DOMAIN task.conditions : o = task.conditions[k].observation
        BY <1>3 DEF ToSet
    <2>2. /\ intent.conditions[k] \in ToSet(intent.conditions)
          /\ intent.conditions[k].observation = Rebind(o)
        BY <2>1 DEF IsPlanned, Compiled, Interpreted, Reconciled, ToSet
    <2> QED BY <1>2, <2>2 DEF IsPlanned
<1>4. CASE o \in ToSet(task.plain)
    <2>1. PICK k \in DOMAIN task.plain : o = task.plain[k]
        BY <1>4 DEF ToSet
    <2>2. /\ IsSequence(Rebound) /\ DOMAIN Rebound = DOMAIN task.plain
          /\ intent.plain = Irredundant(Rebound, Judged)
        BY InterpretedSequences DEF IsPlanned, Compiled, Interpreted
    <2>3. \A j \in DOMAIN Rebound : ~Redundant(Rebound[j], Rebound, Judged) => Holds(items, Rebound[j])
        BY <2>2, IrredundantStays DEF IsPlanned, ToSet, Lists
    <2>4. Rebound[k] = Rebind(o)
        BY <2>1 DEF Rebound
    <2>5. CASE ~Redundant(Rebound[k], Rebound, Judged)
        BY <1>2, <2>1, <2>2, <2>3, <2>4, <2>5
    <2>6. CASE Redundant(Rebound[k], Rebound, Judged)
        <3>1. /\ Rebind(o).kind = "flow" /\ Rebind(o).scope = "pair"
              /\ \A patch \in {"inlet", "outlet"} :
                    \E p \in ToSet(Rebound) : p.kind = "flow" /\ p.scope = patch /\ p.time = Rebind(o).time
            BY <2>4, <2>6 DEF Redundant
        <3>2. o.scope = "pair"
            BY <3>1 DEF Rebind
        <3>3. ASSUME NEW patch \in {"inlet", "outlet"} PROVE Carries(o, patch)
            <4>1. PICK j \in DOMAIN Rebound :
                     Rebound[j].kind = "flow" /\ Rebound[j].scope = patch /\ Rebound[j].time = Rebind(o).time
                BY <3>1 DEF ToSet
            <4>2. ~Redundant(Rebound[j], Rebound, Judged)
                BY <4>1 DEF Redundant
            <4> QED BY <1>1, <2>3, <3>1, <4>1, <4>2, HeldIsCarried
        <3> QED BY <3>2, <3>3
    <2> QED BY <2>5, <2>6
<1> QED BY <1>3, <1>4

-------------------------------------------------------------------------------

\* What a series of a complete run holds
LEMMA SeriesOf ==
    ASSUME NEW o, NEW absent, Derive(o, absent).status = "AVAILABLE"
    PROVE  /\ o.kind = "residual" => Derive(o, absent).times = ResidualFacts
           /\ o.kind # "residual" =>
                 /\ Derive(o, absent).times = Output(o)
                 /\ \A t \in Output(o) : trace[t].value # NotFinite
           /\ Derive(o, absent).times \subseteq Times
<1> DEFINE d == Derive(o, absent)
<1>1. \A times : Bounded(times).status = "AVAILABLE" => Bounded(times).times = times
    BY DEF Bounded
<1>2. Unavailable.status # "AVAILABLE"
    BY DEF Unavailable
<1>3. ResidualFacts \subseteq Times
    BY DEF ResidualFacts, Parsed, LinesOf
<1>4. Output(o) \subseteq Times
    BY DEF Output
<1>5. CASE o.kind = "residual"
    <2>1. d = FromFacts
        BY <1>5 DEF Derive
    <2>2. d = Bounded(ResidualFacts)
        BY <1>2, <2>1 DEF FromFacts
    <2> QED BY <1>1, <1>3, <1>5, <2>2
<1>6. CASE o.kind # "residual"
    <2>1. d = FromFiles(o)
        BY <1>2, <1>6 DEF Derive
    <2>2. d = Bounded(Output(o)) /\ \A t \in Output(o) : trace[t].value # NotFinite
        BY <1>2, <2>1 DEF FromFiles
    <2> QED BY <1>1, <1>4, <1>6, <2>2
<1> QED BY <1>5, <1>6

\* The residuals of a run whose commands all ended normally are those of every step.
LEMMA AllResiduals ==
    ASSUME \A step \in Steps : EndedNormally(step)
    PROVE  ResidualFacts = Times
<1>1. ASSUME NEW t \in Times PROVE t \in ResidualFacts
    <2>1. trace[t].step \in Steps /\ t \in LinesOf(trace[t].step)
        BY DEF Steps, LinesOf
    <2>2. t \in Parsed(trace[t].step) /\ trace[t].value # NotFinite
        BY <2>1 DEF EndedNormally
    <2> QED BY <2>1, <2>2 DEF ResidualFacts
<1>2. ResidualFacts \subseteq Times
    BY DEF ResidualFacts, Parsed, LinesOf
<1> QED BY <1>1, <1>2

\* What the evaluator knows of a condition
LEMMA ConditionOf ==
    ASSUME task \in Tasks, IsDerived, NEW c \in acceptance.conditions
    PROVE  /\ c.observation.id \in DOMAIN items
           /\ StandsFor(items[c.observation.id], c.observation)
           /\ c.confirmed /\ Covered(c)
           /\ c.quote \in task.statements
           /\ Says(c.quote, c.observation.kind)
           /\ DeclaredTime(c.quote) = c.scope.kind
           /\ c.op = "less_equal" => IsStated(c.limit, "less_equal", c.quote)
           /\ c.limit \in Int /\ c.scope.kind \in {"latest", "range", "all"}
           /\ \E absent : metrics[c.observation.id] = Derive(items[c.observation.id], absent)
<1>1. c \in ToSet(intent.conditions) /\ c.confirmed /\ Covered(c)
    BY DEF IsDerived, IsPlanned, Compiled
<1>2. Holds(items, c.observation)
    BY <1>1 DEF IsDerived, IsPlanned
<1>3. \E absent : metrics[c.observation.id] = Derive(items[c.observation.id], absent)
    BY <1>2 DEF IsDerived, Holds
<1>4. PICK k \in DOMAIN task.conditions : c = Reconciled(task.conditions[k], task.statements)
    BY <1>1 DEF IsDerived, IsPlanned, Compiled, Interpreted, ToSet
<1> PICK b : b = task.conditions[k]
    OBVIOUS
<1>5. /\ c.confirmed => HasAuthority(b, task.statements)
      /\ c.quote = b.quote /\ c.op = b.op /\ c.limit = b.limit /\ c.scope = b.scope
      /\ c.observation = Rebind(b.observation)
    BY <1>4 DEF Reconciled
<1>6. HasAuthority(b, task.statements)
    BY <1>1, <1>5
<1>7. c.observation.kind = b.observation.kind
    <2>1. \A o : Rebind(o).kind = o.kind
        BY DEF Rebind
    <2> QED BY <1>5, <2>1
<1>8. b.limit \in Int /\ b.scope.kind \in {"latest", "range", "all"}
    BY AcceptanceAssumption
<1> QED BY <1>1, <1>2, <1>3, <1>5, <1>6, <1>7, <1>8 DEF HasAuthority, Holds

\* A run that completed was judged by conditions on its metrics, and met each of
\* them at every step.
LEMMA AcceptedHolds ==
    ASSUME task \in Tasks, IsJudged, status = "RUN_COMPLETED",
           \A step \in Steps : EndedNormally(step), NEW c \in acceptance.conditions
    PROVE  /\ c.unit = UnitOf[c.observation.kind]
           /\ SpokenOf(c) # {}
           /\ \A t \in SpokenOf(c) : Matches(c, t)
<1> PICK i : i = c.observation.id
    OBVIOUS
<1> PICK o : o = items[i]
    OBVIOUS
<1> PICK series : series = metrics[i]
    OBVIOUS
<1> DEFINE selected == IF series.status = "AVAILABLE" THEN Scoped(c, series.times) ELSE {}
           results == {Evaluated(d) : d \in acceptance.conditions}
<1>1. report \in {"PASS", "NOT_REQUESTED"}
    BY DEF IsJudged, StatusOf
<1>2. results # {} /\ report = Verdict(results)
    BY DEF IsJudged
<1>3. "FAIL" \notin results /\ "NOT_EVALUATED" \notin results
    <2> HIDE DEF results
    <2> QED BY <1>1, <1>2 DEF Verdict
<1>4. Evaluated(c) \notin {"FAIL", "NOT_EVALUATED"}
    BY <1>3
<1>5. /\ selected # {} /\ Comparable(c)
      /\ \A t \in selected : Matches(c, t)
    BY <1>4 DEF Evaluated
<1>6. series.status = "AVAILABLE" /\ selected = Scoped(c, series.times)
    BY <1>5
<1>7. PICK absent : series = Derive(o, absent)
    BY ConditionOf DEF IsJudged
<1>8. StandsFor(o, c.observation) /\ Covered(c) /\ c.scope.kind \in {"latest", "range", "all"}
    BY ConditionOf DEF IsJudged
<1>9. series.times = IF c.observation.kind = "residual" THEN Times ELSE Output(o)
    BY <1>6, <1>7, <1>8, SeriesOf, AllResiduals DEF StandsFor
<1>10. c.scope.kind = "all" => series.times = Times
    <2> SUFFICES ASSUME c.scope.kind = "all" PROVE series.times = Times
        OBVIOUS
    <2>1. o.time.kind = "history"
        BY <1>8 DEF Covered, StandsFor
    <2> QED BY <1>9, <2>1 DEF Output
<1>11. SpokenOf(c) = Scoped(c, series.times)
    BY <1>8, <1>9, <1>10 DEF SpokenOf, Scoped
<1>12. c.unit = UnitOf[c.observation.kind]
    BY <1>5 DEF Comparable
<1> HIDE DEF selected
<1> QED BY <1>5, <1>6, <1>11, <1>12

\* A report fails only over a sample above a number that the sentence states.
LEMMA FailureHolds ==
    ASSUME task \in Tasks, trace \in Seq(Sample), IsJudged, report = "FAIL"
    PROVE  FailureIsTheUsers
<1> DEFINE results == {Evaluated(d) : d \in acceptance.conditions}
<1>1. report = Verdict(results)
    BY DEF IsJudged
<1>2. "FAIL" \in results
    <2> HIDE DEF results
    <2> QED BY <1>1 DEF Verdict
<1>3. PICK c \in acceptance.conditions : Evaluated(c) = "FAIL"
    BY <1>2
<1> PICK i : i = c.observation.id
    OBVIOUS
<1> PICK o : o = items[i]
    OBVIOUS
<1> PICK series : series = metrics[i]
    OBVIOUS
<1>4. PICK t : series.status = "AVAILABLE" /\ t \in Scoped(c, series.times) /\ ~Matches(c, t)
    BY <1>3 DEF Evaluated
<1>5. t \in series.times
    BY <1>4 DEF Scoped
<1>6. PICK absent : series = Derive(o, absent)
    BY ConditionOf DEF IsJudged
<1>7. t \in Times /\ trace[t].value # NotFinite
    BY <1>4, <1>5, <1>6, SeriesOf DEF ResidualFacts
<1>8. /\ c.quote \in task.statements /\ Says(c.quote, c.observation.kind)
      /\ DeclaredTime(c.quote) = c.scope.kind
      /\ c.op = "less_equal" => IsStated(c.limit, "less_equal", c.quote)
      /\ c.limit \in Int /\ i \in DOMAIN items /\ StandsFor(o, c.observation)
    BY ConditionOf DEF IsJudged
<1>9. c.op = "less_equal" /\ ~(trace[t].value <= c.limit)
    BY <1>4, <1>7 DEF Matches
<1>10. trace[t].value \in Values \cup {NotFinite}
    <2>1. t \in 1..Len(trace)
        BY <1>7 DEF Times
    <2>2. trace[t] \in Sample
        BY <2>1
    <2> QED BY <2>2 DEF Sample
<1>11. trace[t].value \in Int
    BY <1>7, <1>10, AcceptanceAssumption
<1>12. trace[t].value > c.limit
    BY <1>8, <1>9, <1>11
<1>13. Says(c.quote, items[i].kind)
    BY <1>8 DEF StandsFor
<1>14. \E j, k \in DOMAIN c.quote :
          /\ j < k /\ "less_equal" \in c.quote[j].marks
          /\ \E limit \in c.quote[k].numbers : trace[t].value > limit
    BY <1>8, <1>9, <1>12 DEF IsStated
<1>15. DeclaredTime(c.quote) = "latest" => \A u \in metrics[i].times : u <= t
    <2> SUFFICES ASSUME DeclaredTime(c.quote) = "latest" PROVE \A u \in series.times : u <= t
        OBVIOUS
    <2>1. c.scope.kind = "latest"
        BY <1>8
    <2> QED BY <1>4, <2>1 DEF Scoped
<1>16. t \in metrics[i].times \cap Times
    BY <1>5, <1>7
<1> QED BY <1>7, <1>8, <1>13, <1>14, <1>15, <1>16 DEF FailureIsTheUsers

-------------------------------------------------------------------------------

\* AcceptanceInv holds in every state: what is planned, derived, evaluated and
\* judged
\* comes from the conditions and the requests that were interpreted before it.
THEOREM AcceptanceInvariant == AcceptanceSpec => []AcceptanceInv
<1>1. AcceptanceInit => AcceptanceInv
    BY EmptySeq DEF AcceptanceInit, AcceptanceInv
<1>2. AcceptanceInv /\ [AcceptanceNext]_acceptanceVars => AcceptanceInv'
    <2> SUFFICES ASSUME AcceptanceInv, [AcceptanceNext]_acceptanceVars PROVE AcceptanceInv'
        OBVIOUS
    <2> USE DEF AcceptanceInv
    <2>1. CASE Interpret
        <3>1. /\ UNCHANGED <<task, trace, report, status>> /\ at = "intent" /\ at' = "acceptance"
              /\ intent' = [plain |-> Irredundant(Rebound, Judged),
                            conditions |-> [k \in DOMAIN task.conditions |->
                                              Reconciled(task.conditions[k], task.statements)]]
            BY <2>1 DEF Interpret, Rebound, Judged
        <3>2. Rebound' = Rebound /\ Judged' = Judged
            BY <3>1 DEF Rebound, Judged
        <3>3. Interpreted'
            BY <3>1, <3>2 DEF Interpreted
        <3> QED BY <3>1, <3>3
    <2>2. CASE CompileAcceptance
        <3> DEFINE merged == Gather(LastOf(intent.plain),
                                    [k \in DOMAIN intent.conditions |-> intent.conditions[k].observation])
        <3>1. UNCHANGED <<task, intent, trace, report>> /\ at = "acceptance"
            BY <2>2 DEF CompileAcceptance
        <3>2. CASE at' = "observations"
            <4>1. /\ merged # Clash /\ UNCHANGED status
                  /\ acceptance' = [conditions |-> {c \in ToSet(intent.conditions) : c.confirmed /\ Covered(c)},
                                    observations |-> merged]
                BY <2>2, <3>2 DEF CompileAcceptance, Fail
            <4> HIDE DEF merged
            <4>2. /\ \A c \in ToSet(intent.conditions) : Holds(merged, c.observation)
                  /\ IsFiniteSet(DOMAIN merged)
                BY <3>1, <4>1, CompileHolds DEF merged
            <4>3. Interpreted'
                BY <3>1 DEF Interpreted, Rebound, Judged
            <4>4. Compiled'
                BY <3>1, <4>1, <4>2, <4>3 DEF Compiled
            <4> QED BY <3>1, <3>2, <4>1, <4>4
        <3>3. CASE at' # "observations"
            <4>1. at' = "done" /\ status' = "ACCEPTANCE_COMPILATION_FAILED"
                BY <2>2, <3>3 DEF CompileAcceptance, Fail
            <4> QED BY <3>1, <4>1
        <3> QED BY <3>2, <3>3
    <2>3. CASE PlanObservations
        <3> DEFINE merged == Planned(<<>>, intent.plain,
                               SetToSeq({acceptance.observations[i] : i \in DOMAIN acceptance.observations}))
        <3>1. UNCHANGED <<task, intent, acceptance, trace, report>> /\ at = "observations"
            BY <2>3 DEF PlanObservations
        <3>2. CASE at' = "solve"
            <4>1. merged # Clash /\ items' = merged /\ UNCHANGED status
                BY <2>3, <3>2 DEF PlanObservations, Fail
            <4> HIDE DEF merged
            <4>2. /\ \A o \in ToSet(intent.plain) : Holds(merged, o)
                  /\ \A c \in ToSet(intent.conditions) : Holds(merged, c.observation)
                BY <3>1, <4>1, PlanHolds DEF merged
            <4>3. Compiled'
                BY <3>1 DEF Compiled, Interpreted, Rebound, Judged
            <4>4. IsPlanned'
                BY <3>1, <4>1, <4>2, <4>3 DEF IsPlanned
            <4> QED BY <3>1, <3>2, <4>1, <4>4
        <3>3. CASE at' # "solve"
            <4>1. at' = "done" /\ status' = "OBSERVATION_PLANNING_FAILED"
                BY <2>3, <3>3 DEF PlanObservations, Fail
            <4> QED BY <3>1, <4>1
        <3> QED BY <3>2, <3>3
    <2>4. CASE TimeStep
        <3>1. /\ at = "solve"
              /\ UNCHANGED <<task, at, intent, acceptance, items, metrics, report, status>>
            BY <2>4 DEF TimeStep
        <3>2. PICK value \in Values \cup {NotFinite}, next \in BOOLEAN, written \in BOOLEAN :
                 LET step == IF trace = <<>> THEN 1 ELSE trace[Len(trace)].step + IF next THEN 1 ELSE 0
                 IN trace' = Append(trace, [value |-> value, step |-> step, written |-> written])
            BY <2>4 DEF TimeStep
        <3> DEFINE step == IF trace = <<>> THEN 1 ELSE trace[Len(trace)].step + IF next THEN 1 ELSE 0
        <3>3. step \in Nat
            <4>1. CASE trace = <<>>
                BY <4>1
            <4>2. CASE trace # <<>>
                <5>1. trace[Len(trace)] \in Sample
                    BY <4>2
                <5>2. trace[Len(trace)].step \in Nat
                    BY <5>1 DEF Sample
                <5> QED BY <4>2, <5>2
            <4> QED BY <4>1, <4>2
        <3> HIDE DEF step
        <3>4. [value |-> value, step |-> step, written |-> written] \in Sample
            BY <3>3 DEF Sample
        <3>5. trace' \in Seq(Sample)
            BY <3>2, <3>4 DEF step
        <3>6. IsPlanned'
            BY <3>1 DEF IsPlanned, Compiled, Interpreted, Rebound, Judged
        <3> QED BY <3>1, <3>5, <3>6
    <2>5. CASE Postprocess
        <3>1. /\ at = "solve" /\ at' = "evaluate"
              /\ UNCHANGED <<task, intent, acceptance, items, trace, report, status>>
            BY <2>5 DEF Postprocess
        <3>2. PICK absent \in SUBSET DOMAIN items :
                 metrics' = [i \in DOMAIN items |-> Derive(items[i], absent)]
            BY <2>5 DEF Postprocess
        <3>3. IsPlanned'
            BY <3>1 DEF IsPlanned, Compiled, Interpreted, Rebound, Judged
        <3>4. \A o : Derive(o, absent)' = Derive(o, absent)
            BY <3>1
            DEF Derive, FromFacts, FromFiles, Output, ResidualFacts, Parsed, Steps,
                LinesOf, Times
        <3>5. IsDerived'
            BY <3>1, <3>2, <3>3, <3>4 DEF IsDerived
        <3> QED BY <3>1, <3>5
    <2>6. CASE Evaluate
        <3> DEFINE verdict == Verdict({Evaluated(c) : c \in acceptance.conditions})
        <3>1. /\ at = "evaluate" /\ at' = "done" /\ report' = verdict /\ status' = StatusOf(verdict)
              /\ UNCHANGED <<task, intent, acceptance, items, trace, metrics>>
            BY <2>6 DEF Evaluate, Fail
        <3>2. IsPlanned'
            BY <3>1 DEF IsDerived, IsPlanned, Compiled, Interpreted, Rebound, Judged
        <3>3. \A o, absent : Derive(o, absent)' = Derive(o, absent)
            BY <3>1
            DEF Derive, FromFacts, FromFiles, Output, ResidualFacts, Parsed, Steps,
                LinesOf, Times
        <3>4. IsDerived'
            BY <3>1, <3>2, <3>3 DEF IsDerived
        <3>5. verdict' = verdict
            BY <3>1 DEF Evaluated, Matches
        <3>6. \A v : StatusOf(v)' = StatusOf(v)
            BY <3>1
            DEF StatusOf, RunIsOk, EndedNormally, Steps, LinesOf, Parsed, Times
        <3> HIDE DEF verdict
        <3>7. IsJudged'
            BY <3>1, <3>4, <3>5, <3>6 DEF IsJudged, verdict
        <3> QED BY <3>1, <3>7
    <2>7. CASE UNCHANGED acceptanceVars
        <3>1. UNCHANGED <<task, at, intent, acceptance, items, trace, metrics, report, status>>
            BY <2>7 DEF acceptanceVars
        <3>2. Interpreted' <=> Interpreted
            BY <3>1 DEF Interpreted, Rebound, Judged
        <3>3. Compiled' <=> Compiled
            BY <3>1, <3>2 DEF Compiled
        <3>4. IsPlanned' <=> IsPlanned
            BY <3>1, <3>3 DEF IsPlanned
        <3>5. \A o, absent : Derive(o, absent)' = Derive(o, absent)
            BY <3>1
            DEF Derive, FromFacts, FromFiles, Output, ResidualFacts, Parsed, Steps,
                LinesOf, Times
        <3>6. IsDerived' <=> IsDerived
            BY <3>1, <3>4, <3>5 DEF IsDerived
        <3>7. \A v : StatusOf(v)' = StatusOf(v)
            BY <3>1
            DEF StatusOf, RunIsOk, EndedNormally, Steps, LinesOf, Parsed, Times
        <3>8. \A c : Evaluated(c)' = Evaluated(c)
            BY <3>1 DEF Evaluated, Matches
        <3>9. IsJudged' <=> IsJudged
            BY <3>1, <3>6, <3>7, <3>8 DEF IsJudged
        <3> QED BY <3>1, <3>2, <3>3, <3>4, <3>6, <3>9
    <2> QED BY <2>1, <2>2, <2>3, <2>4, <2>5, <2>6, <2>7 DEF AcceptanceNext
<1> QED BY <1>1, <1>2, PTL DEF AcceptanceSpec

\* A run reported completed satisfies, at every step that was written, the
\* conditions
\* that its acceptance states (status.py, evaluation.py).
THEOREM CompletedIsAcceptedHolds == AcceptanceSpec => []CompletedIsAccepted
<1>1. AcceptanceInv => CompletedIsAccepted
    <2> SUFFICES ASSUME AcceptanceInv, status = "RUN_COMPLETED", \A step \in Steps : EndedNormally(step),
                        NEW c \in acceptance.conditions
                 PROVE  /\ c.unit = UnitOf[c.observation.kind]
                        /\ SpokenOf(c) # {}
                        /\ \A t \in SpokenOf(c) : Matches(c, t)
        BY DEF CompletedIsAccepted
    <2>1. IsJudged /\ task \in Tasks
        BY DEF AcceptanceInv
    <2> QED BY <2>1, AcceptedHolds
<1> QED BY <1>1, AcceptanceInvariant, PTL

\* The report is FAIL only over a sample above a number that a sentence of the task
\* states after an upper limit, in a sentence that names the kind of observable, and
\* the last sample if it names no times (intent.py, evaluator.py).
THEOREM FailureIsTheUsersHolds == AcceptanceSpec => []FailureIsTheUsers
<1>1. AcceptanceInv => FailureIsTheUsers
    <2> SUFFICES ASSUME AcceptanceInv, report = "FAIL" PROVE FailureIsTheUsers
        BY DEF FailureIsTheUsers
    <2>1. IsJudged /\ task \in Tasks /\ trace \in Seq(Sample)
        BY DEF AcceptanceInv
    <2> QED BY <2>1, FailureHolds
<1> QED BY <1>1, AcceptanceInvariant, PTL

\* Nothing the user asked to observe is lost between the intent and the plan,
\* however
\* many requests name the same quantity (intent.py, compiler.py, planner.py).
THEOREM NothingIsDroppedHolds == AcceptanceSpec => []NothingIsDropped
<1>1. AcceptanceInv => NothingIsDropped
    <2> SUFFICES ASSUME AcceptanceInv, at \in {"solve", "evaluate"} PROVE NothingIsDropped
        BY DEF NothingIsDropped
    <2>1. IsPlanned /\ task \in Tasks
        BY DEF AcceptanceInv, IsDerived
    <2> QED BY <2>1, NothingDropped DEF NothingIsDropped
<1> QED BY <1>1, AcceptanceInvariant, PTL
===============================================================================
