---------------------------- MODULE JobLifecycle ----------------------------
(***************************************************************************)
(* What a durable job promises to whoever reads its root, without threads, *)
(* locks, writes that fail or processes: it is claimed by at most one      *)
(* worker, its operation is executed at most once and only once claimed,   *)
(* and it settles at most once and on one result: CANCELLED only if that   *)
(* was asked for, COMPLETED only if the operation was executed.  Once it   *)
(* has settled, its status may come to show it as open again, and does so  *)
(* for good: a heartbeat that outlived its join has written last.          *)
(***************************************************************************)
CONSTANTS Workers, Nobody

VARIABLES
    phase,     \* "open" (submitted or at work) or "settled"
    owner,     \* the worker that claimed the job
    executed,  \* the operation was started
    asked,     \* a cancellation was requested
    result,    \* the terminal state
    hidden     \* the status shows a settled job as open

vars == <<phase, owner, executed, asked, result, hidden>>

Results == {"CANCELLED", "COMPLETED", "FAILED"}

Init ==
    /\ phase = "open"
    /\ owner = Nobody
    /\ executed = FALSE
    /\ asked = FALSE
    /\ result = "none"
    /\ hidden = FALSE

Ask ==
    /\ asked' = TRUE
    /\ UNCHANGED <<phase, owner, executed, result, hidden>>

Claim(w) ==
    /\ phase = "open"
    /\ owner = Nobody
    /\ owner' = w
    /\ UNCHANGED <<phase, executed, asked, result, hidden>>

Execute ==
    /\ phase = "open"
    /\ owner # Nobody
    /\ ~executed
    /\ executed' = TRUE
    /\ UNCHANGED <<phase, owner, asked, result, hidden>>

Settle(r) ==
    /\ phase = "open"
    /\ r = "CANCELLED" => asked /\ owner # Nobody
    /\ r = "COMPLETED" => executed
    /\ phase' = "settled"
    /\ result' = r
    /\ UNCHANGED <<owner, executed, asked, hidden>>

Hide ==
    /\ phase = "settled"
    /\ hidden' = TRUE
    /\ UNCHANGED <<phase, owner, executed, asked, result>>

Next ==
    \/ Ask
    \/ \E w \in Workers : Claim(w)
    \/ Execute
    \/ \E r \in Results : Settle(r)
    \/ Hide

Spec == Init /\ [][Next]_vars
=============================================================================
