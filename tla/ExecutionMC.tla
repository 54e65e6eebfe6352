----------------------------- MODULE ExecutionMC -----------------------------
(* Small instances of Execution for TLC.                                   *)
EXTENDS Execution, TLC

CONSTANTS a, b, points, faces

\* A task that is solved, one that only makes its mesh, and one whose policy
\* lets nothing run.  As plan_for requires, the timeouts of a plan fit in the
\* wall budget.
Solving == [attempts |-> 3, wall |-> 7, solver |-> TRUE, parallel |-> FALSE,
            observed |-> TRUE, judged |-> FALSE, strict |-> FALSE, cached |-> TRUE,
            included |-> {}, isolation |-> "auto", risk |-> "low", optIn |-> FALSE]
Meshing == [Solving EXCEPT !.solver = FALSE, !.attempts = 1, !.judged = TRUE,
                           !.isolation = "trusted_host"]
Blocked == [Meshing EXCEPT !.cached = FALSE, !.risk = "high"]

\* Repairs on their own; a repair beside a solve that shares the mesh; two
\* solves that do little but share it.
SharedCache ==
  {(a :> t) @@ (b :> Blocked) :
     t \in {Solving,
            [Solving EXCEPT !.parallel = TRUE, !.risk = "high"],
            [Solving EXCEPT !.included = {"postprocess"}, !.attempts = 2]}}
  \cup {(a :> [Solving EXCEPT !.attempts = 2, !.wall = 4, !.observed = FALSE,
                         !.isolation = "trusted_host"])
         @@ (b :> [Meshing EXCEPT !.judged = FALSE, !.wall = 2])}
  \cup {(a :> [Meshing EXCEPT !.strict = TRUE]) @@ (b :> t) :
           t \in {Meshing, [Meshing EXCEPT !.isolation = "sandbox_required"]}}

\* The solver may take two seconds, the other commands one.
Timeouts == [c \in Stages |-> IF c = "solve" THEN 2 ELSE 1]
=============================================================================
