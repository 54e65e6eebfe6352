----------------------------- MODULE NativeSolveMC -----------------------------
(* A field of each kind, and the drafts that raise each kind of question.   *)
EXTENDS NativeSolve

CONSTANTS a, b

TwoPrints == {a, b}
TwoFields == {"physics.velocity", "mesh.size"}
MeshField == {"mesh.size"}
AllModes == {"live", "plan", "warm"}

State(gap, conflict, asked, fact) == [gap |-> gap, conflict |-> conflict, asked |-> asked, fact |-> fact]
Settled == State("none", FALSE, "none", "settled")

Draft(velocity, size) == [f \in TwoFields |-> IF f = "mesh.size" THEN size ELSE velocity]

SomeDrafts == {Draft(Settled, Settled),
               Draft(State("design_required", FALSE, "confirmable", "absent"), Settled),
               Draft(State("confirmable", FALSE, "none", "inferred"), Settled),
               Draft(State("design_required", FALSE, "none", "absent"), Settled),
               Draft(Settled, State("confirmable", FALSE, "none", "absent"))}
===============================================================================
