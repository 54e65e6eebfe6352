---------------------------- MODULE ModelGatewayMC ----------------------------
(* Two qualification workers, or the one caller of a normal run.            *)
EXTENDS ModelGateway

CONSTANTS w1, w2

TwoCallers == {w1, w2}
BothModes == {"normal", "qualification"}
TwoKeys == 1..2
\* A qualification worker takes other tasks, whose limits are their own.
LimitOfMode == [m \in BothModes |-> IF m = "normal" THEN 3 ELSE 2]
===============================================================================
