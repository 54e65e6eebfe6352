------------------------------ MODULE DesignGate ------------------------------
(***************************************************************************)
(* simulation/risk_gate.py and workflow/confirmation.py: may a proposed    *)
(* design be authored, and what do the user's confirmations make of it.    *)
(*                                                                         *)
(* A draft is what the gate looks at, field by field: the gap and the      *)
(* conflict the requirements have there, what the designer asks about it   *)
(* and where the proposed value comes from.  Values, candidates, wording   *)
(* and hashes are left out; a confirmation picks the candidate it is       *)
(* offered.                                                                *)
(***************************************************************************)

CONSTANTS
    Fields,    \* field paths of a design
    Unmapped   \* those _proposal_section knows no section for

Kinds == {"confirmable", "information_required", "conflict"}

FieldStates == [gap : {"none", "confirmable", "design_required", "information_required"},
                conflict : BOOLEAN,
                asked : {"none"} \cup Kinds,
                fact : {"absent", "inferred", "settled"}]

\* The kind of question a field raises: of several, the strictest.
Question(f) ==
    LET proposed == f.fact # "absent" \/ f.asked = "confirmable"
        gap == IF f.gap # "design_required" THEN f.gap
               ELSE IF proposed THEN "none" ELSE "information_required"
        raised == {gap, f.asked} \cup (IF f.conflict THEN {"conflict"} ELSE {})
                                 \cup (IF f.fact = "inferred" THEN {"confirmable"} ELSE {})
    IN IF "conflict" \in raised THEN "conflict"
       ELSE IF "information_required" \in raised THEN "information_required"
       ELSE IF "confirmable" \in raised THEN "confirmable"
       ELSE "none"

\* The decision on a draft; capable is whether every selected extension is
\* registered, or bound by the parent's decision, and nothing contradicts it.
EvaluateDesignRisk(draft, capable) ==
    LET asked == {Question(draft[f]) : f \in Fields}
    IN IF ~capable THEN "CAPABILITY_UNAVAILABLE"
       ELSE IF asked \cap {"information_required", "conflict"} # {} THEN "INFORMATION_REQUIRED"
       ELSE IF "confirmable" \in asked THEN "CONFIRMATION_REQUIRED"
       ELSE "READY_TO_AUTHOR"

\* with_confirmations: a confirmed field loses its confirmable gap.
GapConfirmed(f) == IF f.gap = "confirmable" THEN "none" ELSE f.gap

\* _replace_proposal: each confirmed value has a place in the proposal, where the
\* field stands already or in the section of its path; without one the whole
\* confirmation is refused (CONFIRMATION_FIELD_UNMAPPED).
Placed(draft) ==
    \A f \in Unmapped : Question(draft[f]) = "confirmable" => draft[f].fact # "absent"

\* Every confirmable question is answered, and only those: the value becomes
\* the user's, in the proposal too, which stops asking.
Confirmed(draft) ==
    [f \in Fields |->
        IF Question(draft[f]) = "confirmable"
        THEN [draft[f] EXCEPT !.gap = GapConfirmed(draft[f]), !.asked = "none", !.fact = "settled"]
        ELSE draft[f]]
===============================================================================
