----------------------------- MODULE WorkflowMC -----------------------------
(* Small instances of Workflow for TLC.                                    *)
EXTENDS Workflow
=============================================================================
