-------------------------- MODULE MCPromptRecovery --------------------------
(* Model values, bounds and hazards for PromptRecovery are in the .cfg files. *)
EXTENDS PromptRecovery
=============================================================================
