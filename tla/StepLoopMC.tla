----------------------------- MODULE StepLoopMC -----------------------------
EXTENDS StepLoop
(* Without a switch nothing is refused: delegations meet compactions only.      *)
MCDelegations == {"text", "plain", "delegate"}
MCKinds == {"text", "plain", "delegate", "switch"}
(* A new question of a user who waits, and a job that runs on by itself.        *)
MCTasks == {[attended |-> TRUE, untitled |-> TRUE, open |-> TRUE],
            [attended |-> FALSE, untitled |-> FALSE, open |-> FALSE]}
=============================================================================
