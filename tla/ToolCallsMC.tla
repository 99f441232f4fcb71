------------------------------ MODULE ToolCallsMC ------------------------------
(***************************************************************************)
(* Instance of ToolCalls for TLC: a question, an operation that needs an   *)
(* approval and can be reviewed, a call with wrong arguments, and one that *)
(* nobody can review and whose result the event cuts off.                  *)
(***************************************************************************)
EXTENDS ToolCalls

CONSTANTS ask, risky, wrong, plain

MCOrder == <<ask, risky, wrong, plain>>
================================================================================
