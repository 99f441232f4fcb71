------------------------------- MODULE RoundMC -------------------------------
(***************************************************************************)
(* Instance of Round for TLC: one question that waits in a tool call and   *)
(* one or two that are answered by a user turn.                            *)
(***************************************************************************)
EXTENDS Round, TLC

CONSTANTS tool, turn, turn2

MCThree == {tool, turn, turn2}
MCTurns2 == {turn, turn2}
MCNone == {}
MCClosing == {"closing"}
MCStale == {"stale"}

===============================================================================
