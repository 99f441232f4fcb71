---------------------------- MODULE CompactionMC ----------------------------
EXTENDS Compaction
(* Task 2 was delegated by task 1; the agent works on task 4.                     *)
MCParent == <<0, 1, 0, 0>>
MCTurns  == <<2, 2, 2, 3>>
MCPictures == {<<3, 2>>}
MCReported  == {<<"settled", "settled", "closed">>}
MCHistories == {<<"closed", "settled", "lagging">>, <<"lagging", "settled", "closed">>,
                <<"settled", "parked", "settled">>, <<"parked", "settled", "settled">>,
                <<"closed", "open", "settled">>}
=============================================================================
