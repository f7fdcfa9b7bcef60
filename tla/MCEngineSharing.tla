-------------------------- MODULE MCEngineSharing --------------------------
(***************************************************************************)
(* A small instance of EngineSharing for TLC: two client threads, two of   *)
(* the four pause slots and two lengths, so that the clients disagree      *)
(* about a slot and leave one alone; two segments to an utterance, so that *)
(* the segment limit is met; two channels, one of which another process    *)
(* may hold or both.                                                       *)
(***************************************************************************)
EXTENDS EngineSharing

MCPauseLengths == {0, 1}

=============================================================================
