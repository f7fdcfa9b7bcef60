--------------------------- MODULE MCPipeSession ---------------------------
(***************************************************************************)
(* PipeSession for TLC: three calls, so that what one of them leaves       *)
(* behind can meet the next; three chunks to an utterance and room for two *)
(* messages in the pipe, so that the worker blocks on a full pipe, is      *)
(* stopped before, on and after its last chunk, and has written some while *)
(* the client asks.                                                        *)
(***************************************************************************)
EXTENDS PipeSession

=============================================================================
