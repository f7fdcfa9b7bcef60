----------------------------- MODULE MCSpeakCall -----------------------------
(***************************************************************************)
(* SpeakCall for TLC: two fragments, so that there is one after a cancel   *)
(* or a failure; two pieces and two chunks for the same reason inside a    *)
(* fragment; three units in a chunk with a site chunk of two, so that a    *)
(* chunk takes two Writes and a Write can be taken in part.                *)
(***************************************************************************)
EXTENDS SpeakCall

=============================================================================
