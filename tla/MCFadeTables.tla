---------------------------- MODULE MCFadeTables ----------------------------
(***************************************************************************)
(* FadeTables for TLC: two threads and an overlap of two samples, so that  *)
(* one can come between the other's resizing and each of its writes.       *)
(***************************************************************************)
EXTENDS FadeTables

=============================================================================
