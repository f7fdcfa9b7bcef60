---------------------------- MODULE MCTextSplit ----------------------------
(***************************************************************************)
(* TextSplit for TLC: every text of up to seven characters of the four     *)
(* kinds, cut to at most four, so that the window has a quarter that is    *)
(* never cut in and three places where it may be, the loop turns up to     *)
(* three times, and spaces come first, last and two in a row.              *)
(***************************************************************************)
EXTENDS TextSplit

=============================================================================
