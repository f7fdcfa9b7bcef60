---------------------------- MODULE MCComObjects ----------------------------
(***************************************************************************)
(* ComObjects for TLC: two threads, so that one releases an object while   *)
(* another copies it, or is in a call through it; three objects; four      *)
(* pointers outside, which is one to an enumerator or a factory, those of  *)
(* the two tokens of one Next, and one that the other thread copies; and   *)
(* one lock.                                                               *)
(***************************************************************************)
EXTENDS ComObjects, TLC

Symmetry == Permutations(Threads) \cup Permutations(Objects) \cup Permutations(Outside)

=============================================================================
