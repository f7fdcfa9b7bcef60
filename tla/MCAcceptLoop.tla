---------------------------- MODULE MCAcceptLoop ----------------------------
(***************************************************************************)
(* AcceptLoop for TLC: two hosts, so that one comes while another is being *)
(* accepted, served or cut off; an idle limit of one tick, which is met    *)
(* and passed; and one failure to create an instance or a thread.          *)
(***************************************************************************)
EXTENDS AcceptLoop

=============================================================================
