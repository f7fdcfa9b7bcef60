--------------------------- MODULE MCWorkerLaunch ---------------------------
(***************************************************************************)
(* WorkerLaunch for TLC. The safety run: two hosts, so that they race to   *)
(* start, replace and look for a worker; two worker processes, so that one *)
(* is started while another ends or finds the first there; three attempts, *)
(* so that one comes before and one after the one that launches or         *)
(* replaces; hosts and workers are interchangeable. The liveness run: the  *)
(* smooth behaviours only, without symmetry, and a third host, so that one *)
(* looks for the worker while a second launches it and a third holds it    *)
(* open.                                                                   *)
(***************************************************************************)
EXTENDS WorkerLaunch, TLC

Symmetry == Permutations(Clients) \cup Permutations(Workers)

=============================================================================
