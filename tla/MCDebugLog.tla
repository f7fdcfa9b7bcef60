----------------------------- MODULE MCDebugLog -----------------------------
(* DebugLog with a worker and a host, a cap of two lines, and room past it   *)
(* for more than the line each of them may pass it by.                       *)
EXTENDS DebugLog

MCProcesses == {"worker", "host"}

=============================================================================
