-------------------------- MODULE MCDaemonInstance --------------------------
(* Two runs and a channel of one slot: a report can be overtaken or lost.   *)
EXTENDS DaemonInstance_proofs

=============================================================================
