----------------------- MODULE MCControllerSupervisor -----------------------
(* The instance the configurations MCControllerSupervisor and MCInputBlocks  *)
(* check, together with the theorems about it.                               *)
EXTENDS ControllerSupervisor_proofs
=============================================================================
