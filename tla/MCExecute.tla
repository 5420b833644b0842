----------------------------- MODULE MCExecute -----------------------------
(***************************************************************************)
(* The configuration of MCRepair, run as the process the operator starts.  *)
(***************************************************************************)
EXTENDS ExecuteCommand, MCRepair

=============================================================================
