------------------------------ MODULE MCSpiLink ------------------------------
(***************************************************************************)
(* SpiLink with a status request, a request for two bytes, a setting of two     *)
(* bytes, and the restart.                                                      *)
(***************************************************************************)
EXTENDS SpiLink

MCTypes == {"get_status", "get_starg", "set_starg", "boot"}
MCRxLength == [t \in MCTypes |-> IF t = "set_starg" THEN 2 ELSE 0]
MCTxLength == [t \in MCTypes |-> IF t = "get_starg" THEN 2 ELSE 0]

=============================================================================
