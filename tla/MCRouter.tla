------------------------------ MODULE MCRouter ------------------------------
(* Instances of RouterClients for TLC.                                     *)
EXTENDS RouterClients
=============================================================================
