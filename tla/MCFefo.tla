------------------------------- MODULE MCFefo -------------------------------
(* The instances of MCOrders, with the history of FefoHistory.             *)
EXTENDS MCOrders, FefoHistory
=============================================================================
