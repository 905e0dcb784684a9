------------------------------ MODULE MCSession ------------------------------
(***************************************************************************)
(* Instances of Session: an administrator and a sales user.                *)
(***************************************************************************)
EXTENDS Session, TLC

CONSTANTS ann, bob, reserve, reconcile

MCUser == {ann, bob}
MCRole == {"ADMIN", "SALES"}
MCInitialRole == [u \in MCUser |-> IF u = ann THEN "ADMIN" ELSE "SALES"]
MCRolesFor == (reserve :> {"ADMIN", "SALES"} @@ reconcile :> {"ADMIN"})

=============================================================================
