--------------------------- MODULE MCOperationLock --------------------------
(* OperationLock with a few processes of each kind.                           *)
EXTENDS OperationLock

MCTwo    == {"internet", "local"}
MCOne    == {"internet"}
MCOff    == {"off"}
MCWatch  == {"watch"}
MCRemove == {"uninstall"}
MCNobody == {}
=============================================================================
