----------------------- MODULE MCReconcileSupervisor -----------------------
(* TLC instances of ReconcileSupervisor. *)
EXTENDS ReconcileSupervisor
CONSTANTS p1, p2, o1, o2, l1, l2
=============================================================================
