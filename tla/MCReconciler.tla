---------------------------- MODULE MCReconciler ----------------------------
(* Instances of Reconciler, with wallets and VMs as model values.            *)
EXTENDS Reconciler
=============================================================================
