---------------------------- MODULE MCCubeContract ----------------------------
(* Instances of CubeReconcilerHistory for TLC. *)
EXTENDS CubeReconcilerHistory, MCCubeReconciler
=============================================================================
