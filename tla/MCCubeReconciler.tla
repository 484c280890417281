--------------------------- MODULE MCCubeReconciler ---------------------------
(* Instances of CubeReconciler for TLC. *)
EXTENDS CubeReconciler

SpecOf(mode, valid, api) ==
    [mode |-> mode, valid |-> valid, api |-> api, refresh |-> 1, workers |-> 1]

Single    == SpecOf("single", TRUE, 1)
Scaled    == SpecOf("single", TRUE, 2)
Clustered == SpecOf("clustered", TRUE, 1)
Broken    == SpecOf("single", FALSE, 1)

OneMode   == {Single}
TwoAPIs   == {Scaled}
TwoModes  == {Single, Clustered}
Rejecting == {Single, Broken}
Nothing   == {}
Everything == Workloads
=============================================================================
