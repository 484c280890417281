--------------------------- MODULE MCKopfReconciler ---------------------------
(* Instances of KopfReconciler, with its history, for TLC. *)
EXTENDS KopfReconcilerHistory

SpecOf(mode, valid, api) ==
    [mode |-> mode, valid |-> valid, api |-> api, refresh |-> 1, workers |-> 1]

Single    == SpecOf("single", TRUE, 1)
Clustered == SpecOf("clustered", TRUE, 1)
Broken    == SpecOf("clustered", FALSE, 2)

TwoModes  == {Single, Clustered}
AllModes  == {Single, Clustered, Broken}

(* Histories that begin with a settled cluster in single mode, whose        *)
(* references may have gone since (RefsExist).                             *)
Deployed ==
    /\ cluster = [generation |-> 1, spec |-> Single,
                  status |-> [observedGeneration |-> 1, readyAPIs |-> 1, reason |-> "Available"]]
    /\ seen = Latest
    /\ objs = Desired(Single)
    /\ ready = [w \in Workloads |-> Wanted(w)]
    /\ refs = RefsExist
    /\ handled = Single
    /\ call = [c \in Callers |-> NoCall]
    /\ faults = 0
    /\ crossed = {}

DeployedSpec == Deployed /\ [][HistoryNext]_historyVars /\ Fairness
=============================================================================
