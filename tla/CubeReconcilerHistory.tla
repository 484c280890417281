------------------------ MODULE CubeReconcilerHistory ------------------------
(***************************************************************************)
(* CubeReconciler with two history variables: the specs users have asked   *)
(* for, by generation, and the generation of the latest pass.  They record *)
(* what happened and restrict nothing; with them the Go controller is      *)
(* shown to keep the contract of ControllerContract.                       *)
(***************************************************************************)
EXTENDS CubeReconciler

VARIABLES asked, working

historyVars == <<vars, asked, working>>

HistoryInit == Init /\ asked = <<cluster.spec>> /\ working = 1

HistoryNext ==
    /\ Next
    /\ asked' = IF cluster'.generation = cluster.generation THEN asked
                ELSE Append(asked, cluster'.spec)
    /\ working' = IF pc' = "idle" THEN working ELSE snapshot'.generation

HistorySpec == HistoryInit /\ [][HistoryNext]_historyVars

(* What each spec asks for. *)
Wants == [s \in Specs |-> Desired(s)]

Contract ==
    INSTANCE ControllerContract WITH
        Want      <- Wants,
        live      <- cluster.live,
        observed  <- cluster.status.observedGeneration,
        available <- ReportedReady

(* However stale its caches and wherever it fails or restarts, the Go      *)
(* controller makes only the moves of the contract: it works for one       *)
(* request at a time and never turns back to an earlier one, removes only  *)
(* beside the complete wanted set, and reports a generation and a True     *)
(* condition only as the contract allows.                                  *)
ImplementsContract == Contract!Spec
=============================================================================
