------------------------- MODULE MCControllerHandover -------------------------
(* An instance of ControllerHandover for TLC. *)
EXTENDS ControllerHandover

Plain == [mode |-> "single", annotation |-> None, storage |-> "persistentVolume",
          described |-> TRUE, scratch |-> "unset", type |-> "ClusterIP", nodePort |-> FALSE]

(* A plain spec; one that differs in everything a user may well change; one *)
(* that only Go accepts; and one that only Kopf accepts.                    *)
Variants == {Plain,
             [Plain EXCEPT !.annotation = "a", !.mode = "clustered", !.storage = "s3",
                           !.nodePort = TRUE, !.type = "LoadBalancer"],
             [Plain EXCEPT !.annotation = "b", !.scratch = "zero"],
             [Plain EXCEPT !.scratch = "lenient"]}
=============================================================================
