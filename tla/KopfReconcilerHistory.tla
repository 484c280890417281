------------------------ MODULE KopfReconcilerHistory ------------------------
(***************************************************************************)
(* KopfReconciler with a history variable: the calls under way that        *)
(* something has crossed since they were through with validation.  The     *)
(* other caller crosses a call by writing or deleting an object, the watch *)
(* by changing the spec the call sees.  What goes wrong around a mode      *)
(* switch takes a crossing; a call that nothing crosses does what it       *)
(* should, whatever other calls did before it and are about to do.         *)
(***************************************************************************)
EXTENDS KopfReconciler

VARIABLE crossed

historyVars == <<vars, crossed>>

HistoryInit == Init /\ crossed = {}

Crosses(c) ==
    \/ objs' # objs /\ call'[c] = call[c]
    \/ c = "timer" /\ LiveView /\ seen'.spec # seen.spec

HistoryNext ==
    /\ Next
    /\ crossed' = {c \in Callers :
                     /\ call[c].pc \notin {"idle", "validate"} /\ call'[c].pc # "idle"
                     /\ c \in crossed \/ Crosses(c)}

HistorySpec == HistoryInit /\ [][HistoryNext]_historyVars

-----------------------------------------------------------------------------
(* Properties *)

(* The last complete store goes, if it goes, only by a removal of a call   *)
(* that the other caller or a change of the spec has crossed.  Any call    *)
(* without a crossing applies a whole store before it removes anything,    *)
(* however mixed the objects were that the calls before it left behind.    *)
OnlyCrossedTakeStore ==
    [][HasStore /\ ~HasStore' => \E c \in crossed : RemoveObject(c)]_historyVars

(* A call that is about to report Available, and was not crossed, reports  *)
(* it of objects that are all as one spec wants them: the one it has read. *)
(* (Map keys that a merge patch leaves behind are left to                  *)
(* ControllerHandover.)                                                    *)
UncrossedReportTruly ==
    \A c \in Callers \ crossed :
        call[c].reason = "Available" => objs = Desired(call[c].spec)
=============================================================================
