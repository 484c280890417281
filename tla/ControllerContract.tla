-------------------------- MODULE ControllerContract --------------------------
(***************************************************************************)
(* What a controller of one CubeCluster promises to its users: an account  *)
(* of the requests it has been given, of the one it is working for, of the *)
(* objects and of the status, and the only moves it may make on them.  How *)
(* it gets to a move (caches, queues, loops, failures, restarts) is not    *)
(* told here.  The Go controller implements it.                            *)
(***************************************************************************)
EXTENDS Naturals, Sequences

CONSTANTS
    Specs,    \* what a user may ask for
    Objects,  \* the managed objects
    Want,     \* for each spec, each object's manifest or None
    None

VARIABLES
    live,      \* the cluster has not been deleted
    asked,     \* the specs asked for, by generation
    working,   \* the generation the controller works for
    objs,      \* the objects there are
    observed,  \* status.observedGeneration
    available  \* the Ready condition is True

contractVars == <<live, asked, working, objs, observed, available>>

(* What the controller is about to bring about. *)
Goal == Want[asked[working]]

Init ==
    /\ live = TRUE
    /\ \E s \in Specs : asked = <<s>>
    /\ working = 1
    /\ objs = [o \in Objects |-> None]
    /\ observed = 0 /\ available = FALSE

-----------------------------------------------------------------------------
(* Users *)

Ask(s) ==
    /\ live
    /\ asked' = Append(asked, s)
    /\ UNCHANGED <<live, working, objs, observed, available>>

Withdraw ==
    /\ live
    /\ live' = FALSE
    /\ UNCHANGED <<asked, working, objs, observed, available>>

-----------------------------------------------------------------------------
(* The controller *)

(* It turns to a later request and never back to an earlier one. *)
Take(generation) ==
    /\ working <= generation /\ generation <= Len(asked)
    /\ working' = generation
    /\ UNCHANGED <<live, asked, objs, observed, available>>

Apply(o) ==
    /\ Goal[o] # None
    /\ objs' = [objs EXCEPT ![o] = Goal[o]]
    /\ UNCHANGED <<live, asked, working, observed, available>>

AllApplied == \A o \in Objects : Goal[o] # None => objs[o] = Goal[o]

(* Only what is not wanted goes, and only when all that is wanted stands.  *)
Remove(o) ==
    /\ Goal[o] = None
    /\ live => AllApplied
    /\ objs' = [objs EXCEPT ![o] = None]
    /\ UNCHANGED <<live, asked, working, observed, available>>

(* A status names no older generation than the one before it, nor one      *)
(* nobody has asked for; the condition becomes True, or True of another    *)
(* generation, only while the objects are exactly the wanted ones.         *)
Report(generation, verdict) ==
    /\ live
    /\ working <= generation /\ generation <= Len(asked)
    /\ observed <= generation
    /\ verdict /\ (~available \/ generation # observed) => objs = Goal
    /\ observed' = generation /\ available' = verdict
    /\ UNCHANGED <<live, asked, working, objs>>

-----------------------------------------------------------------------------
(* The garbage collector *)

Collect ==
    /\ ~live
    /\ objs' = [o \in Objects |-> None]
    /\ UNCHANGED <<live, asked, working, observed, available>>

Next ==
    \/ (\E s \in Specs : Ask(s)) \/ Withdraw
    \/ \E generation \in DOMAIN asked :
          Take(generation) \/ \E verdict \in BOOLEAN : Report(generation, verdict)
    \/ \E o \in Objects : Apply(o) \/ Remove(o)
    \/ Collect

Spec == Init /\ [][Next]_contractVars

-----------------------------------------------------------------------------
(* What users may rely on *)

(* Every object there is was written for a request the user has made, not  *)
(* later than the one being worked for.                                    *)
NothingUnasked ==
    \A o \in Objects : objs[o] # None =>
        \E generation \in 1..working : objs[o] = Want[asked[generation]][o]

(* All the objects of one of the requests exist. *)
Complete ==
    \E generation \in DOMAIN asked : \A o \in Objects :
        Want[asked[generation]][o] # None => objs[o] # None

(* A live cluster for which everything of one request exists never falls   *)
(* back to having no request complete, in particular no store topology.    *)
CompleteStays == [][live /\ Complete => Complete']_contractVars

(* The reported generation never goes back. *)
ObservedGrows == [][observed <= observed']_contractVars
=============================================================================
