-------------------------- MODULE TelemetryCollector --------------------------
(***************************************************************************)
(* The collector of internal/telemetry: a loop that lists the nodes and    *)
(* the pods of the Kubernetes cluster, and in one transaction copies what  *)
(* it saw into the table kubernetes_telemetry and deletes what is past     *)
(* retention.  Whatever fails is logged and left to the next round; none   *)
(* of the calls has a deadline.  The Deployment restarts a collector that  *)
(* died, and lets two of them overlap while it replaces one.               *)
(*                                                                         *)
(* Of a sample the model keeps when it was true of the cluster.  The       *)
(* clocks of the collector and of the database are one.                    *)
(***************************************************************************)
EXTENDS Naturals

CONSTANTS
    Collectors,     \* the processes, one at a time or overlapping
    Retention,      \* RETENTION, in full ticks
    MaxClock,       \* bound on the ticks of the clock
    MaxFaults       \* bound on failed calls, ends of a process and lost tables

Kinds   == {"Node", "Pod"}
Moments == Kinds \cup {"now", "begun"}
Rows    == [by: Collectors, kind: Kinds, seen: Nat, at: Nat]
Calls   == {"schema", "nodes", "pods", "begin", "copy", "prune", "commit"}

ASSUME CollectorAssumption ==
    Retention \in Nat /\ MaxClock \in Nat /\ MaxFaults \in Nat

VARIABLES
    at,         \* where a collector is
    view,       \* when it saw the nodes and the pods, its now, its transaction's
    gone,       \* the rows its transaction has deleted
    created,    \* whether the table kubernetes_telemetry exists
    table,      \* its rows, as readers see them
    collected,  \* the rows reported as collected, until they expire
    clock,
    faults      \* failed calls, ends of a process and lost tables so far

vars == <<at, view, gone, created, table, collected, clock, faults>>

Expired(r, time) == r.at + Retention < time

GoTo(c, where) == at' = [at EXCEPT ![c] = where]

Note(c, what) == view' = [view EXCEPT ![c][what] = clock]

Blank == [what \in Moments |-> 0]

(* Collect returns, or the process ends.                                   *)
Return(c, where) == GoTo(c, where) /\ view' = [view EXCEPT ![c] = Blank]

-----------------------------------------------------------------------------
(* Collect *)

(* The schema is part of every collection, not only of the first.          *)
CreateSchema(c) ==
    /\ at[c] = "schema" /\ GoTo(c, "nodes")
    /\ created' = TRUE
    /\ UNCHANGED <<view, gone, table, collected, clock, faults>>

ListNodes(c) ==
    /\ at[c] = "nodes" /\ GoTo(c, "pods")
    /\ Note(c, "Node")
    /\ UNCHANGED <<gone, created, table, collected, clock, faults>>

ListPods(c) ==
    /\ at[c] = "pods" /\ GoTo(c, "rows")
    /\ Note(c, "Pod")
    /\ UNCHANGED <<gone, created, table, collected, clock, faults>>

(* Mutant: now is taken before the lists. *)
MakeRowsDatedFirst(c) ==
    /\ at[c] = "rows" /\ GoTo(c, "begin")
    /\ view' = [view EXCEPT ![c]["now"] = view[c]["Node"]]
    /\ UNCHANGED <<gone, created, table, collected, clock, faults>>

(* One time for all rows, taken when both lists have been answered.        *)
MakeRows(c) ==
    /\ at[c] = "rows" /\ GoTo(c, "begin")
    /\ Note(c, "now")
    /\ UNCHANGED <<gone, created, table, collected, clock, faults>>

(* Mutant: every row has the time of its own list. *)
CopiedAsSeen(c) == {[by |-> c, kind |-> k, seen |-> view[c][k], at |-> view[c][k]] : k \in Kinds}

Copied(c) == {[by |-> c, kind |-> k, seen |-> view[c][k], at |-> view[c]["now"]] : k \in Kinds}

(* now() of the DELETE will be the time the transaction began.             *)
Begin(c) ==
    /\ at[c] = "begin" /\ GoTo(c, "copy")
    /\ Note(c, "begun")
    /\ UNCHANGED <<gone, created, table, collected, clock, faults>>

(* Mutant: the error of the COPY is not looked at. *)
CopyUnchecked(c) ==
    /\ at[c] = "copy" /\ GoTo(c, "prune")
    /\ UNCHANGED <<view, gone, created, table, collected, clock, faults>>

Copy(c) ==
    /\ at[c] = "copy"
    /\ \/ created /\ GoTo(c, "prune") /\ UNCHANGED view
       \/ ~created /\ Return(c, "waiting")
    /\ UNCHANGED <<gone, created, table, collected, clock, faults>>

(* Mutant: retention is given to the database in whole hours. *)
DueInWholeHours(c) == {r \in table \cup Copied(c) : r.at < view[c]["begun"]}

Due(c) == {r \in table \cup Copied(c) : Expired(r, view[c]["begun"])}

(* Mutant: a failed DELETE is logged and the samples are committed. *)
PruneIfPossible(c) ==
    /\ at[c] = "prune" /\ GoTo(c, "commit")
    /\ gone' \in {gone, [gone EXCEPT ![c] = Due(c)]}
    /\ UNCHANGED <<view, created, table, collected, clock, faults>>

Prune(c) ==
    /\ at[c] = "prune" /\ GoTo(c, "commit")
    /\ gone' = [gone EXCEPT ![c] = Due(c)]
    /\ UNCHANGED <<view, created, table, collected, clock, faults>>

Committed(c) == (table \cup Copied(c)) \ gone[c]

(* The transaction is committed; what others have deleted was there before.*)
Put(c) ==
    /\ table' = Committed(c)
    /\ gone' = [d \in Collectors |-> IF d = c THEN {} ELSE gone[d] \ Copied(c)]

Commit(c) ==
    /\ at[c] = "commit" /\ Return(c, "waiting")
    /\ Put(c)
    /\ collected' = collected \cup {r \in Copied(c) : ~Expired(r, clock)}
    /\ UNCHANGED <<created, clock, faults>>

Rollback(c) ==
    /\ gone' = [gone EXCEPT ![c] = {}]
    /\ UNCHANGED table

(* The transaction is rolled back, but a COMMIT may have got through.      *)
Abandon(c) == Rollback(c) \/ (at[c] = "commit" /\ Put(c))

Fault == faults < MaxFaults /\ faults' = faults + 1

(* A call returns an error, which Run logs. *)
CallFails(c) ==
    /\ Fault
    /\ at[c] \in Calls /\ Return(c, "waiting")
    /\ Abandon(c)
    /\ UNCHANGED <<created, collected, clock>>

-----------------------------------------------------------------------------
(* Run, and the Deployment *)

(* Mutant: the schema is initialized once, before the loop. *)
TimerFiresWithoutSchema(c) ==
    /\ at[c] = "waiting" /\ GoTo(c, "nodes")
    /\ UNCHANGED <<view, gone, created, table, collected, clock, faults>>

TimerFires(c) ==
    /\ at[c] = "waiting" /\ GoTo(c, "schema")
    /\ UNCHANGED <<view, gone, created, table, collected, clock, faults>>

Start(c) ==
    /\ at[c] = "down" /\ GoTo(c, "schema")
    /\ UNCHANGED <<view, gone, created, table, collected, clock, faults>>

(* A signal, which ends the call that is running, or a crash.              *)
Stop(c) ==
    /\ Fault
    /\ at[c] # "down" /\ Return(c, "down")
    /\ Abandon(c)
    /\ UNCHANGED <<created, collected, clock>>

(* The database is set up anew; the transactions that run have failed.     *)
LoseTable ==
    /\ Fault
    /\ created /\ created' = FALSE /\ table' = {}
    /\ at' = [c \in Collectors |-> IF at[c] \in {"copy", "prune", "commit"} THEN "waiting"
                                 ELSE at[c]]
    /\ gone' = [c \in Collectors |-> {}]
    /\ collected' = {}
    /\ UNCHANGED <<view, clock>>

Tick ==
    /\ clock < MaxClock
    /\ clock' = clock + 1
    /\ collected' = {r \in collected : ~Expired(r, clock')}
    /\ UNCHANGED <<at, view, gone, created, table, faults>>

-----------------------------------------------------------------------------

Init ==
    /\ at = [c \in Collectors |-> "down"]
    /\ view = [c \in Collectors |-> Blank]
    /\ gone = [c \in Collectors |-> {}]
    /\ created = FALSE /\ table = {}
    /\ collected = {}
    /\ clock = 0 /\ faults = 0

Collect(c) ==
    \/ CreateSchema(c) \/ ListNodes(c) \/ ListPods(c) \/ MakeRows(c)
    \/ Begin(c) \/ Copy(c) \/ Prune(c) \/ Commit(c)

Next ==
    \/ \E c \in Collectors : Collect(c) \/ CallFails(c) \/ TimerFires(c) \/ Start(c) \/ Stop(c)
    \/ LoseTable \/ Tick

Spec == Init /\ [][Next]_vars

(* Only what waits for nobody is fair: the timer, the step between two     *)
(* calls, and the Deployment, which does not leave all collectors down.    *)
Fairness ==
    /\ \A c \in Collectors : WF_vars(TimerFires(c)) /\ WF_vars(MakeRows(c))
    /\ WF_vars((\A c \in Collectors : at[c] = "down") /\ \E c \in Collectors : Start(c))

FairSpec == Spec /\ Fairness

-----------------------------------------------------------------------------
(* Properties *)

(* Every variable holds the kind of value its comment says, no time is in  *)
(* the future, and only a transaction that is about to commit has deleted  *)
(* rows.                                                                   *)
TypeOK ==
    /\ at \in [Collectors -> Calls \cup {"waiting", "rows", "down"}]
    /\ view \in [Collectors -> [Moments -> 0..clock]]
    /\ gone \in [Collectors -> SUBSET Rows]
    /\ \A c \in Collectors : gone[c] # {} => at[c] = "commit"
    /\ created \in BOOLEAN /\ table \in SUBSET Rows /\ (~created => table = {})
    /\ \A c \in Collectors : at[c] \in {"prune", "commit"} => created
    /\ collected \in SUBSET Rows
    /\ clock \in 0..MaxClock /\ faults \in 0..MaxFaults

(* A reader sees a collection with all its rows or does not see it: no     *)
(* failure, crash or prune splits it.                                      *)
CollectionsAreWhole ==
    \A r \in table : \A k \in Kinds : \E s \in table : s.kind = k /\ s.by = r.by /\ s.at = r.at

(* A row shows a state the cluster had since the row before it from the    *)
(* same collector, and not later than its date, so the rows in the order   *)
(* of their dates show the states in the order in which they occurred.     *)
RowsFollowTheCluster ==
    \A r, s \in table :
        /\ r.seen <= r.at
        /\ r.by = s.by /\ r.kind = s.kind /\ r.at < s.at => r.at <= s.seen

(* What was reported as collected can be read until its retention is over, *)
(* also when another collector or a later collection prunes.               *)
CollectedIsDurable == collected \subseteq table

(* The samples of a collector come into the table only together with its   *)
(* prune: while pruning fails, the table does not grow.                    *)
NoGrowthWithoutPrune ==
    [][\A r \in table' \ table : \A q \in table :
          q.by = r.by /\ Expired(q, view[r.by]["begun"]) => q \notin table']_vars

Maintained ==
    /\ \E r \in table : r.at = clock
    /\ \A r \in table : ~Expired(r, clock)

(* As long as no call hangs for ever, which nothing in the code prevents,  *)
(* failures, restarts and even the loss of the table are made good: the    *)
(* latest samples are there and the expired ones are not.                  *)
MaintainedUnlessStuck ==
    (\A c \in Collectors : []<>(at[c] \in {"waiting", "down"})) => <>[]Maintained
=============================================================================
