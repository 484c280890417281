----------------------- MODULE TelemetryCollectorProofs -----------------------
(* What readers of the telemetry table see is whole, durable, in order and *)
(* bounded, for any number of collectors, any retention and all failures.  *)
EXTENDS TelemetryCollector, TLAPS

LEMMA CopiedAreRows ==
    ASSUME TypeOK, NEW c \in Collectors PROVE Copied(c) \in SUBSET Rows
<1> SUFFICES ASSUME NEW r \in Copied(c) PROVE r \in Rows
  OBVIOUS
<1>1. PICK k \in Kinds :
        r = [by |-> c, kind |-> k, seen |-> view[c][k], at |-> view[c]["now"]]
  BY DEF Copied
<1>2. \A what \in Moments : view[c][what] \in Nat
  BY CollectorAssumption DEF TypeOK
<1>3. view[c][k] \in Nat /\ view[c]["now"] \in Nat
  BY <1>2 DEF Moments
<1> QED BY <1>1, <1>3 DEF Rows

LEMMA TypeInit == Init => TypeOK
<1> SUFFICES ASSUME Init PROVE TypeOK
  OBVIOUS
<1>1. clock = 0 /\ 0 \in 0..clock /\ clock \in 0..MaxClock /\ faults \in 0..MaxFaults
  BY CollectorAssumption DEF Init
<1>2. view \in [Collectors -> [Moments -> 0..clock]]
  BY <1>1 DEF Init, Blank
<1>3. \A c \in Collectors : at[c] = "down" /\ gone[c] = {}
  BY DEF Init
<1>4. at \in [Collectors -> Calls \cup {"waiting", "rows", "down"}]
      /\ gone \in [Collectors -> SUBSET Rows]
  BY DEF Init
<1> QED BY <1>1, <1>2, <1>3, <1>4 DEF Init, TypeOK

LEMMA NoteTyped ==
    ASSUME TypeOK, NEW c \in Collectors, NEW what \in Moments, Note(c, what)
    PROVE  view' \in [Collectors -> [Moments -> 0..clock]]
<1>1. clock \in 0..clock
  BY CollectorAssumption DEF TypeOK
<1>2. [view[c] EXCEPT ![what] = clock] \in [Moments -> 0..clock]
  BY <1>1 DEF TypeOK
<1>3. view' = [view EXCEPT ![c] = [view[c] EXCEPT ![what] = clock]]
  BY DEF Note
<1> QED BY <1>2, <1>3 DEF TypeOK

LEMMA ReturnTyped ==
    ASSUME TypeOK, NEW c \in Collectors, NEW where \in {"waiting", "down"}, Return(c, where)
    PROVE  /\ at' \in [Collectors -> Calls \cup {"waiting", "rows", "down"}]
           /\ view' \in [Collectors -> [Moments -> 0..clock]]
           /\ at'[c] = where
           /\ \A d \in Collectors \ {c} : at'[d] = at[d]
<1>1. Blank \in [Moments -> 0..clock]
  BY CollectorAssumption DEF TypeOK, Blank
<1> QED BY <1>1 DEF TypeOK, Return, GoTo

LEMMA PutTyped ==
    ASSUME TypeOK, NEW c \in Collectors, at[c] = "commit", Put(c)
    PROVE  /\ table' \in SUBSET Rows /\ created
           /\ gone' \in [Collectors -> SUBSET Rows]
           /\ \A d \in Collectors : gone'[d] # {} => d # c /\ gone[d] # {}
<1>1. table \in SUBSET Rows /\ Copied(c) \in SUBSET Rows
  BY CopiedAreRows DEF TypeOK
<1> QED BY <1>1, CollectorAssumption DEF TypeOK, Put, Committed

LEMMA AbandonTyped ==
    ASSUME TypeOK, NEW c \in Collectors, Abandon(c)
    PROVE  /\ table' \in SUBSET Rows /\ (~created => table' = {})
           /\ gone' \in [Collectors -> SUBSET Rows]
           /\ \A d \in Collectors : gone'[d] # {} => d # c /\ gone[d] # {}
<1>1. CASE Rollback(c)
  BY <1>1 DEF TypeOK, Rollback
<1>2. CASE at[c] = "commit" /\ Put(c)
  BY <1>2, PutTyped
<1> QED BY <1>1, <1>2 DEF Abandon

LEMMA TypeStep == TypeOK /\ [Next]_vars => TypeOK'
<1> SUFFICES ASSUME TypeOK, [Next]_vars PROVE TypeOK'
  OBVIOUS
<1> USE DEF Calls
<1>1. ASSUME NEW c \in Collectors, CreateSchema(c) PROVE TypeOK'
  BY <1>1, CollectorAssumption DEF CreateSchema, TypeOK, GoTo
<1>2. ASSUME NEW c \in Collectors, ListNodes(c) PROVE TypeOK'
  BY <1>2, NoteTyped DEF ListNodes, TypeOK, GoTo, Moments, Kinds
<1>3. ASSUME NEW c \in Collectors, ListPods(c) PROVE TypeOK'
  BY <1>3, NoteTyped DEF ListPods, TypeOK, GoTo, Moments, Kinds
<1>4. ASSUME NEW c \in Collectors, MakeRows(c) PROVE TypeOK'
  BY <1>4, NoteTyped DEF MakeRows, TypeOK, GoTo, Moments
<1>5. ASSUME NEW c \in Collectors, Begin(c) PROVE TypeOK'
  BY <1>5, NoteTyped DEF Begin, TypeOK, GoTo, Moments
<1>6. ASSUME NEW c \in Collectors, Copy(c) PROVE TypeOK'
  <2>1. CASE created
    BY <1>6, <2>1 DEF Copy, TypeOK, GoTo
  <2>2. CASE ~created
    BY <1>6, <2>2, ReturnTyped DEF Copy, TypeOK
  <2> QED BY <2>1, <2>2
<1>7. ASSUME NEW c \in Collectors, Prune(c) PROVE TypeOK'
  <2>1. Due(c) \in SUBSET Rows
    BY <1>7, CopiedAreRows DEF Prune, TypeOK, Due
  <2> QED BY <1>7, <2>1 DEF Prune, TypeOK, GoTo
<1>8. ASSUME NEW c \in Collectors, Commit(c) PROVE TypeOK'
  BY <1>8, PutTyped, ReturnTyped, CopiedAreRows DEF Commit, TypeOK
<1>9. ASSUME NEW c \in Collectors, CallFails(c) PROVE TypeOK'
  BY <1>9, AbandonTyped, ReturnTyped, CollectorAssumption DEF CallFails, TypeOK, Fault
<1>10. ASSUME NEW c \in Collectors, TimerFires(c) PROVE TypeOK'
  BY <1>10 DEF TimerFires, TypeOK, GoTo
<1>11. ASSUME NEW c \in Collectors, Start(c) PROVE TypeOK'
  BY <1>11 DEF Start, TypeOK, GoTo
<1>12. ASSUME NEW c \in Collectors, Stop(c) PROVE TypeOK'
  BY <1>12, AbandonTyped, ReturnTyped, CollectorAssumption DEF Stop, TypeOK, Fault
<1>13. CASE LoseTable
  <2>1. /\ at' \in [Collectors -> Calls \cup {"waiting", "rows", "down"}]
        /\ \A c \in Collectors : at'[c] \notin {"prune", "commit"}
    BY <1>13 DEF LoseTable, TypeOK
  <2>2. faults' \in 0..MaxFaults
    BY <1>13, CollectorAssumption DEF LoseTable, TypeOK, Fault
  <2>3. gone' \in [Collectors -> SUBSET Rows] /\ \A c \in Collectors : gone'[c] = {}
    BY <1>13 DEF LoseTable
  <2> QED BY <1>13, <2>1, <2>2, <2>3 DEF LoseTable, TypeOK
<1>14. CASE Tick
  <2>1. clock' \in 0..MaxClock /\ \A t \in 0..clock : t \in 0..clock'
    BY <1>14, CollectorAssumption DEF Tick, TypeOK
  <2>2. view' \in [Collectors -> [Moments -> 0..clock']]
    BY <1>14, <2>1 DEF Tick, TypeOK
  <2> QED BY <1>14, <2>1, <2>2 DEF Tick, TypeOK
<1>15. CASE UNCHANGED vars
  BY <1>15 DEF vars, TypeOK
<1> QED BY <1>1, <1>2, <1>3, <1>4, <1>5, <1>6, <1>7, <1>8, <1>9, <1>10, <1>11, <1>12,
           <1>13, <1>14, <1>15 DEF Next, Collect

(* Types, for every choice of the constants.                               *)
THEOREM CollectorTypes == Spec => []TypeOK
BY TypeInit, TypeStep, PTL DEF Spec

-----------------------------------------------------------------------------
(* Of the steps only a few touch the rows *)

Still == UNCHANGED <<gone, table, collected, clock>>

Undone(c) == Rollback(c) /\ UNCHANGED <<collected, clock>>

Done(c) ==
    /\ at[c] = "commit" /\ Put(c)
    /\ collected' \subseteq collected \cup {r \in Copied(c) : ~Expired(r, clock)}
    /\ UNCHANGED clock

(* A collector that is not about to commit after the step, or was before.  *)
Waits(c) == at'[c] = "commit" => at[c] = "commit" /\ view'[c] = view[c]

LEMMA StepKinds ==
    ASSUME TypeOK, [Next]_vars
    PROVE  \/ Still /\ \A d \in Collectors : Waits(d)
           \/ \E c \in Collectors :
                /\ Prune(c)
                /\ \A d \in Collectors \ {c} : Waits(d)
           \/ \E c \in Collectors :
                /\ Undone(c) \/ Done(c)
                /\ at'[c] # "commit"
                /\ \A d \in Collectors \ {c} : Waits(d)
           \/ LoseTable
           \/ Tick
<1>1. ASSUME NEW c \in Collectors,
             CreateSchema(c) \/ ListNodes(c) \/ ListPods(c) \/ MakeRows(c)
               \/ Begin(c) \/ TimerFires(c) \/ Start(c)
      PROVE  Still /\ \A d \in Collectors : Waits(d)
  BY <1>1 DEF CreateSchema, ListNodes, ListPods, MakeRows, Begin, TimerFires, Start,
              Still, Waits, TypeOK, GoTo, Note
<1>2. ASSUME NEW c \in Collectors, Copy(c) PROVE Still /\ \A d \in Collectors : Waits(d)
  BY <1>2 DEF Copy, Still, Waits, TypeOK, GoTo, Return
<1>3. ASSUME NEW c \in Collectors, Prune(c) PROVE \A d \in Collectors \ {c} : Waits(d)
  BY <1>3 DEF Prune, Waits, TypeOK, GoTo
<1>4. ASSUME NEW c \in Collectors, Commit(c) \/ CallFails(c) \/ Stop(c)
      PROVE  /\ Undone(c) \/ Done(c)
             /\ at'[c] # "commit"
             /\ \A d \in Collectors \ {c} : Waits(d)
  <2>1. \E where \in {"waiting", "down"} : Return(c, where)
    BY <1>4 DEF Commit, CallFails, Stop
  <2>2. at'[c] # "commit" /\ \A d \in Collectors \ {c} : Waits(d)
    BY <2>1 DEF Return, GoTo, Waits, TypeOK
  <2>3. CASE Commit(c)
    BY <2>2, <2>3 DEF Commit, Done
  <2>4. CASE CallFails(c) \/ Stop(c)
    BY <2>2, <2>4 DEF CallFails, Stop, Abandon, Undone, Done
  <2> QED BY <1>4, <2>3, <2>4
<1>5. CASE UNCHANGED vars
  BY <1>5 DEF vars, Still, Waits
<1> QED BY <1>1, <1>2, <1>3, <1>4, <1>5 DEF Next, Collect

LEMMA ExpiryIsForever ==
    ASSUME NEW r \in Rows, NEW t \in Nat, NEW u \in Nat, t <= u, Expired(r, t)
    PROVE  Expired(r, u)
  BY CollectorAssumption DEF Expired, Rows

LEMMA Times ==
    ASSUME TypeOK
    PROVE  /\ clock \in Nat
           /\ \A c \in Collectors : \A what \in Moments :
                view[c][what] \in Nat /\ view[c][what] <= clock
  BY CollectorAssumption DEF TypeOK

-----------------------------------------------------------------------------
(* What was reported stays *)

DurableInv ==
    /\ \A c \in Collectors : \A r \in gone[c] : Expired(r, clock)
    /\ \A r \in collected : r \in table /\ ~Expired(r, clock)

LEMMA DurableInit == Init => DurableInv
  BY DEF Init, DurableInv

LEMMA DurableStep == TypeOK /\ DurableInv /\ [Next]_vars => DurableInv'
<1> SUFFICES ASSUME TypeOK, DurableInv, [Next]_vars PROVE DurableInv'
  OBVIOUS
<1>1. CASE Still
  BY <1>1 DEF Still, DurableInv, Expired
<1>2. ASSUME NEW c \in Collectors, Prune(c) PROVE DurableInv'
  <2>1. \A r \in Due(c) : Expired(r, clock)
    <3> SUFFICES ASSUME NEW r \in Due(c) PROVE Expired(r, clock)
      OBVIOUS
    <3>1. r \in Rows /\ Expired(r, view[c]["begun"])
      BY CopiedAreRows DEF Due, TypeOK
    <3>2. view[c]["begun"] \in Nat /\ view[c]["begun"] <= clock /\ clock \in Nat
      BY Times DEF Moments
    <3> QED BY <3>1, <3>2, ExpiryIsForever
  <2> QED BY <1>2, <2>1 DEF Prune, DurableInv, TypeOK, Expired
<1>3. ASSUME NEW c \in Collectors, Undone(c) PROVE DurableInv'
  BY <1>3 DEF Undone, Rollback, DurableInv, TypeOK, Expired
<1>4. ASSUME NEW c \in Collectors, Done(c) PROVE DurableInv'
  <2>1. \A r \in collected' : r \in table \cup Copied(c) /\ ~Expired(r, clock)
    BY <1>4 DEF Done, DurableInv
  <2>2. \A r \in collected' : r \in table'
    BY <1>4, <2>1 DEF Done, Put, Committed, DurableInv
  <2>3. \A d \in Collectors : \A r \in gone'[d] : r \in gone[d]
    BY <1>4 DEF Done, Put
  <2> QED BY <1>4, <2>1, <2>2, <2>3 DEF Done, DurableInv, Expired
<1>5. CASE LoseTable
  BY <1>5 DEF LoseTable, DurableInv
<1>6. CASE Tick
  <2>1. \A c \in Collectors : \A r \in gone'[c] : Expired(r, clock')
    BY <1>6, Times, ExpiryIsForever DEF Tick, DurableInv, TypeOK
  <2> QED BY <1>6, <2>1 DEF Tick, DurableInv, Expired
<1> QED BY <1>1, <1>2, <1>3, <1>4, <1>5, <1>6, StepKinds

(* What was reported as collected can be read until its retention is over, *)
(* with any number of collectors that prune.                               *)
THEOREM CollectionIsDurable == Spec => []CollectedIsDurable
<1>1. DurableInv => CollectedIsDurable
  BY DEF DurableInv, CollectedIsDurable
<1> QED BY <1>1, TypeInit, TypeStep, DurableInit, DurableStep, PTL DEF Spec

-----------------------------------------------------------------------------
(* No collection is split *)

(* Beside every row there is one of each kind from the same collection     *)
(* that no transaction takes away unless it takes away this row, too.      *)
Companion(r, s, k) ==
    /\ s.kind = k /\ s.by = r.by /\ s.at = r.at
    /\ \A d \in Collectors : s \in gone[d] => r \in gone[d]

WholeInv ==
    /\ \A r \in table : \A k \in Kinds : \E s \in table : Companion(r, s, k)
    /\ \A c \in Collectors : at[c] = "commit" =>
         \A r, s \in Copied(c) : s \in gone[c] => r \in gone[c]

LEMMA CopiedParts ==
    ASSUME NEW c \in Collectors
    PROVE  /\ \A r \in Copied(c) : r.by = c /\ r.at = view[c]["now"]
           /\ \A k \in Kinds : \E s \in Copied(c) : s.kind = k
           /\ view'[c] = view[c] => Copied(c)' = Copied(c)
<1>1. \A r \in Copied(c) : r.by = c /\ r.at = view[c]["now"]
  BY DEF Copied
<1>2. \A k \in Kinds : \E s \in Copied(c) : s.kind = k
  <2> SUFFICES ASSUME NEW k \in Kinds PROVE \E s \in Copied(c) : s.kind = k
    OBVIOUS
  <2>1. [by |-> c, kind |-> k, seen |-> view[c][k], at |-> view[c]["now"]] \in Copied(c)
    BY DEF Copied
  <2> QED BY <2>1
<1>3. view'[c] = view[c] => Copied(c)' = Copied(c)
  BY DEF Copied
<1> QED BY <1>1, <1>2, <1>3

LEMMA WholeInit == Init => WholeInv
  BY DEF Init, WholeInv

LEMMA WholeStep == TypeOK /\ WholeInv /\ [Next]_vars => WholeInv'
<1> SUFFICES ASSUME TypeOK, WholeInv, [Next]_vars PROVE WholeInv'
  OBVIOUS
<1> DEFINE Even(c) == at[c] = "commit" =>
                        \A r, s \in Copied(c) : s \in gone[c] => r \in gone[c]
<1>1. ASSUME NEW d \in Collectors, Waits(d),
             gone'[d] = gone[d] \/ (\E c \in Collectors \ {d} : gone'[d] = gone[d] \ Copied(c))
      PROVE  Even(d)'
  <2> SUFFICES ASSUME at'[d] = "commit", NEW r \in Copied(d), NEW s \in Copied(d),
                      s \in gone'[d]
               PROVE  r \in gone'[d]
    <3>1. at'[d] = "commit" => Copied(d)' = Copied(d)
      BY <1>1, CopiedParts DEF Waits
    <3> QED BY <3>1
  <2>1. s \in gone[d] /\ r \in gone[d]
    BY <1>1 DEF Waits, WholeInv
  <2>2. \A c \in Collectors \ {d} : r \notin Copied(c)
    BY CopiedParts
  <2> QED BY <1>1, <2>1, <2>2
<1>2. CASE Still /\ \A d \in Collectors : Waits(d)
  <2>1. \A d \in Collectors : Even(d)'
    BY <1>1, <1>2 DEF Still
  <2> QED BY <1>2, <2>1 DEF Still, WholeInv, Companion
<1>3. ASSUME NEW c \in Collectors, Prune(c), \A d \in Collectors \ {c} : Waits(d)
      PROVE  WholeInv'
  <2>1. table' = table /\ gone'[c] = Due(c) /\ \A d \in Collectors \ {c} : gone'[d] = gone[d]
    BY <1>3 DEF Prune, TypeOK
  <2>2. \A r, s \in table \cup Copied(c) : r.at = s.at /\ s \in Due(c) => r \in Due(c)
    BY DEF Due, Expired
  <2>3. ASSUME NEW r \in table, NEW k \in Kinds PROVE \E s \in table : Companion(r, s, k)'
    <3>1. PICK s \in table : Companion(r, s, k)
      BY DEF WholeInv
    <3>2. \A d \in Collectors : s \in gone'[d] => r \in gone'[d]
      BY <2>1, <2>2, <3>1 DEF Companion
    <3> QED BY <3>1, <3>2 DEF Companion
  <2>4. Even(c)'
    <3>1. Copied(c)' = Copied(c)
      BY <1>3, CopiedParts DEF Prune
    <3>2. \A r, s \in Copied(c) : s \in Due(c) => r \in Due(c)
      BY <2>2, CopiedParts
    <3> QED BY <2>1, <3>1, <3>2
  <2>5. \A d \in Collectors : Even(d)'
    BY <1>1, <1>3, <2>1, <2>4
  <2> QED BY <2>1, <2>3, <2>5 DEF WholeInv
<1>4. ASSUME NEW c \in Collectors, Undone(c), at'[c] # "commit",
             \A d \in Collectors \ {c} : Waits(d)
      PROVE  WholeInv'
  <2>1. table' = table /\ gone'[c] = {} /\ \A d \in Collectors \ {c} : gone'[d] = gone[d]
    BY <1>4 DEF Undone, Rollback, TypeOK
  <2>2. \A d \in Collectors : Even(d)'
    BY <1>1, <1>4, <2>1
  <2>3. ASSUME NEW r \in table, NEW k \in Kinds PROVE \E s \in table : Companion(r, s, k)'
    <3>1. PICK s \in table : Companion(r, s, k)
      BY DEF WholeInv
    <3> QED BY <2>1, <3>1 DEF Companion
  <2> QED BY <2>1, <2>2, <2>3 DEF WholeInv
<1>5. ASSUME NEW c \in Collectors, Done(c), at'[c] # "commit",
             \A d \in Collectors \ {c} : Waits(d)
      PROVE  WholeInv'
  <2>1. /\ at[c] = "commit"
        /\ table' = (table \cup Copied(c)) \ gone[c]
        /\ gone'[c] = {} /\ \A d \in Collectors \ {c} : gone'[d] = gone[d] \ Copied(c)
    BY <1>5 DEF Done, Put, Committed
  <2>2. \A d \in Collectors : Even(d)'
    BY <1>1, <1>5, <2>1
  <2>3. ASSUME NEW r \in table', NEW k \in Kinds PROVE \E s \in table' : Companion(r, s, k)'
    <3>1. CASE r \in Copied(c)
      <4>1. PICK s \in Copied(c) : s.kind = k
        BY CopiedParts
      <4>2. s.by = r.by /\ s.at = r.at
        BY <3>1, CopiedParts
      <4>3. s \in table'
        BY <2>1, <2>3, <3>1 DEF WholeInv
      <4>4. \A d \in Collectors : s \notin gone'[d]
        BY <2>1
      <4> QED BY <4>1, <4>2, <4>3, <4>4 DEF Companion
    <3>2. CASE r \notin Copied(c)
      <4>1. r \in table /\ r \notin gone[c]
        BY <2>1, <2>3, <3>2
      <4>2. PICK s \in table : Companion(r, s, k)
        BY <4>1 DEF WholeInv
      <4>3. s \in table'
        BY <2>1, <4>1, <4>2 DEF Companion
      <4>4. \A d \in Collectors : s \in gone'[d] => r \in gone'[d]
        BY <2>1, <3>2, <4>2 DEF Companion
      <4> QED BY <4>2, <4>3, <4>4 DEF Companion
    <3> QED BY <3>1, <3>2
  <2> QED BY <2>2, <2>3 DEF WholeInv
<1>6. CASE LoseTable
  <2>1. table' = {} /\ \A d \in Collectors : gone'[d] = {}
    BY <1>6 DEF LoseTable
  <2> QED BY <2>1 DEF WholeInv
<1>7. CASE Tick
  <2>1. UNCHANGED <<at, view, gone, table>>
    BY <1>7 DEF Tick
  <2>2. \A c \in Collectors : Copied(c)' = Copied(c)
    BY <2>1, CopiedParts
  <2> QED BY <2>1, <2>2 DEF WholeInv, Companion
<1> QED BY <1>2, <1>3, <1>4, <1>5, <1>6, <1>7, StepKinds

(* No failure, crash or prune ever splits a collection, however many       *)
(* collectors overlap.                                                     *)
THEOREM CollectionsStayWhole == Spec => []CollectionsAreWhole
<1>1. WholeInv => CollectionsAreWhole
  BY DEF WholeInv, CollectionsAreWhole, Companion
<1> QED BY <1>1, TypeInit, TypeStep, WholeInit, WholeStep, PTL DEF Spec

-----------------------------------------------------------------------------
(* No growth without a prune *)

(* A transaction about to commit has deleted what its collector has        *)
(* written before and is due; nobody else adds rows of this collector.     *)
PruneInv ==
    \A c \in Collectors : at[c] = "commit" =>
        \A q \in table : q.by = c /\ Expired(q, view[c]["begun"]) => q \in gone[c]

LEMMA PruneInit == Init => PruneInv
  BY DEF Init, PruneInv

LEMMA PruneStep == TypeOK /\ PruneInv /\ [Next]_vars => PruneInv'
<1> SUFFICES ASSUME TypeOK, PruneInv, [Next]_vars PROVE PruneInv'
  OBVIOUS
<1>1. CASE Still /\ \A d \in Collectors : Waits(d)
  BY <1>1 DEF Still, Waits, PruneInv, Expired
<1>2. ASSUME NEW c \in Collectors, Prune(c), \A d \in Collectors \ {c} : Waits(d)
      PROVE  PruneInv'
  BY <1>2 DEF Prune, Due, Waits, PruneInv, Expired, TypeOK
<1>3. ASSUME NEW c \in Collectors, Undone(c), at'[c] # "commit",
             \A d \in Collectors \ {c} : Waits(d)
      PROVE  PruneInv'
  BY <1>3 DEF Undone, Rollback, Waits, PruneInv, Expired, TypeOK
<1>4. ASSUME NEW c \in Collectors, Done(c), at'[c] # "commit",
             \A d \in Collectors \ {c} : Waits(d)
      PROVE  PruneInv'
  <2> SUFFICES ASSUME NEW d \in Collectors, at'[d] = "commit", NEW q \in table', q.by = d,
                      Expired(q, view'[d]["begun"])
               PROVE  q \in gone'[d]
    BY DEF PruneInv, Expired
  <2>1. d # c /\ at[d] = "commit" /\ view'[d] = view[d]
    BY <1>4 DEF Waits
  <2>2. q \notin Copied(c)
    BY <2>1, CopiedParts
  <2>3. q \in table
    BY <1>4, <2>2 DEF Done, Put, Committed
  <2> QED BY <1>4, <2>1, <2>2, <2>3 DEF Done, Put, PruneInv
<1>5. CASE LoseTable
  BY <1>5 DEF LoseTable, PruneInv
<1>6. CASE Tick
  BY <1>6 DEF Tick, PruneInv, Expired
<1> QED BY <1>1, <1>2, <1>3, <1>4, <1>5, <1>6, StepKinds

GrowthStep ==
    \A r \in table' \ table : \A q \in table :
        q.by = r.by /\ Expired(q, view[r.by]["begun"]) => q \notin table'

LEMMA GrowthPrunes == TypeOK /\ PruneInv /\ [Next]_vars => GrowthStep
<1> SUFFICES ASSUME TypeOK, PruneInv, [Next]_vars,
                    NEW r \in table', r \notin table, NEW q \in table,
                    q.by = r.by, Expired(q, view[r.by]["begun"])
             PROVE  q \notin table'
  BY DEF GrowthStep
<1>1. PICK c \in Collectors : Done(c)
  BY StepKinds DEF Still, Prune, Undone, Rollback, LoseTable, Tick
<1>2. r \in Copied(c) /\ r.by = c
  BY <1>1, CopiedParts DEF Done, Put, Committed
<1> QED BY <1>1, <1>2 DEF Done, Put, Committed, PruneInv

(* A collector that cannot prune does not make the table grow.             *)
THEOREM GrowthNeedsPrune == Spec => NoGrowthWithoutPrune
<1>1. TypeOK /\ PruneInv /\ [Next]_vars => [GrowthStep]_vars
  BY GrowthPrunes
<1>2. [][GrowthStep]_vars => NoGrowthWithoutPrune
  BY PTL DEF NoGrowthWithoutPrune, GrowthStep
<1> QED BY <1>1, <1>2, TypeInit, TypeStep, PruneInit, PruneStep, PTL DEF Spec

-----------------------------------------------------------------------------
(* The order of the rows *)

(* A collector's rows are dated before it looks at the cluster again.      *)
OrderInv ==
    /\ RowsFollowTheCluster
    /\ \A r \in table : r.at <= clock
    /\ \A c \in Collectors :
         /\ at[c] \in {"pods", "rows", "begin", "copy", "prune", "commit"} =>
              \A r \in table : r.by = c => r.at <= view[c]["Node"]
         /\ at[c] \in {"rows", "begin", "copy", "prune", "commit"} =>
              \A r \in table : r.by = c => r.at <= view[c]["Pod"]
         /\ at[c] \in {"begin", "copy", "prune", "commit"} =>
              view[c]["Node"] <= view[c]["now"] /\ view[c]["Pod"] <= view[c]["now"]

LEMMA OrderInit == Init => OrderInv
  BY DEF Init, OrderInv, RowsFollowTheCluster

LEMMA OrderStep == TypeOK /\ OrderInv /\ [Next]_vars => OrderInv'
<1> SUFFICES ASSUME TypeOK, OrderInv, [Next]_vars PROVE OrderInv'
  OBVIOUS
<1> USE DEF Calls
<1> DEFINE Ordered(c) ==
         /\ at[c] \in {"pods", "rows", "begin", "copy", "prune", "commit"} =>
              \A r \in table : r.by = c => r.at <= view[c]["Node"]
         /\ at[c] \in {"rows", "begin", "copy", "prune", "commit"} =>
              \A r \in table : r.by = c => r.at <= view[c]["Pod"]
         /\ at[c] \in {"begin", "copy", "prune", "commit"} =>
              view[c]["Node"] <= view[c]["now"] /\ view[c]["Pod"] <= view[c]["now"]
<1>1. ASSUME NEW c \in Collectors, NEW what \in Moments, Note(c, what)
      PROVE  /\ view'[c][what] = clock
             /\ \A other \in Moments \ {what} : view'[c][other] = view[c][other]
             /\ \A d \in Collectors \ {c} : view'[d] = view[d]
  BY <1>1 DEF Note, TypeOK
<1>2. \A c \in Collectors : Ordered(c)
  BY DEF OrderInv
<1>3. ASSUME NEW c \in Collectors,
             UNCHANGED <<table, clock>>, \A d \in Collectors \ {c} : at'[d] = at[d],
             \A d \in Collectors \ {c} : view'[d] = view[d], Ordered(c)'
      PROVE  OrderInv'
  <2>1. \A d \in Collectors : Ordered(d)'
    BY <1>2, <1>3
  <2> QED BY <1>3, <2>1 DEF OrderInv, RowsFollowTheCluster
<1> HIDE DEF Ordered
<1>4. ASSUME NEW c \in Collectors, CreateSchema(c) \/ TimerFires(c) \/ Start(c)
      PROVE  OrderInv'
  BY <1>3, <1>4 DEF CreateSchema, TimerFires, Start, GoTo, TypeOK, Ordered
<1>5. ASSUME NEW c \in Collectors, ListNodes(c) PROVE OrderInv'
  <2>1. view'[c]["Node"] = clock /\ at'[c] = "pods" /\ table' = table
    BY <1>1, <1>5 DEF ListNodes, GoTo, TypeOK, Moments, Kinds
  <2>2. Ordered(c)'
    BY <2>1 DEF OrderInv, Ordered
  <2> QED BY <1>1, <1>3, <1>5, <2>2 DEF ListNodes, GoTo, TypeOK, Moments, Kinds
<1>6. ASSUME NEW c \in Collectors, ListPods(c) PROVE OrderInv'
  <2>1. /\ view'[c]["Pod"] = clock /\ view'[c]["Node"] = view[c]["Node"]
        /\ at[c] = "pods" /\ at'[c] = "rows" /\ table' = table
    BY <1>1, <1>6 DEF ListPods, GoTo, TypeOK, Moments, Kinds
  <2>2. Ordered(c)'
    BY <1>2, <2>1 DEF OrderInv, Ordered
  <2> QED BY <1>1, <1>3, <1>6, <2>2 DEF ListPods, GoTo, TypeOK, Moments, Kinds
<1>7. ASSUME NEW c \in Collectors, MakeRows(c) PROVE OrderInv'
  <2>1. /\ view'[c]["now"] = clock
        /\ view'[c]["Node"] = view[c]["Node"] /\ view'[c]["Pod"] = view[c]["Pod"]
        /\ at[c] = "rows" /\ at'[c] = "begin" /\ table' = table
    BY <1>1, <1>7 DEF MakeRows, GoTo, TypeOK, Moments, Kinds
  <2>2. view[c]["Node"] <= clock /\ view[c]["Pod"] <= clock
    BY Times DEF Moments, Kinds
  <2>3. Ordered(c)'
    BY <1>2, <2>1, <2>2 DEF Ordered
  <2> QED BY <1>1, <1>3, <1>7, <2>3 DEF MakeRows, GoTo, TypeOK, Moments, Kinds
<1>8. ASSUME NEW c \in Collectors, Begin(c) PROVE OrderInv'
  <2>1. /\ view'[c]["now"] = view[c]["now"]
        /\ view'[c]["Node"] = view[c]["Node"] /\ view'[c]["Pod"] = view[c]["Pod"]
        /\ at[c] = "begin" /\ at'[c] = "copy" /\ table' = table
    BY <1>1, <1>8 DEF Begin, GoTo, TypeOK, Moments, Kinds
  <2>2. Ordered(c)'
    BY <1>2, <2>1 DEF Ordered
  <2> QED BY <1>1, <1>3, <1>8, <2>2 DEF Begin, GoTo, TypeOK, Moments, Kinds
<1>9. ASSUME NEW c \in Collectors, Copy(c) PROVE OrderInv'
  <2>1. Ordered(c)'
    BY <1>2, <1>9 DEF Copy, GoTo, Return, TypeOK, Ordered
  <2> QED BY <1>3, <1>9, <2>1 DEF Copy, GoTo, Return, TypeOK
<1>10. ASSUME NEW c \in Collectors, Prune(c) PROVE OrderInv'
  <2>1. Ordered(c)'
    BY <1>2, <1>10 DEF Prune, GoTo, TypeOK, Ordered
  <2> QED BY <1>3, <1>10, <2>1 DEF Prune, GoTo, TypeOK
<1>11. ASSUME NEW c \in Collectors, Commit(c) \/ CallFails(c) \/ Stop(c) PROVE OrderInv'
  <2>1. PICK where \in {"waiting", "down"} : Return(c, where)
    BY <1>11 DEF Commit, CallFails, Stop
  <2>2. /\ at'[c] = where
        /\ \A d \in Collectors \ {c} : at'[d] = at[d] /\ view'[d] = view[d]
    BY <2>1 DEF Return, GoTo, TypeOK
  <2>3. Ordered(c)'
    BY <2>1, <2>2 DEF Ordered
  <2>4. CASE table' = table
    BY <1>3, <1>11, <2>2, <2>3, <2>4 DEF Commit, CallFails, Stop
  <2>5. CASE table' # table
    <3>1. at[c] = "commit" /\ Put(c) /\ clock' = clock
      BY <1>11, <2>5 DEF Commit, CallFails, Stop, Abandon, Rollback
    <3>2. \A r \in table' : r \in table \/ r \in Copied(c)
      BY <3>1 DEF Put, Committed
    <3>3. ASSUME NEW r \in Copied(c)
          PROVE  /\ r.by = c /\ r.at = view[c]["now"] /\ r.seen <= r.at /\ r.at <= clock
                 /\ \A q \in table : q.by = c => q.at <= r.seen
      <4>1. PICK k \in Kinds :
              r = [by |-> c, kind |-> k, seen |-> view[c][k], at |-> view[c]["now"]]
        BY DEF Copied
      <4>2. r.by = c /\ r.at = view[c]["now"] /\ r.seen = view[c][k]
        BY <4>1
      <4>3. view[c][k] <= view[c]["now"] /\ \A q \in table : q.by = c => q.at <= view[c][k]
        BY <1>2, <3>1 DEF Ordered, Kinds
      <4>4. view[c]["now"] <= clock
        BY Times DEF Moments
      <4> QED BY <4>2, <4>3, <4>4
    <3>4. \A d \in Collectors : Ordered(d)'
      <4> SUFFICES ASSUME NEW d \in Collectors, d # c PROVE Ordered(d)'
        BY <2>3
      <4>1. \A r \in table' : r.by = d => r \in table
        BY <3>2, <3>3
      <4> QED BY <1>2, <2>2, <4>1 DEF Ordered
    <3>5. \A r \in table' : r.at <= clock'
      BY <3>1, <3>2, <3>3 DEF OrderInv
    <3>6. RowsFollowTheCluster'
      <4> SUFFICES ASSUME NEW r \in table', NEW s \in table'
                   PROVE  /\ r.seen <= r.at
                          /\ r.by = s.by /\ r.kind = s.kind /\ r.at < s.at => r.at <= s.seen
        BY DEF RowsFollowTheCluster
      <4>1. r.seen <= r.at
        BY <3>2, <3>3 DEF OrderInv, RowsFollowTheCluster
      <4>2. CASE r \in table /\ s \in table
        BY <4>1, <4>2 DEF OrderInv, RowsFollowTheCluster
      <4>3. CASE r \in table /\ s \in Copied(c)
        BY <3>3, <4>1, <4>3
      <4>4. CASE r \in Copied(c) /\ s \in Copied(c)
        <5>1. r.at = s.at /\ r.at \in Nat
          BY <3>3, <4>4, Times DEF Moments
        <5> QED BY <4>1, <5>1
      <4>5. CASE r \in Copied(c) /\ s \in table
        <5> SUFFICES ASSUME s.by = c, r.at < s.at PROVE FALSE
          BY <3>3, <4>1, <4>5
        <5>1. s.at <= r.seen
          BY <3>3, <4>5
        <5>2. r \in Rows /\ s \in Rows
          BY <4>5, CopiedAreRows DEF TypeOK
        <5> QED BY <4>1, <5>1, <5>2 DEF Rows
      <4> QED BY <3>2, <4>2, <4>3, <4>4, <4>5
    <3> QED BY <3>4, <3>5, <3>6 DEF OrderInv, Ordered
  <2> QED BY <2>4, <2>5
<1>12. CASE LoseTable
  <2>1. table' = {} /\ \A c \in Collectors : at'[c] \notin {"copy", "prune", "commit"}
    BY <1>12 DEF LoseTable, TypeOK
  <2>2. \A c \in Collectors : at'[c] = "begin" => at[c] = "begin" /\ view' = view
    BY <1>12 DEF LoseTable, TypeOK
  <2> QED BY <2>1, <2>2 DEF OrderInv, RowsFollowTheCluster
<1>13. CASE Tick
  <2>1. UNCHANGED <<at, view, table>> /\ clock' = clock + 1
    BY <1>13 DEF Tick
  <2>2. \A r \in table : r.at \in Nat /\ clock \in Nat
    BY Times DEF TypeOK, Rows
  <2>3. \A r \in table' : r.at <= clock'
    BY <2>1, <2>2 DEF OrderInv
  <2> QED BY <2>1, <2>3 DEF OrderInv, RowsFollowTheCluster
<1>14. CASE UNCHANGED vars
  BY <1>14 DEF vars, OrderInv, RowsFollowTheCluster
<1> QED BY <1>4, <1>5, <1>6, <1>7, <1>8, <1>9, <1>10, <1>11, <1>12, <1>13, <1>14
        DEF Next, Collect

(* In the order of their dates a collector's rows show the cluster as it   *)
(* went on.                                                                *)
THEOREM RowsAreInOrder == Spec => []RowsFollowTheCluster
<1>1. OrderInv => RowsFollowTheCluster
  BY DEF OrderInv
<1> QED BY <1>1, TypeInit, TypeStep, OrderInit, OrderStep, PTL DEF Spec
=============================================================================
