----------------------- MODULE ControllerHandoverProofs -----------------------
(* However often the Go and the Kopf controller take over from each other, *)
(* for any set of specs.                                                   *)
EXTENDS ControllerHandover, SequenceTheorems, TLAPS

Modes == {"single", "clustered"}

LEMMA SpecMode == \A s \in Specs : s.mode \in Modes
  BY HandoverAssumption DEF Modes

-----------------------------------------------------------------------------
(* The order of the writes *)

LEMMA ApplySequence ==
    ASSUME NEW m \in Modes
    PROVE  /\ R!ApplyOrder(m) \in Seq(Objects)
           /\ Len(R!ApplyOrder(m)) \in Nat
           /\ Len(R!ApplyOrder(m)) > 0 /\ DOMAIN R!ApplyOrder(m) = 1..Len(R!ApplyOrder(m))
           /\ \A i \in 1..Len(R!ApplyOrder(m)) : R!ApplyOrder(m)[i] \in Objects
           /\ \A o \in R!StoreObjects(m) :
                o \in Objects /\ \E i \in 1..Len(R!ApplyOrder(m)) : R!ApplyOrder(m)[i] = o
<1> USE DEF R!ApplyOrder, R!StoreObjects, Objects, R!Objects, R!Workloads, R!Deployments,
            R!StatefulSets, R!Services
<1>1. CASE m = "single"
  BY <1>1
<1>2. CASE m = "clustered"
  <2>1. R!ApplyOrder(m) \in Seq(Objects) /\ Len(R!ApplyOrder(m)) = 9
    BY <1>2
  <2>2. /\ R!ApplyOrder(m)[6] = "routerService" /\ R!ApplyOrder(m)[7] = "workerService"
        /\ R!ApplyOrder(m)[8] = "routerStatefulSet" /\ R!ApplyOrder(m)[9] = "workerStatefulSet"
    BY <1>2
  <2> QED BY <1>2, <2>1, <2>2
<1> QED BY <1>1, <1>2 DEF Modes

LEMMA ApplyLength == ASSUME NEW m \in Modes PROVE \A k \in 1..5 : k \in DOMAIN R!ApplyOrder(m)
<1>1. CASE m = "single"
  BY <1>1 DEF R!ApplyOrder
<1>2. CASE m = "clustered"
  BY <1>2 DEF R!ApplyOrder
<1> QED BY <1>1, <1>2 DEF Modes

LEMMA RemoveSequence ==
    ASSUME NEW m \in Modes
    PROVE  /\ R!RemoveOrder(m) \in Seq(Objects)
           /\ Len(R!RemoveOrder(m)) \in Nat
           /\ Len(R!RemoveOrder(m)) > 0 /\ DOMAIN R!RemoveOrder(m) = 1..Len(R!RemoveOrder(m))
           /\ \A i \in 1..Len(R!RemoveOrder(m)) : R!RemoveOrder(m)[i] \in Objects
           /\ \A i \in 1..Len(R!RemoveOrder(m)) : \A j \in 1..Len(R!ApplyOrder(m)) :
                R!RemoveOrder(m)[i] # R!ApplyOrder(m)[j]
           /\ \A o \in Objects :
                \/ \E i \in 1..Len(R!ApplyOrder(m)) : R!ApplyOrder(m)[i] = o
                \/ \E i \in 1..Len(R!RemoveOrder(m)) : R!RemoveOrder(m)[i] = o
<1> USE DEF R!RemoveOrder, R!ApplyOrder, Objects, R!Objects, R!Workloads, R!Deployments,
            R!StatefulSets, R!Services
<1>1. CASE m = "single"
  BY <1>1
<1>2. CASE m = "clustered"
  BY <1>2
<1> QED BY <1>1, <1>2 DEF Modes

LEMMA StepsParts ==
    ASSUME NEW s, s.mode \in Modes
    PROVE  /\ Len(Steps(s)) = Len(R!ApplyOrder(s.mode)) + Len(R!RemoveOrder(s.mode))
           /\ \A i \in 1..Len(R!ApplyOrder(s.mode)) : Steps(s)[i] = R!ApplyOrder(s.mode)[i]
           /\ \A i \in 1..Len(R!RemoveOrder(s.mode)) :
                Steps(s)[Len(R!ApplyOrder(s.mode)) + i] = R!RemoveOrder(s.mode)[i]
           /\ \A i \in 1..Len(Steps(s)) : i > Len(R!ApplyOrder(s.mode)) =>
                \A j \in 1..Len(R!ApplyOrder(s.mode)) : Steps(s)[i] # R!ApplyOrder(s.mode)[j]
<1> DEFINE A == R!ApplyOrder(s.mode)
           B == R!RemoveOrder(s.mode)
<1>1. A \in Seq(Objects) /\ B \in Seq(Objects) /\ Len(A) \in Nat /\ Len(B) \in Nat
  BY ApplySequence, RemoveSequence
<1>2. Steps(s) = A \o B
  BY DEF Steps
<1>3. /\ \A i \in 1..Len(B) : \A j \in 1..Len(A) : B[i] # A[j]
  BY RemoveSequence
<1> HIDE DEF A, B
<1>4. /\ Len(A \o B) = Len(A) + Len(B)
      /\ \A i \in 1..(Len(A) + Len(B)) :
           (A \o B)[i] = IF i <= Len(A) THEN A[i] ELSE B[i - Len(A)]
  BY <1>1, ConcatProperties
<1>5. \A i \in 1..Len(A) : (A \o B)[i] = A[i]
  BY <1>1, <1>4
<1>6. \A i \in 1..Len(B) : (A \o B)[Len(A) + i] = B[i]
  <2> SUFFICES ASSUME NEW i \in 1..Len(B) PROVE (A \o B)[Len(A) + i] = B[i]
    OBVIOUS
  <2>1. Len(A) + i \in 1..(Len(A) + Len(B)) /\ ~(Len(A) + i <= Len(A)) /\ Len(A) + i - Len(A) = i
    BY <1>1
  <2> QED BY <1>4, <2>1
<1>7. ASSUME NEW i \in 1..Len(A \o B), i > Len(A), NEW j \in 1..Len(A)
      PROVE  (A \o B)[i] # A[j]
  <2>1. i - Len(A) \in 1..Len(B) /\ i \in 1..(Len(A) + Len(B)) /\ ~(i <= Len(A))
    BY <1>1, <1>4, <1>7
  <2> QED BY <1>3, <1>4, <2>1
<1> QED BY <1>2, <1>4, <1>5, <1>6, <1>7 DEF A, B

-----------------------------------------------------------------------------
(* Types *)

Typed(old) ==
    old \in [Keys -> Fields] /\ \A k \in Keys : old[k].value = None <=> old[k].owners = {}

LEMMA ValueType ==
    ASSUME NEW s \in Specs, NEW o, NEW k PROVE Value(s, o, k) \in {None, "set", "a", "b"}
<1>1. s.annotation \in {None, "a", "b"}
  BY HandoverAssumption
<1> QED BY <1>1 DEF Value

LEMMA NewField ==
    ASSUME NEW c \in Controllers, NEW v \in {"set", "a", "b"},
           NEW new, new = [value |-> v, owners |-> {c}]
    PROVE  new \in Fields /\ new.value = v /\ new.owners # {} /\ v # None
  BY HandoverAssumption DEF Fields

LEMMA UnsetField == Unset \in Fields /\ Unset.value = None /\ Unset.owners = {}
  BY DEF Unset, Fields

LEMMA FieldApplied ==
    ASSUME NEW old \in Fields, old.value = None <=> old.owners = {},
           NEW v \in {None, "set", "a", "b"}, NEW new, new = ServerSide(old, v)
    PROVE  /\ new \in Fields /\ (new.value = None <=> new.owners = {})
           /\ new.value # v => v = None /\ new.owners = {"kopf"}
<1>1. old.value \in {None, "set", "a", "b"} /\ old.owners \subseteq Controllers
  BY DEF Fields
<1>2. CASE v = None /\ old.owners \subseteq {"go"}
  BY <1>2, UnsetField DEF ServerSide
<1>3. CASE v = None /\ ~(old.owners \subseteq {"go"})
  <2>1. new = [old EXCEPT !.owners = old.owners \ {"go"}]
    BY <1>3 DEF ServerSide
  <2>2. old.owners \ {"go"} = {"kopf"}
    BY <1>1, <1>3 DEF Controllers
  <2>3. new.value = old.value /\ new.owners = {"kopf"}
    BY <2>1, <2>2 DEF Fields
  <2>4. new \in Fields
    BY <2>1, <2>2 DEF Fields, Controllers
  <2>5. old.value # None
    BY <1>3
  <2> QED BY <1>3, <2>3, <2>4, <2>5
<1>4. CASE v # None /\ old.value = v
  <2>1. new = [old EXCEPT !.owners = old.owners \cup {"go"}]
    BY <1>4 DEF ServerSide
  <2>2. old.owners \cup {"go"} \in SUBSET Controllers
    BY <1>1 DEF Controllers
  <2>3. new.value = v /\ new.owners = old.owners \cup {"go"}
    BY <1>4, <2>1 DEF Fields
  <2>4. new \in Fields
    BY <2>1, <2>2 DEF Fields
  <2> QED BY <1>4, <2>3, <2>4
<1>5. CASE v # None /\ old.value # v
  <2>1. new = [value |-> v, owners |-> {"go"}]
    BY <1>5 DEF ServerSide
  <2> QED BY <1>5, <2>1, NewField DEF Controllers
<1> QED BY <1>2, <1>3, <1>4, <1>5

LEMMA FieldMerged ==
    ASSUME NEW old \in Fields, old.value = None <=> old.owners = {},
           NEW v \in {None, "set", "a", "b"}, NEW k, NEW new, new = Merged(old, v, k)
    PROVE  /\ new \in Fields /\ (new.value = None <=> new.owners = {})
           /\ new.value # v => v = None /\ k \in MapKeys
<1>1. CASE v = old.value \/ (v = None /\ k \in MapKeys)
  BY <1>1 DEF Merged
<1>2. CASE ~(v = old.value \/ (v = None /\ k \in MapKeys)) /\ v = None
  BY <1>2, UnsetField DEF Merged
<1>3. CASE ~(v = old.value \/ (v = None /\ k \in MapKeys)) /\ v # None
  <2>1. new = [value |-> v, owners |-> {"kopf"}]
    BY <1>3 DEF Merged
  <2> QED BY <1>3, <2>1, NewField DEF Controllers
<1> QED BY <1>1, <1>2, <1>3

(* An object after a write has the fields the spec asks for.               *)
LEMMA ObjectWritten ==
    ASSUME NEW c \in Controllers, NEW s \in Specs, NEW o \in Objects,
           objs[o] = None \/ Typed(objs[o])
    PROVE  /\ Typed(Written(c, s, o)) /\ Written(c, s, o) # None
           /\ \A k \in Keys :
                Written(c, s, o)[k].value # Value(s, o, k) =>
                  /\ Value(s, o, k) = None
                  /\ c = "go" => Written(c, s, o)[k].owners = {"kopf"}
                  /\ c = "kopf" => k \in MapKeys
<1> DEFINE old == IF objs[o] = None THEN [k \in Keys |-> Unset] ELSE objs[o]
           new == Written(c, s, o)
<1>1. Typed(old)
  BY UnsetField DEF Typed
<1>2. new = [k \in Keys |-> IF c = "go" THEN ServerSide(old[k], Value(s, o, k))
                                        ELSE Merged(old[k], Value(s, o, k), k)]
  BY DEF Written
<1>3. ASSUME NEW k \in Keys
      PROVE  /\ new[k] \in Fields /\ (new[k].value = None <=> new[k].owners = {})
             /\ new[k].value # Value(s, o, k) =>
                  /\ Value(s, o, k) = None
                  /\ c = "go" => new[k].owners = {"kopf"}
                  /\ c = "kopf" => k \in MapKeys
  <2>1. old[k] \in Fields /\ (old[k].value = None <=> old[k].owners = {})
    BY <1>1 DEF Typed
  <2>2. Value(s, o, k) \in {None, "set", "a", "b"}
    BY ValueType
  <2>3. new[k] = IF c = "go" THEN ServerSide(old[k], Value(s, o, k))
                             ELSE Merged(old[k], Value(s, o, k), k)
    BY <1>2
  <2> HIDE DEF old, new
  <2>4. CASE c = "go"
    <3>1. new[k] = ServerSide(old[k], Value(s, o, k))
      BY <2>3, <2>4
    <3> QED BY <2>1, <2>2, <2>4, <3>1, FieldApplied
  <2>5. CASE c = "kopf"
    <3>1. new[k] = Merged(old[k], Value(s, o, k), k)
      BY <2>3, <2>5
    <3> QED BY <2>1, <2>2, <2>5, <3>1, FieldMerged
  <2> QED BY <2>4, <2>5 DEF Controllers
<1>4. new \in [Keys -> Fields]
  BY <1>2, <1>3
<1>5. new # None
  BY <1>4, HandoverAssumption
<1> QED BY <1>3, <1>4, <1>5 DEF Typed


(* The calls of Kopf leave such objects, too, of the spec they have. *)
AsAsked(objects, s, o) ==
    /\ objects[o] # None
    /\ \A k \in Keys : objects[o][k].value # Value(s, o, k) => Value(s, o, k) = None /\ k \in MapKeys

LEMMA KopfWritten ==
    ASSUME NEW s \in Specs, NEW o \in Objects, objs[o] = None \/ Typed(objs[o]), NEW new,
           new = [objs EXCEPT ![o] = Written("kopf", s, o)], DOMAIN objs = Objects
    PROVE  AsAsked(new, s, o) /\ Typed(new[o])
<1>1. new[o] = Written("kopf", s, o)
  OBVIOUS
<1>2. "kopf" \in Controllers
  BY DEF Controllers
<1> QED BY <1>1, <1>2, ObjectWritten DEF AsAsked

-----------------------------------------------------------------------------
(* What a pass of Go does to the objects *)

ObjsTyped(objects) == \A o \in Objects : objects[o] = None \/ Typed(objects[o])

LEMMA TypedObjs == TypeOK => ObjsTyped(objs)
  BY DEF TypeOK, ObjsTyped, Typed

(* After n of the writes; what was removed was not wanted, and then all    *)
(* that is wanted was written before.                                      *)
Effect(n) ==
    LET s       == cluster.spec
        done    == {Steps(s)[i] : i \in 1..n}
        wanted  == {R!ApplyOrder(s.mode)[i] : i \in DOMAIN R!ApplyOrder(s.mode)}
    IN objs' = [o \in Objects |-> IF o \notin done THEN objs[o]
                                  ELSE IF o \in wanted THEN Written("go", s, o)
                                  ELSE None]

(* What the API server takes: every object of the spec. *)
Taken(s) == \A i \in 1..Len(R!ApplyOrder(s.mode)) : ~Refused(s, R!ApplyOrder(s.mode)[i])

LEMMA PassCases ==
    ASSUME TypeOK, Pass
    PROVE  \/ /\ GoAccepts(cluster.spec)
              /\ \E n \in 0..Len(Steps(cluster.spec)) :
                   /\ Effect(n)
                   /\ complete' = (n = Len(Steps(cluster.spec)))
                   /\ verdict' = IF n = Len(Steps(cluster.spec))
                                 THEN [verdict EXCEPT !["go"] = "applied"] ELSE verdict
                   /\ n = Len(Steps(cluster.spec)) => Taken(cluster.spec)
           \/ /\ ~GoAccepts(cluster.spec)
              /\ verdict' = [verdict EXCEPT !["go"] = "rejected"]
              /\ complete' = FALSE /\ objs' = objs
<1>1. CASE ~GoAccepts(cluster.spec)
  BY <1>1 DEF Pass
<1>2. CASE GoAccepts(cluster.spec)
  <2>1. PICK n \in Reach(cluster.spec) :
          /\ Effect(n)
          /\ complete' = (n = Len(Steps(cluster.spec)))
          /\ verdict' = IF n = Len(Steps(cluster.spec))
                        THEN [verdict EXCEPT !["go"] = "applied"] ELSE verdict
    BY <1>2 DEF Pass, Effect
  <2>2. cluster.spec.mode \in Modes
    BY SpecMode DEF TypeOK
  <2>3. /\ n \in 0..Len(Steps(cluster.spec))
        /\ \A i \in 1..n : i <= Len(R!ApplyOrder(cluster.spec.mode)) =>
                              ~Refused(cluster.spec, Steps(cluster.spec)[i])
    BY DEF Reach
  <2>4. ASSUME n = Len(Steps(cluster.spec)) PROVE Taken(cluster.spec)
    <3> SUFFICES ASSUME NEW i \in 1..Len(R!ApplyOrder(cluster.spec.mode))
                 PROVE  ~Refused(cluster.spec, R!ApplyOrder(cluster.spec.mode)[i])
      BY DEF Taken
    <3>1. /\ Len(R!ApplyOrder(cluster.spec.mode)) \in Nat
          /\ Len(R!RemoveOrder(cluster.spec.mode)) \in Nat
      BY <2>2, ApplySequence, RemoveSequence
    <3>2. /\ Len(Steps(cluster.spec)) = Len(R!ApplyOrder(cluster.spec.mode))
                                        + Len(R!RemoveOrder(cluster.spec.mode))
          /\ Steps(cluster.spec)[i] = R!ApplyOrder(cluster.spec.mode)[i]
      BY <2>2, StepsParts
    <3>3. i \in 1..n /\ i <= Len(R!ApplyOrder(cluster.spec.mode))
      BY <2>4, <3>1, <3>2
    <3> QED BY <2>3, <3>2, <3>3
  <2> QED BY <1>2, <2>1, <2>3, <2>4
<1> QED BY <1>1, <1>2

LEMMA EffectOnObject ==
    ASSUME TypeOK, NEW n \in 0..Len(Steps(cluster.spec)), Effect(n), NEW o \in Objects
    PROVE  /\ objs'[o] = objs[o] \/ objs'[o] = Written("go", cluster.spec, o) \/ objs'[o] = None
           /\ objs'[o] = None /\ objs[o] # None =>
                \A q \in R!StoreObjects(cluster.spec.mode) : objs'[q] # None
           /\ n = Len(Steps(cluster.spec)) =>
                /\ Wanted(o) => objs'[o] = Written("go", cluster.spec, o)
                /\ ~Wanted(o) => objs'[o] = None
<1> DEFINE s       == cluster.spec
           A       == R!ApplyOrder(s.mode)
           done    == {Steps(s)[i] : i \in 1..n}
           wanted  == {A[i] : i \in DOMAIN A}
<1>1. s \in Specs /\ s.mode \in Modes
  BY SpecMode DEF TypeOK
<1>2. /\ A \in Seq(Objects) /\ Len(A) \in Nat /\ Len(R!RemoveOrder(s.mode)) \in Nat
      /\ DOMAIN A = 1..Len(A) /\ Len(Steps(s)) \in Nat
      /\ Len(Steps(s)) = Len(A) + Len(R!RemoveOrder(s.mode))
  BY <1>1, ApplySequence, RemoveSequence, StepsParts
<1>3. \A q \in Objects : objs'[q] = IF q \notin done THEN objs[q]
                                    ELSE IF q \in wanted THEN Written("go", s, q) ELSE None
  BY DEF Effect
<1>4. ASSUME objs'[o] = None, objs[o] # None, NEW q \in R!StoreObjects(s.mode)
      PROVE  objs'[q] # None
  <2>1. \A q2 \in Objects : Written("go", s, q2) # None
    BY <1>1, ObjectWritten, TypedObjs DEF ObjsTyped, Controllers
  <2>2. o \in done /\ o \notin wanted
    BY <1>3, <1>4, <2>1
  <2>3. PICK i \in 1..n : o = Steps(s)[i]
    BY <2>2
  <2>4. i > Len(A)
    <3> SUFFICES ASSUME i \in 1..Len(A) PROVE FALSE
      BY <1>2
    <3>1. o = A[i]
      BY <1>1, <2>3, StepsParts
    <3> QED BY <1>2, <2>2, <3>1
  <2>5. PICK j \in 1..Len(A) : A[j] = q
    BY <1>1, ApplySequence
  <2>6. q \in Objects
    BY <1>1, ApplySequence
  <2>7. Steps(s)[j] = q /\ j \in 1..n
    <3>1. Steps(s)[j] = A[j]
      BY <1>1, StepsParts
    <3> QED BY <1>2, <2>4, <2>5, <3>1
  <2>8. q \in done /\ q \in wanted
    BY <1>2, <2>5, <2>7
  <2> QED BY <1>3, <2>1, <2>6, <2>8
<1>5. ASSUME n = Len(Steps(s))
      PROVE  /\ Wanted(o) => objs'[o] = Written("go", s, o)
             /\ ~Wanted(o) => objs'[o] = None
  <2>1. Wanted(o) <=> o \in wanted
    BY DEF Wanted
  <2>2. \A i \in 1..Len(A) : Steps(s)[i] = A[i] /\ i \in 1..n
    BY <1>1, <1>2, <1>5, StepsParts
  <2>3. ASSUME NEW i \in 1..Len(R!RemoveOrder(s.mode)), R!RemoveOrder(s.mode)[i] = o
        PROVE  o \in done
    <3>1. Steps(s)[Len(A) + i] = R!RemoveOrder(s.mode)[i]
      BY <1>1, StepsParts
    <3>2. Len(A) + i \in 1..n
      BY <1>2, <1>5
    <3> QED BY <2>3, <3>1, <3>2
  <2>4. o \in done
    <3>1. \/ \E i \in 1..Len(A) : A[i] = o
          \/ \E i \in 1..Len(R!RemoveOrder(s.mode)) : R!RemoveOrder(s.mode)[i] = o
      BY <1>1, RemoveSequence
    <3> QED BY <2>2, <2>3, <3>1
  <2> QED BY <1>3, <2>1, <2>4
<1> QED BY <1>3, <1>4, <1>5

-----------------------------------------------------------------------------
(* Types, and at which write a call of Kopf can be *)

FitsCall(r) ==
    r # None =>
      /\ r \in Call
      /\ r.pc = "apply" => /\ DOMAIN r.plan = DOMAIN R!ApplyOrder(r.spec.mode)
                           /\ r.step \in DOMAIN R!ApplyOrder(r.spec.mode)
      /\ r.pc = "remove" => r.step \in DOMAIN R!RemoveOrder(r.spec.mode)

CallsFit == DOMAIN calls = Callers /\ calls = [c \in Callers |-> calls[c]]
            /\ \A c \in Callers : FitsCall(calls[c])

(* While a call is under way, Kopf runs and the cluster is there. *)
AtWork == \A c \in Callers : calls[c] # None =>
             running = "kopf" /\ cluster.finalizer /\ cluster.phase # "gone"

IInv == TypeOK /\ CallsFit /\ AtWork

LEMMA PlanType ==
    ASSUME NEW n \in Nat, NEW f, f \in [1..n -> Specs]
    PROVE  f \in Seq(Specs) /\ Len(f) = n /\ DOMAIN f = 1..n
  BY DEF Seq

LEMMA NoPlan == <<>> \in Seq(Specs)
  OBVIOUS

LEMMA Crossing ==
    ASSUME NEW r, FitsCall(r), r # None
    PROVE  /\ FitsCall([r EXCEPT !.crossed = TRUE]) /\ [r EXCEPT !.crossed = TRUE].crossed = TRUE
           /\ [r EXCEPT !.crossed = TRUE].spec = r.spec
<1> DEFINE q == [r EXCEPT !.crossed = TRUE]
<1>1. r \in Call
  BY DEF FitsCall
<1>2. q \in Call /\ q.pc = r.pc /\ q.step = r.step /\ q.plan = r.plan /\ q.spec = r.spec
      /\ q.crossed = TRUE
  BY <1>1 DEF Call
<1> HIDE DEF q
<1>3. FitsCall(q)
  BY <1>2 DEF FitsCall
<1> QED BY <1>2, <1>3 DEF q

(* What Proceed does to the calls.                                         *)
LEMMA Proceeding ==
    ASSUME CallsFit, NEW c \in Callers, NEW next, Proceed(c, next)
    PROVE  /\ calls'[c] = next
           /\ \A d \in Callers \ {c} :
                /\ FitsCall(calls'[d])
                /\ calls[d] = None => calls'[d] = None
                /\ objs' = objs => calls'[d] = calls[d]
                /\ objs' # objs => calls'[d] = None \/ calls'[d].crossed
           /\ FitsCall(next) => CallsFit'
<1>1. calls' = [d \in Callers |->
                  IF d = c THEN next
                  ELSE IF calls[d] # None /\ objs' # objs THEN [calls[d] EXCEPT !.crossed = TRUE]
                  ELSE calls[d]]
  BY DEF Proceed
<1>2. ASSUME NEW d \in Callers \ {c}
      PROVE  /\ FitsCall(calls'[d])
             /\ calls[d] = None => calls'[d] = None
             /\ objs' = objs => calls'[d] = calls[d]
             /\ objs' # objs => calls'[d] = None \/ calls'[d].crossed
  <2>1. FitsCall(calls[d])
    BY DEF CallsFit
  <2>2. CASE calls[d] # None /\ objs' # objs
    <3>1. calls'[d] = [calls[d] EXCEPT !.crossed = TRUE]
      BY <1>1, <2>2
    <3> QED BY <2>1, <2>2, <3>1, Crossing
  <2>3. CASE ~(calls[d] # None /\ objs' # objs)
    <3>1. calls'[d] = calls[d]
      BY <1>1, <2>3
    <3> QED BY <2>1, <2>3, <3>1
  <2> QED BY <2>2, <2>3
<1>3. ASSUME FitsCall(next) PROVE CallsFit'
  <2>1. calls'[c] = next
    BY <1>1
  <2>2. \A d \in Callers : FitsCall(calls'[d])
    BY <1>2, <1>3, <2>1
  <2>3. DOMAIN calls' = Callers /\ calls' = [d \in Callers |-> calls'[d]]
    BY <1>1
  <2> QED BY <2>2, <2>3 DEF CallsFit, FitsCall
<1> QED BY <1>1, <1>2, <1>3

(* One call changes and the others do not.                                 *)
LEMMA OneCall ==
    ASSUME CallsFit, NEW c \in Callers, NEW next, FitsCall(next),
           calls' = [calls EXCEPT ![c] = next]
    PROVE  CallsFit' /\ calls'[c] = next /\ \A d \in Callers \ {c} : calls'[d] = calls[d]
<1>1. DOMAIN calls' = Callers /\ calls' = [d \in Callers |-> calls'[d]]
  BY DEF CallsFit
<1>2. \A d \in Callers : calls'[d] = IF d = c THEN next ELSE calls[d]
  BY DEF CallsFit
<1>3. \A d \in Callers : FitsCall(calls'[d])
  BY <1>2 DEF CallsFit
<1> QED BY <1>1, <1>2, <1>3 DEF CallsFit, FitsCall

LEMMA FitsTyped ==
    ASSUME CallsFit
    PROVE  /\ calls \in [Callers -> Call \cup {None}]
           /\ \A c \in Callers : calls[c] # None =>
                calls[c].step \in IF calls[c].pc = "apply" THEN DOMAIN calls[c].plan
                                  ELSE DOMAIN R!RemoveOrder(calls[c].spec.mode)
<1>1. \A c \in Callers : calls[c] # None => calls[c].pc \in {"apply", "remove"}
  BY DEF CallsFit, FitsCall, Call
<1> QED BY <1>1 DEF CallsFit, FitsCall

(* The call of an action, and its parts.                                   *)
LEMMA TheCall ==
    ASSUME IInv, NEW c \in Callers, calls[c] # None
    PROVE  /\ FitsCall(calls[c]) /\ calls[c] \in Call
           /\ calls[c].spec \in Specs /\ calls[c].spec.mode \in Modes /\ calls[c].step \in Nat \ {0}
           /\ calls[c].plan \in Seq(Specs) /\ calls[c].crossed \in BOOLEAN
           /\ running = "kopf" /\ cluster.finalizer /\ cluster.phase # "gone"
           /\ Views(c) \subseteq Specs
<1>1. FitsCall(calls[c]) /\ calls[c] \in Call
  BY DEF IInv, CallsFit, FitsCall
<1>2. cluster.spec \in Specs
  BY DEF IInv, TypeOK
<1>3. calls[c].spec \in Specs
  BY <1>1 DEF Call
<1>4. running = "kopf" /\ cluster.finalizer /\ cluster.phase # "gone"
  BY DEF IInv, AtWork
<1>5. Views(c) \subseteq Specs
  BY <1>2, <1>3 DEF Views
<1> QED BY <1>1, <1>3, <1>4, <1>5, SpecMode DEF Call

(* What each step of a call makes of it.                                   *)
LEMMA BeginCall ==
    ASSUME IInv, NEW c \in Callers, KopfBegin(c), KopfAccepts(cluster.spec), NEW next,
           next = [pc |-> "apply", step |-> 1, spec |-> cluster.spec, crossed |-> FALSE,
                   plan |-> [k \in DOMAIN R!ApplyOrder(cluster.spec.mode) |-> cluster.spec]]
    PROVE  /\ calls' = [calls EXCEPT ![c] = next] /\ FitsCall(next)
           /\ next.pc = "apply" /\ next.step = 1 /\ next.spec = cluster.spec
           /\ \A k \in DOMAIN R!ApplyOrder(cluster.spec.mode) : next.plan[k] = cluster.spec
<1> DEFINE s == cluster.spec
           n == Len(R!ApplyOrder(s.mode))
<1>1. s \in Specs /\ s.mode \in Modes
  BY SpecMode DEF IInv, TypeOK
<1>2. DOMAIN R!ApplyOrder(s.mode) = 1..n /\ n \in Nat /\ n > 0
  BY <1>1, ApplySequence
<1>3. next.plan \in [1..n -> Specs]
  BY <1>1, <1>2
<1>4. next.plan \in Seq(Specs)
  BY <1>2, <1>3, PlanType
<1>5. next \in Call
  BY <1>1, <1>4 DEF Call
<1>6. FitsCall(next)
  BY <1>2, <1>3, <1>5 DEF FitsCall
<1>7. calls' = [calls EXCEPT ![c] = next]
  BY DEF KopfBegin
<1> QED BY <1>6, <1>7

LEMMA RereadCall ==
    ASSUME IInv, NEW c \in Callers, KopfRereads(c)
    PROVE  \E next : calls' = [calls EXCEPT ![c] = next] /\ FitsCall(next) /\ next.crossed
<1>1. PICK s \in Views(c) \ {calls[c].spec}, n \in 0..5 :
        calls' = [calls EXCEPT ![c].spec = s, ![c].crossed = TRUE,
                               ![c].plan = [k \in DOMAIN R!ApplyOrder(s.mode) |->
                                               IF k <= n THEN calls[c].plan[k] ELSE s]]
  BY DEF KopfRereads
<1>2. calls[c] # None /\ calls[c].pc = "apply" /\ calls[c].step = 1
  BY DEF KopfRereads
<1> DEFINE r    == calls[c]
           plan == [k \in DOMAIN R!ApplyOrder(s.mode) |-> IF k <= n THEN r.plan[k] ELSE s]
           next == [r EXCEPT !.spec = s, !.crossed = TRUE, !.plan = plan]
<1>3. s \in Specs /\ s.mode \in Modes /\ r.spec.mode \in Modes /\ r \in Call /\ FitsCall(r)
  BY <1>2, TheCall, SpecMode
<1>4. /\ DOMAIN R!ApplyOrder(s.mode) = 1..Len(R!ApplyOrder(s.mode))
      /\ Len(R!ApplyOrder(s.mode)) \in Nat /\ Len(R!ApplyOrder(s.mode)) > 0
  BY <1>3, ApplySequence
<1>5. r.plan \in Seq(Specs) /\ DOMAIN r.plan = DOMAIN R!ApplyOrder(r.spec.mode)
  BY <1>2, <1>3 DEF Call, FitsCall
<1>6. \A k \in 1..5 : k \in DOMAIN R!ApplyOrder(r.spec.mode)
  BY <1>3, ApplyLength
<1>7. \A k \in 1..5 : r.plan[k] \in Specs
  BY <1>5, <1>6
<1>8. plan \in [1..Len(R!ApplyOrder(s.mode)) -> Specs]
  BY <1>3, <1>4, <1>7
<1>9. plan \in Seq(Specs)
  BY <1>4, <1>8, PlanType
<1> HIDE DEF plan
<1>10. next \in Call /\ next.pc = "apply" /\ next.step = 1 /\ next.spec = s /\ next.plan = plan
       /\ next.crossed
  BY <1>2, <1>3, <1>9 DEF Call
<1>11. FitsCall(next)
  BY <1>4, <1>8, <1>10 DEF FitsCall
<1>12. calls' = [calls EXCEPT ![c] = next]
  BY <1>1 DEF plan, IInv, CallsFit
<1> QED BY <1>10, <1>11, <1>12

LEMMA ApplyCall ==
    ASSUME IInv, NEW c \in Callers, KopfApply(c), NEW r, r = calls[c],
           NEW o, o = R!ApplyOrder(r.spec.mode)[r.step]
    PROVE  /\ o \in Objects /\ r.plan[r.step] \in Specs /\ ~Refused(r.plan[r.step], o)
           /\ objs' = [objs EXCEPT ![o] = Written("kopf", r.plan[r.step], o)]
           /\ \E next :
                /\ Proceed(c, next) /\ FitsCall(next)
                /\ ~next.crossed => ~r.crossed /\ next.spec = r.spec
                /\ \/ /\ r.step < Len(R!ApplyOrder(r.spec.mode))
                      /\ next.pc = "apply" /\ next.step = r.step + 1 /\ next.plan = r.plan
                   \/ /\ r.step = Len(R!ApplyOrder(r.spec.mode))
                      /\ next.pc = "remove" /\ next.step = 1
<1>1. r # None /\ r.pc = "apply"
  BY DEF KopfApply
<1>2. r \in Call /\ FitsCall(r) /\ r.spec.mode \in Modes /\ r.plan \in Seq(Specs)
      /\ r.crossed \in BOOLEAN /\ Views(c) \subseteq Specs
  BY <1>1, TheCall
<1>3. /\ DOMAIN R!ApplyOrder(r.spec.mode) = 1..Len(R!ApplyOrder(r.spec.mode))
      /\ Len(R!ApplyOrder(r.spec.mode)) \in Nat
      /\ \A i \in 1..Len(R!ApplyOrder(r.spec.mode)) : R!ApplyOrder(r.spec.mode)[i] \in Objects
  BY <1>2, ApplySequence
<1>4. DOMAIN r.plan = 1..Len(R!ApplyOrder(r.spec.mode)) /\ r.step \in DOMAIN r.plan
  BY <1>1, <1>2, <1>3 DEF FitsCall
<1>5. Len(r.plan) = Len(R!ApplyOrder(r.spec.mode))
  BY <1>2, <1>3, <1>4
<1>6. o \in Objects /\ r.plan[r.step] \in Specs
  BY <1>2, <1>3, <1>4
<1>7. ~Refused(r.plan[r.step], o) /\ objs' = [objs EXCEPT ![o] = Written("kopf", r.plan[r.step], o)]
  BY DEF KopfApply
<1>8. CASE r.step < Len(r.plan)
  <2> DEFINE next == [r EXCEPT !.step = r.step + 1]
  <2>1. next \in Call /\ next.pc = "apply" /\ next.step = r.step + 1 /\ next.plan = r.plan
        /\ next.spec = r.spec
    BY <1>1, <1>2, <1>3, <1>4 DEF Call
  <2>2. ~next.crossed => ~r.crossed
    BY <1>2 DEF Call
  <2>3. Proceed(c, next)
    BY <1>8 DEF KopfApply
  <2> HIDE DEF next
  <2>4. FitsCall(next)
    BY <1>3, <1>4, <1>5, <1>8, <2>1 DEF FitsCall
  <2> QED BY <1>5, <1>6, <1>7, <1>8, <2>1, <2>2, <2>3, <2>4
<1>9. CASE ~(r.step < Len(r.plan))
  <2>1. PICK view \in Views(c) :
          Proceed(c, [r EXCEPT !.pc = "remove", !.step = 1, !.spec = view, !.plan = <<>>,
                               !.crossed = r.crossed \/ view # r.spec])
    BY <1>9 DEF KopfApply
  <2>2. view \in Specs /\ view.mode \in Modes
    BY <1>2, SpecMode
  <2>3. PICK x \in BOOLEAN, e \in Seq(Specs) : x = (r.crossed \/ view # r.spec) /\ e = <<>>
    BY NoPlan
  <2>4. PICK next : next = [r EXCEPT !.pc = "remove", !.step = 1, !.spec = view, !.plan = e,
                                     !.crossed = x]
    OBVIOUS
  <2>5. next \in Call /\ next.pc = "remove" /\ next.step = 1 /\ next.spec = view
        /\ next.crossed = x
    <3>1. r = [pc |-> r.pc, step |-> r.step, plan |-> r.plan, spec |-> r.spec, crossed |-> r.crossed]
      BY <1>2 DEF Call
    <3>2. next = [pc |-> "remove", step |-> 1, plan |-> e, spec |-> view, crossed |-> x]
      BY <2>4, <3>1, Zenon
    <3> QED BY <2>2, <2>3, <3>2 DEF Call
  <2>6. 1 \in DOMAIN R!RemoveOrder(view.mode)
    BY <2>2, RemoveSequence
  <2>7. FitsCall(next)
    BY <2>5, <2>6 DEF FitsCall
  <2>8. r.step = Len(R!ApplyOrder(r.spec.mode))
    BY <1>3, <1>4, <1>5, <1>9
  <2>9. Proceed(c, next)
    BY <2>1, <2>3, <2>4
  <2>10. ~next.crossed => ~r.crossed /\ next.spec = r.spec
    BY <2>3, <2>5
  <2> QED BY <1>6, <1>7, <2>5, <2>7, <2>8, <2>9, <2>10
<1> QED BY <1>8, <1>9

LEMMA RemoveCall ==
    ASSUME IInv, NEW c \in Callers, KopfRemove(c), NEW r, r = calls[c],
           NEW B, B = R!RemoveOrder(r.spec.mode)
    PROVE  /\ B[r.step] \in Objects /\ objs' = [objs EXCEPT ![B[r.step]] = None]
           /\ \/ /\ r.step < Len(B) /\ complete' = FALSE /\ UNCHANGED verdict
                 /\ Proceed(c, [r EXCEPT !.step = r.step + 1])
                 /\ FitsCall([r EXCEPT !.step = r.step + 1])
              \/ /\ r.step = Len(B)
                 /\ Proceed(c, None) /\ FitsCall(None)
                 /\ complete' = (~r.crossed /\ r.spec = cluster.spec)
                 /\ verdict' = IF complete' THEN [verdict EXCEPT !["kopf"] = "applied"] ELSE verdict
<1>1. r # None /\ r.pc = "remove"
  BY DEF KopfRemove
<1>2. r \in Call /\ FitsCall(r) /\ r.spec.mode \in Modes
  BY <1>1, TheCall
<1>3. DOMAIN B = 1..Len(B) /\ Len(B) \in Nat /\ \A i \in 1..Len(B) : B[i] \in Objects
  BY <1>2, RemoveSequence
<1>4. r.step \in 1..Len(B)
  BY <1>1, <1>2, <1>3 DEF FitsCall
<1>5. objs' = [objs EXCEPT ![B[r.step]] = None]
  BY DEF KopfRemove
<1>6. CASE r.step < Len(B)
  <2> DEFINE next == [r EXCEPT !.step = r.step + 1]
  <2>1. next \in Call /\ next.pc = "remove" /\ next.step = r.step + 1 /\ next.spec = r.spec
    BY <1>1, <1>2, <1>4 DEF Call
  <2>2. FitsCall(next)
    BY <1>3, <1>4, <1>6, <2>1 DEF FitsCall
  <2>3. Proceed(c, next) /\ complete' = FALSE /\ UNCHANGED verdict
    BY <1>6 DEF KopfRemove
  <2> QED BY <1>3, <1>4, <1>5, <1>6, <2>2, <2>3
<1>7. CASE ~(r.step < Len(B))
  <2>1. /\ Proceed(c, None)
        /\ complete' = (~r.crossed /\ r.spec = cluster.spec)
        /\ verdict' = IF complete' THEN [verdict EXCEPT !["kopf"] = "applied"] ELSE verdict
    BY <1>7 DEF KopfRemove
  <2>2. FitsCall(None)
    BY DEF FitsCall
  <2> QED BY <1>3, <1>4, <1>5, <1>7, <2>1, <2>2
<1> QED BY <1>6, <1>7

LEMMA TypeInit == Init => IInv
<1> SUFFICES ASSUME Init PROVE IInv
  OBVIOUS
<1>1. cluster \in [spec: Specs, phase: {"live", "terminating", "gone"}, finalizer: BOOLEAN]
  <2>1. PICK s \in Specs : cluster = [spec |-> s, phase |-> "live", finalizer |-> FALSE]
    BY DEF Init
  <2> QED BY <2>1
<1>2. generation \in 1..MaxGeneration /\ disturbances \in 0..MaxDisturbances
  BY HandoverAssumption DEF Init
<1>3. DOMAIN objs = Objects /\ \A o \in Objects : objs[o] = None
  BY DEF Init
<1>4. verdict \in [Controllers -> {"none", "rejected", "applied"}]
  BY DEF Init
<1>5. running \in Controllers \cup {None} /\ complete \in BOOLEAN
  BY DEF Init
<1>6. CallsFit /\ \A c \in Callers : calls[c] = None
  BY DEF Init, NoCalls, CallsFit, FitsCall
<1>7. TypeOK
  BY <1>1, <1>2, <1>3, <1>4, <1>5, <1>6, FitsTyped DEF TypeOK
<1> QED BY <1>6, <1>7 DEF IInv, AtWork

(* The parts of TypeOK that a call does not touch, and those it does.      *)
LEMMA TypeFrom ==
    ASSUME IInv, ObjsTyped(objs'), DOMAIN objs' = Objects, CallsFit', complete' \in BOOLEAN,
           verdict' \in [Controllers -> {"none", "rejected", "applied"}],
           running' \in Controllers \cup {None},
           cluster' \in [spec: Specs, phase: {"live", "terminating", "gone"}, finalizer: BOOLEAN],
           generation' \in 1..MaxGeneration, disturbances' \in 0..MaxDisturbances
    PROVE  TypeOK'
<1>1. CallsFit' => /\ calls' \in [Callers -> Call \cup {None}]
                   /\ \A c \in Callers : calls'[c] # None =>
                        calls'[c].step \in IF calls'[c].pc = "apply" THEN DOMAIN calls'[c].plan
                                           ELSE DOMAIN R!RemoveOrder(calls'[c].spec.mode)
  <2>1. ASSUME CallsFit' PROVE \A c \in Callers : calls'[c] # None => calls'[c].pc \in {"apply", "remove"}
    BY <2>1 DEF CallsFit, FitsCall, Call
  <2> QED BY <2>1 DEF CallsFit, FitsCall
<1> QED BY <1>1 DEF TypeOK, ObjsTyped, Typed

LEMMA StillTyped ==
    ASSUME IInv
    PROVE  /\ ObjsTyped(objs) /\ DOMAIN objs = Objects /\ CallsFit /\ complete \in BOOLEAN
           /\ verdict \in [Controllers -> {"none", "rejected", "applied"}]
           /\ running \in Controllers \cup {None}
           /\ cluster \in [spec: Specs, phase: {"live", "terminating", "gone"}, finalizer: BOOLEAN]
           /\ generation \in 1..MaxGeneration /\ disturbances \in 0..MaxDisturbances
  BY TypedObjs DEF IInv, TypeOK

(* Verdicts are changed at one key at a time.                              *)
LEMMA VerdictTyped ==
    ASSUME NEW v \in [Controllers -> {"none", "rejected", "applied"}], NEW c \in Controllers,
           NEW x \in {"none", "rejected", "applied"}
    PROVE  [v EXCEPT ![c] = x] \in [Controllers -> {"none", "rejected", "applied"}]
  OBVIOUS

LEMMA TypeCalls ==
    ASSUME IInv, NEW c \in Callers, KopfBegin(c) \/ KopfStep(c)
    PROVE  IInv'
<1>0. "kopf" \in Controllers
  BY DEF Controllers
<1>1. CASE KopfBegin(c)
  <2>1. running = "kopf" /\ cluster.finalizer /\ cluster.phase # "gone"
    BY <1>1 DEF KopfBegin
  <2>2. CASE KopfAccepts(cluster.spec)
    <3>1. CallsFit' /\ verdict' = verdict
      BY <1>1, <2>2, BeginCall, OneCall, StillTyped DEF KopfBegin
    <3>2. UNCHANGED <<running, cluster, generation, objs, disturbances>> /\ complete' = FALSE
      BY <1>1 DEF KopfBegin
    <3>3. TypeOK'
      BY <3>1, <3>2, StillTyped, TypeFrom DEF ObjsTyped
    <3> QED BY <2>1, <3>1, <3>2, <3>3 DEF IInv, AtWork
  <2>3. CASE ~KopfAccepts(cluster.spec)
    <3>1. calls' = calls /\ verdict' = [verdict EXCEPT !["kopf"] = "rejected"]
      BY <1>1, <2>3 DEF KopfBegin
    <3>2. UNCHANGED <<running, cluster, generation, objs, disturbances>> /\ complete' = FALSE
      BY <1>1 DEF KopfBegin
    <3>3. CallsFit'
      BY <3>1, StillTyped DEF CallsFit, FitsCall
    <3>4. verdict' \in [Controllers -> {"none", "rejected", "applied"}]
      BY <1>0, <3>1, StillTyped, VerdictTyped
    <3>5. TypeOK'
      BY <3>2, <3>3, <3>4, StillTyped, TypeFrom DEF ObjsTyped
    <3> QED BY <3>1, <3>2, <3>3, <3>5 DEF IInv, AtWork
  <2> QED BY <2>2, <2>3
<1>2. CASE KopfRereads(c)
  <2>1. PICK next : calls' = [calls EXCEPT ![c] = next] /\ FitsCall(next)
    BY <1>2, RereadCall
  <2>2. CallsFit' /\ \A d \in Callers \ {c} : calls'[d] = calls[d]
    BY <2>1, OneCall, StillTyped
  <2>3. UNCHANGED <<running, cluster, generation, objs, verdict, disturbances>> /\ complete' = FALSE
    BY <1>2 DEF KopfRereads
  <2>4. TypeOK'
    BY <2>2, <2>3, StillTyped, TypeFrom DEF ObjsTyped
  <2>5. running = "kopf" /\ cluster.finalizer /\ cluster.phase # "gone"
    BY <1>2, TheCall DEF KopfRereads
  <2> QED BY <2>2, <2>3, <2>4, <2>5 DEF IInv, AtWork
<1>3. CASE KopfApply(c)
  <2>0. PICK r, o : r = calls[c] /\ o = R!ApplyOrder(r.spec.mode)[r.step]
    OBVIOUS
  <2>1. /\ o \in Objects /\ r.plan[r.step] \in Specs
        /\ objs' = [objs EXCEPT ![o] = Written("kopf", r.plan[r.step], o)]
        /\ \E next : Proceed(c, next) /\ FitsCall(next)
    BY <1>3, <2>0, ApplyCall
  <2>2. CallsFit'
    BY <2>1, Proceeding, StillTyped
  <2>3. UNCHANGED <<running, cluster, generation, verdict, disturbances>> /\ complete' = FALSE
    BY <1>3 DEF KopfApply
  <2>4. ObjsTyped(objs') /\ DOMAIN objs' = Objects
    <3>1. Typed(objs'[o])
      BY <2>1, KopfWritten, StillTyped DEF ObjsTyped
    <3>2. \A q \in Objects : q # o => objs'[q] = objs[q]
      BY <2>1, StillTyped
    <3> QED BY <2>1, <3>1, <3>2, StillTyped DEF ObjsTyped
  <2>5. TypeOK'
    BY <2>2, <2>3, <2>4, StillTyped, TypeFrom
  <2>6. running = "kopf" /\ cluster.finalizer /\ cluster.phase # "gone"
    BY <1>3, TheCall DEF KopfApply
  <2> QED BY <2>2, <2>3, <2>5, <2>6 DEF IInv, AtWork
<1>4. CASE KopfRemove(c)
  <2>0. PICK r, B : r = calls[c] /\ B = R!RemoveOrder(r.spec.mode)
    OBVIOUS
  <2>1. /\ B[r.step] \in Objects /\ objs' = [objs EXCEPT ![B[r.step]] = None]
        /\ \E next : Proceed(c, next) /\ FitsCall(next)
        /\ complete' \in BOOLEAN
        /\ verdict' = verdict \/ verdict' = [verdict EXCEPT !["kopf"] = "applied"]
    BY <1>4, <2>0, RemoveCall
  <2>2. CallsFit'
    BY <2>1, Proceeding, StillTyped
  <2>3. UNCHANGED <<running, cluster, generation, disturbances>>
    BY <1>4 DEF KopfRemove
  <2>4. ObjsTyped(objs') /\ DOMAIN objs' = Objects
    BY <2>1, StillTyped DEF ObjsTyped
  <2>5. verdict' \in [Controllers -> {"none", "rejected", "applied"}]
    BY <1>0, <2>1, StillTyped, VerdictTyped
  <2>6. TypeOK'
    BY <2>1, <2>2, <2>3, <2>4, <2>5, StillTyped, TypeFrom
  <2>7. running = "kopf" /\ cluster.finalizer /\ cluster.phase # "gone"
    BY <1>4, TheCall DEF KopfRemove
  <2> QED BY <2>2, <2>3, <2>6, <2>7 DEF IInv, AtWork
<1>5. CASE KopfFail(c)
  <2>1. FitsCall(None)
    BY DEF FitsCall
  <2>2. CallsFit' /\ \A d \in Callers : calls'[d] = calls[d] \/ calls'[d] = None
    BY <1>5, <2>1, OneCall, StillTyped DEF KopfFail
  <2>3. UNCHANGED <<running, cluster, generation, objs, verdict>> /\ complete' = FALSE
    BY <1>5 DEF KopfFail
  <2>4. disturbances' \in 0..MaxDisturbances
    BY <1>5, StillTyped, HandoverAssumption DEF KopfFail, Disturbance
  <2>5. TypeOK'
    BY <2>2, <2>3, <2>4, StillTyped, TypeFrom DEF ObjsTyped
  <2> QED BY <2>2, <2>3, <2>5, StillTyped DEF IInv, AtWork
<1> QED BY <1>1, <1>2, <1>3, <1>4, <1>5 DEF KopfStep

LEMMA TypeStep == IInv /\ [Next]_vars => IInv'
<1> SUFFICES ASSUME IInv, [Next]_vars PROVE IInv'
  OBVIOUS
<1>1. CASE Pass
  <2>1. ObjsTyped(objs') /\ DOMAIN objs' = Objects
    <3>1. CASE objs' = objs
      BY <3>1, StillTyped DEF ObjsTyped
    <3>2. ASSUME NEW n \in 0..Len(Steps(cluster.spec)), Effect(n)
          PROVE  ObjsTyped(objs') /\ DOMAIN objs' = Objects
      <4>1. ASSUME NEW o \in Objects PROVE objs'[o] = None \/ Typed(objs'[o])
        <5>1. cluster.spec \in Specs /\ (objs[o] = None \/ Typed(objs[o])) /\ TypeOK
          BY StillTyped DEF ObjsTyped, IInv
        <5> QED BY <3>2, <5>1, EffectOnObject, ObjectWritten DEF Controllers
      <4> QED BY <3>2, <4>1 DEF ObjsTyped, Effect
    <3> QED BY <1>1, <3>1, <3>2, PassCases DEF IInv
  <2>2. verdict' \in [Controllers -> {"none", "rejected", "applied"}] /\ complete' \in BOOLEAN
    <3>1. \/ verdict' = verdict
          \/ verdict' = [verdict EXCEPT !["go"] = "applied"]
          \/ verdict' = [verdict EXCEPT !["go"] = "rejected"]
      BY <1>1, PassCases DEF IInv
    <3>2. complete' \in BOOLEAN
      BY <1>1, PassCases DEF IInv
    <3>3. "go" \in Controllers
      BY DEF Controllers
    <3> QED BY <3>1, <3>2, <3>3, StillTyped, VerdictTyped
  <2>3. UNCHANGED <<running, cluster, generation, calls, disturbances>>
    BY <1>1 DEF Pass
  <2>4. CallsFit'
    BY <2>3, StillTyped DEF CallsFit, FitsCall
  <2>5. TypeOK'
    BY <2>1, <2>2, <2>3, <2>4, StillTyped, TypeFrom
  <2> QED BY <2>3, <2>4, <2>5 DEF IInv, AtWork
<1>2. ASSUME NEW c \in Callers, KopfBegin(c) \/ KopfStep(c) PROVE IInv'
  BY <1>2, TypeCalls
<1>3. ASSUME NEW c \in Controllers, Start(c) PROVE IInv'
  <2>1. /\ running = None /\ running' = c /\ disturbances' \in 0..MaxDisturbances
        /\ UNCHANGED <<cluster, generation, objs, calls, verdict, complete>>
    BY <1>3, StillTyped, HandoverAssumption DEF Start, Disturbance
  <2>2. CallsFit'
    BY <2>1, StillTyped DEF CallsFit, FitsCall
  <2>3. TypeOK'
    BY <2>1, <2>2, StillTyped, TypeFrom DEF ObjsTyped
  <2>4. \A d \in Callers : calls[d] = None
    BY <2>1, HandoverAssumption DEF IInv, AtWork
  <2> QED BY <2>1, <2>2, <2>3, <2>4 DEF IInv, AtWork
<1>4. CASE AddFinalizer \/ RemoveFinalizer \/ UpdateSpec \/ Delete
  <2>1. calls' = calls /\ running' = running /\ objs' = objs /\ disturbances' = disturbances
        /\ complete' \in BOOLEAN
    BY <1>4, StillTyped DEF AddFinalizer, RemoveFinalizer, UpdateSpec, Delete
  <2>2. CallsFit'
    BY <2>1, StillTyped DEF CallsFit, FitsCall
  <2>3. cluster' \in [spec: Specs, phase: {"live", "terminating", "gone"}, finalizer: BOOLEAN]
    <3>1. CASE AddFinalizer
      BY <3>1, StillTyped DEF AddFinalizer
    <3>2. CASE RemoveFinalizer
      BY <3>2, StillTyped DEF RemoveFinalizer
    <3>3. CASE Delete
      BY <3>3, StillTyped DEF Delete
    <3>4. CASE UpdateSpec
      <4>1. PICK s \in Specs : cluster' = [cluster EXCEPT !.spec = s]
        BY <3>4 DEF UpdateSpec
      <4> QED BY <4>1, StillTyped
    <3> QED BY <1>4, <3>1, <3>2, <3>3, <3>4
  <2>4. generation' \in 1..MaxGeneration
    BY <1>4, StillTyped, HandoverAssumption
       DEF AddFinalizer, RemoveFinalizer, UpdateSpec, Delete
  <2>5. verdict' \in [Controllers -> {"none", "rejected", "applied"}]
    BY <1>4, StillTyped DEF AddFinalizer, RemoveFinalizer, UpdateSpec, Delete
  <2>6. TypeOK'
    BY <2>1, <2>2, <2>3, <2>4, <2>5, StillTyped, TypeFrom DEF ObjsTyped
  <2>7. ASSUME NEW c \in Callers, calls'[c] # None
        PROVE  running' = "kopf" /\ cluster'.finalizer /\ cluster'.phase # "gone"
    <3>1. running = "kopf" /\ cluster.finalizer /\ cluster.phase # "gone" /\ calls # NoCalls
      BY <2>1, <2>7 DEF IInv, AtWork, NoCalls
    <3> QED BY <1>4, <2>1, <3>1, StillTyped DEF AddFinalizer, RemoveFinalizer, UpdateSpec, Delete
  <2> QED BY <2>2, <2>6, <2>7 DEF IInv, AtWork
<1>5. CASE Stop
  <2>1. /\ running' = None /\ calls' = NoCalls /\ complete' = FALSE
        /\ UNCHANGED <<cluster, generation, objs, verdict, disturbances>>
    BY <1>5 DEF Stop
  <2>2. CallsFit' /\ \A c \in Callers : calls'[c] = None
    BY <2>1 DEF NoCalls, CallsFit, FitsCall
  <2>3. TypeOK'
    BY <2>1, <2>2, StillTyped, TypeFrom DEF ObjsTyped
  <2> QED BY <2>2, <2>3 DEF IInv, AtWork
<1>6. CASE Collect
  <2>1. /\ \A o \in Objects : objs'[o] = None \/ objs'[o] = objs[o]
        /\ DOMAIN objs' = Objects
        /\ UNCHANGED <<running, cluster, generation, calls, verdict, complete, disturbances>>
    BY <1>6 DEF Collect
  <2>2. CallsFit' /\ ObjsTyped(objs')
    BY <2>1, StillTyped DEF CallsFit, FitsCall, ObjsTyped
  <2>3. TypeOK'
    BY <2>1, <2>2, StillTyped, TypeFrom
  <2> QED BY <2>1, <2>2, <2>3 DEF IInv, AtWork
<1>7. CASE UNCHANGED vars
  <2>1. TypeOK' /\ CallsFit'
    BY <1>7 DEF vars, IInv, TypeOK, CallsFit, FitsCall
  <2> QED BY <1>7, <2>1 DEF vars, IInv, AtWork
<1> QED BY <1>1, <1>2, <1>3, <1>4, <1>5, <1>6, <1>7 DEF Next

(* The types: no field has a value that nobody owns, and every call of     *)
(* Kopf is at a write of its own spec.                                     *)
THEOREM HandoverTypes == Spec => []TypeOK
<1>1. IInv => TypeOK
  BY DEF IInv
<1> QED BY <1>1, TypeInit, TypeStep, PTL DEF Spec

-----------------------------------------------------------------------------
(* What a call that nothing has crossed has done so far *)

(* It carries out one spec, which it has accepted: what it has applied is  *)
(* as that spec asks, and what it has removed is gone.                     *)
WorksFor(objects, r) ==
    /\ KopfAccepts(r.spec)
    /\ r.pc = "apply" => \A k \in 1..Len(R!ApplyOrder(r.spec.mode)) : r.plan[k] = r.spec
    /\ \A i \in 1..Len(R!ApplyOrder(r.spec.mode)) : (r.pc = "apply" => i < r.step) =>
         /\ AsAsked(objects, r.spec, R!ApplyOrder(r.spec.mode)[i])
         /\ ~Refused(r.spec, R!ApplyOrder(r.spec.mode)[i])
    /\ r.pc = "remove" => \A i \in 1..Len(R!RemoveOrder(r.spec.mode)) :
                             i < r.step => objects[R!RemoveOrder(r.spec.mode)[i]] = None

WorkInv == \A c \in Callers : calls[c] # None /\ ~calls[c].crossed => WorksFor(objs, calls[c])

LEMMA ApplyWork ==
    ASSUME IInv, WorkInv, NEW c \in Callers, KopfApply(c), ~calls[c].crossed
    PROVE  \E next : Proceed(c, next) /\ FitsCall(next) /\ (~next.crossed => WorksFor(objs', next))
<1>1. PICK r, o : r = calls[c] /\ o = R!ApplyOrder(r.spec.mode)[r.step]
  OBVIOUS
<1>2. r # None /\ r.pc = "apply"
  BY <1>1 DEF KopfApply
<1>3. r \in Call /\ FitsCall(r) /\ r.spec \in Specs /\ r.spec.mode \in Modes
  BY <1>1, <1>2, TheCall
<1> DEFINE A == R!ApplyOrder(r.spec.mode)
<1>4. DOMAIN A = 1..Len(A) /\ Len(A) \in Nat /\ \A i \in 1..Len(A) : A[i] \in Objects
  BY <1>3, ApplySequence
<1>5. r.step \in 1..Len(A)
  BY <1>2, <1>3, <1>4 DEF FitsCall
<1>6. WorksFor(objs, r)
  BY <1>1, <1>2 DEF WorkInv
<1>7. r.plan[r.step] = r.spec
  BY <1>2, <1>5, <1>6 DEF WorksFor
<1>8. o \in Objects /\ ~Refused(r.spec, o) /\ objs' = [objs EXCEPT ![o] = Written("kopf", r.spec, o)]
  BY <1>1, <1>7, ApplyCall
<1>9. AsAsked(objs', r.spec, o)
  BY <1>3, <1>8, KopfWritten, StillTyped DEF ObjsTyped
<1>10. \A i \in 1..Len(A) : i <= r.step => AsAsked(objs', r.spec, A[i]) /\ ~Refused(r.spec, A[i])
  <2> SUFFICES ASSUME NEW i \in 1..Len(A), i <= r.step
               PROVE  AsAsked(objs', r.spec, A[i]) /\ ~Refused(r.spec, A[i])
    OBVIOUS
  <2>1. CASE A[i] = o
    BY <1>8, <1>9, <2>1
  <2>2. CASE A[i] # o
    <3>1. i < r.step
      BY <1>1, <1>5, <2>2
    <3>2. AsAsked(objs, r.spec, A[i]) /\ ~Refused(r.spec, A[i])
      BY <1>6, <3>1 DEF WorksFor
    <3>3. objs'[A[i]] = objs[A[i]]
      BY <1>4, <1>8, <2>2, StillTyped
    <3> QED BY <3>2, <3>3 DEF AsAsked
  <2> QED BY <2>1, <2>2
<1>11. PICK next :
         /\ Proceed(c, next) /\ FitsCall(next)
         /\ ~next.crossed => ~r.crossed /\ next.spec = r.spec
         /\ \/ /\ r.step < Len(A)
               /\ next.pc = "apply" /\ next.step = r.step + 1 /\ next.plan = r.plan
            \/ r.step = Len(A) /\ next.pc = "remove" /\ next.step = 1
  BY <1>1, ApplyCall
<1>12. ASSUME ~next.crossed PROVE WorksFor(objs', next)
  <2>0. next.spec = r.spec
    BY <1>11, <1>12
  <2>1. CASE /\ r.step < Len(A)
             /\ next.pc = "apply" /\ next.step = r.step + 1 /\ next.plan = r.plan
    <3>1. \A i \in 1..Len(A) : i < r.step + 1 => i <= r.step
      BY <1>4, <1>5
    <3> QED BY <1>2, <1>6, <1>10, <2>0, <2>1, <3>1 DEF WorksFor
  <2>2. CASE r.step = Len(A) /\ next.pc = "remove" /\ next.step = 1
    <3>1. \A i \in 1..Len(A) : i <= r.step
      BY <1>4, <2>2
    <3>2. \A i \in 1..Len(R!RemoveOrder(r.spec.mode)) : ~(i < 1)
      BY <1>3, RemoveSequence
    <3> QED BY <1>6, <1>10, <2>0, <2>2, <3>1, <3>2 DEF WorksFor
  <2> QED BY <1>11, <2>1, <2>2
<1> QED BY <1>11, <1>12

LEMMA RemoveWork ==
    ASSUME IInv, WorkInv, NEW c \in Callers, KopfRemove(c), ~calls[c].crossed,
           NEW r, r = calls[c]
    PROVE  /\ KopfAccepts(r.spec) /\ Taken(r.spec)
           /\ \A i \in 1..Len(R!ApplyOrder(r.spec.mode)) :
                AsAsked(objs', r.spec, R!ApplyOrder(r.spec.mode)[i])
           /\ \A i \in 1..Len(R!RemoveOrder(r.spec.mode)) :
                i <= r.step => objs'[R!RemoveOrder(r.spec.mode)[i]] = None
           /\ r.step < Len(R!RemoveOrder(r.spec.mode)) => WorksFor(objs', [r EXCEPT !.step = r.step + 1])
<1>1. r # None /\ r.pc = "remove"
  BY DEF KopfRemove
<1>2. r \in Call /\ FitsCall(r) /\ r.spec \in Specs /\ r.spec.mode \in Modes
  BY <1>1, TheCall
<1> DEFINE A == R!ApplyOrder(r.spec.mode)
           B == R!RemoveOrder(r.spec.mode)
<1>3. /\ DOMAIN B = 1..Len(B) /\ Len(B) \in Nat /\ \A i \in 1..Len(B) : B[i] \in Objects
      /\ \A i \in 1..Len(B) : \A j \in 1..Len(A) : B[i] # A[j]
  BY <1>2, RemoveSequence
<1>4. Len(A) \in Nat /\ \A i \in 1..Len(A) : A[i] \in Objects
  BY <1>2, ApplySequence
<1>5. r.step \in 1..Len(B)
  BY <1>1, <1>2, <1>3 DEF FitsCall
<1>6. WorksFor(objs, r)
  BY <1>1 DEF WorkInv
<1>7. objs' = [objs EXCEPT ![B[r.step]] = None]
  BY RemoveCall
<1>8. ASSUME NEW i \in 1..Len(A)
      PROVE  AsAsked(objs', r.spec, A[i]) /\ ~Refused(r.spec, A[i])
  <2>1. AsAsked(objs, r.spec, A[i]) /\ ~Refused(r.spec, A[i])
    BY <1>1, <1>6 DEF WorksFor
  <2>2. objs'[A[i]] = objs[A[i]]
    BY <1>3, <1>4, <1>5, <1>7, StillTyped
  <2> QED BY <2>1, <2>2 DEF AsAsked
<1>9. ASSUME NEW i \in 1..Len(B), i <= r.step PROVE objs'[B[i]] = None
  <2>1. CASE B[i] = B[r.step]
    BY <1>3, <1>5, <1>7, <2>1, StillTyped
  <2>2. CASE B[i] # B[r.step]
    <3>1. i < r.step
      BY <1>5, <1>9, <2>2
    <3>2. objs[B[i]] = None
      BY <1>1, <1>6, <3>1 DEF WorksFor
    <3> QED BY <1>3, <1>7, <2>2, <3>2, StillTyped
  <2> QED BY <2>1, <2>2
<1>10. ASSUME r.step < Len(B), NEW next, next = [r EXCEPT !.step = r.step + 1]
       PROVE  WorksFor(objs', next)
  <2>1. next.pc = "remove" /\ next.step = r.step + 1 /\ next.spec = r.spec
    BY <1>1, <1>2, <1>10 DEF Call
  <2>2. \A i \in 1..Len(B) : i < r.step + 1 => i <= r.step
    BY <1>3, <1>5
  <2> QED BY <1>6, <1>8, <1>9, <2>1, <2>2 DEF WorksFor
<1> QED BY <1>6, <1>8, <1>9, <1>10 DEF WorksFor, Taken

LEMMA WorkStep == IInv /\ WorkInv /\ [Next]_vars => WorkInv'
<1> SUFFICES ASSUME IInv, WorkInv, [Next]_vars PROVE WorkInv'
  OBVIOUS
<1>1. CASE calls' = calls /\ objs' = objs
  BY <1>1 DEF WorkInv
<1>2. CASE \A c \in Callers : calls'[c] = None
  BY <1>2 DEF WorkInv
<1>3. CASE Pass \/ Collect
  <2>1. ASSUME NEW c \in Callers PROVE calls'[c] = None
    <3>1. CASE Pass
      BY <3>1 DEF Pass, IInv, AtWork
    <3>2. CASE Collect
      BY <3>2 DEF Collect, IInv, AtWork
    <3> QED BY <1>3, <3>1, <3>2
  <2> QED BY <1>2, <2>1
<1>4. ASSUME NEW c \in Callers, KopfBegin(c) PROVE WorkInv'
  <2>1. objs' = objs
    BY <1>4 DEF KopfBegin
  <2>2. CASE ~KopfAccepts(cluster.spec)
    BY <1>1, <1>4, <2>1, <2>2 DEF KopfBegin
  <2>3. CASE KopfAccepts(cluster.spec)
    <3>1. PICK next : next = [pc |-> "apply", step |-> 1, spec |-> cluster.spec, crossed |-> FALSE,
                              plan |-> [k \in DOMAIN R!ApplyOrder(cluster.spec.mode) |-> cluster.spec]]
      OBVIOUS
    <3>2. /\ calls' = [calls EXCEPT ![c] = next] /\ FitsCall(next)
          /\ next.pc = "apply" /\ next.step = 1 /\ next.spec = cluster.spec
          /\ \A k \in DOMAIN R!ApplyOrder(cluster.spec.mode) : next.plan[k] = cluster.spec
      BY <1>4, <2>3, <3>1, BeginCall
    <3>3. /\ DOMAIN R!ApplyOrder(cluster.spec.mode) = 1..Len(R!ApplyOrder(cluster.spec.mode))
          /\ Len(R!ApplyOrder(cluster.spec.mode)) \in Nat
      BY ApplySequence, SpecMode DEF IInv, TypeOK
    <3>4. \A i \in 1..Len(R!ApplyOrder(cluster.spec.mode)) : ~(i < 1)
      BY <3>3
    <3>5. WorksFor(objs, next)
      BY <2>3, <3>2, <3>3, <3>4 DEF WorksFor
    <3>6. calls'[c] = next /\ \A d \in Callers \ {c} : calls'[d] = calls[d]
      BY <3>2, OneCall, StillTyped
    <3> QED BY <2>1, <3>5, <3>6 DEF WorkInv
  <2> QED BY <2>2, <2>3
<1>5. ASSUME NEW c \in Callers, KopfRereads(c) \/ KopfFail(c) PROVE WorkInv'
  <2>1. objs' = objs
    BY <1>5 DEF KopfRereads, KopfFail
  <2>2. FitsCall(None)
    BY DEF FitsCall
  <2>3. PICK next : /\ calls' = [calls EXCEPT ![c] = next] /\ FitsCall(next)
                    /\ next = None \/ next.crossed
    BY <1>5, <2>2, RereadCall DEF KopfFail
  <2>4. calls'[c] = next /\ \A d \in Callers \ {c} : calls'[d] = calls[d]
    BY <2>3, OneCall, StillTyped
  <2> QED BY <2>1, <2>3, <2>4 DEF WorkInv
<1>6. ASSUME NEW c \in Callers, NEW next, Proceed(c, next),
             next # None /\ ~next.crossed => WorksFor(objs', next)
      PROVE  WorkInv'
  <2>1. /\ calls'[c] = next
        /\ \A d \in Callers \ {c} :
             /\ objs' = objs => calls'[d] = calls[d]
             /\ objs' # objs => calls'[d] = None \/ calls'[d].crossed
    BY <1>6, Proceeding, StillTyped
  <2> SUFFICES ASSUME NEW d \in Callers, calls'[d] # None, ~calls'[d].crossed
               PROVE  WorksFor(objs', calls'[d])
    BY DEF WorkInv
  <2>2. CASE d = c
    BY <1>6, <2>1, <2>2
  <2>3. CASE d # c
    BY <2>1, <2>3 DEF WorkInv
  <2> QED BY <2>2, <2>3
<1>7. ASSUME NEW c \in Callers, KopfApply(c) PROVE WorkInv'
  <2>1. CASE ~calls[c].crossed
    BY <1>6, <1>7, <2>1, ApplyWork
  <2>2. CASE calls[c].crossed
    <3>1. PICK r, o : r = calls[c] /\ o = R!ApplyOrder(r.spec.mode)[r.step]
      OBVIOUS
    <3>2. PICK next : Proceed(c, next) /\ (~next.crossed => ~r.crossed)
      BY <1>7, <3>1, ApplyCall
    <3> QED BY <1>6, <2>2, <3>1, <3>2
  <2> QED BY <2>1, <2>2
<1>8. ASSUME NEW c \in Callers, KopfRemove(c) PROVE WorkInv'
  <2>1. PICK r, B : r = calls[c] /\ B = R!RemoveOrder(r.spec.mode)
    OBVIOUS
  <2>2. r \in Call
    BY <1>8, <2>1, TheCall DEF KopfRemove
  <2>3. [r EXCEPT !.step = r.step + 1].crossed = r.crossed
    BY <2>2 DEF Call
  <2>4. \/ r.step < Len(B) /\ Proceed(c, [r EXCEPT !.step = r.step + 1])
        \/ Proceed(c, None)
    BY <1>8, <2>1, RemoveCall
  <2>5. CASE Proceed(c, None)
    BY <1>6, <2>5
  <2>6. CASE r.step < Len(B) /\ Proceed(c, [r EXCEPT !.step = r.step + 1])
    <3>1. CASE r.crossed
      BY <1>6, <2>3, <2>6, <3>1
    <3>2. CASE ~r.crossed
      <4>1. WorksFor(objs', [r EXCEPT !.step = r.step + 1])
        BY <1>8, <2>1, <2>6, <3>2, RemoveWork
      <4> QED BY <1>6, <2>6, <4>1
    <3> QED BY <3>1, <3>2
  <2> QED BY <2>4, <2>5, <2>6
<1>9. CASE Stop
  BY <1>2, <1>9 DEF Stop, NoCalls
<1> QED BY <1>1, <1>3, <1>4, <1>5, <1>7, <1>8, <1>9
        DEF Next, KopfStep, Start, AddFinalizer, RemoveFinalizer, UpdateSpec, Delete, vars

LEMMA WorkInit == Init => WorkInv
  BY DEF Init, NoCalls, WorkInv

-----------------------------------------------------------------------------
(* The store *)

CrossedRemoval == \E c \in Callers : calls[c] # None /\ calls[c].crossed /\ KopfRemove(c)

StoreStep == HasStore /\ ~HasStore' /\ cluster'.phase # "gone" => CrossedRemoval

(* Writes alone leave a store in place.                                    *)
LEMMA WritesKeepStore ==
    ASSUME HasStore, \A o \in Objects : objs[o] # None => objs'[o] # None
    PROVE  HasStore'
<1>1. PICK mode \in Modes : \A o \in R!StoreObjects(mode) : objs[o] # None
  BY DEF HasStore, Modes
<1>2. \A o \in R!StoreObjects(mode) : objs'[o] # None
  BY <1>1, ApplySequence
<1> QED BY <1>2 DEF HasStore, Modes

LEMMA StoreStays == IInv /\ WorkInv /\ [Next]_vars => StoreStep
<1> SUFFICES ASSUME IInv, WorkInv, [Next]_vars, HasStore, cluster'.phase # "gone", ~CrossedRemoval
             PROVE HasStore'
  BY DEF StoreStep
<1>1. CASE objs' = objs
  BY <1>1 DEF HasStore
<1>2. ASSUME Pass, objs' # objs PROVE HasStore'
  <2>1. PICK n \in 0..Len(Steps(cluster.spec)) : Effect(n)
    BY <1>2, PassCases DEF IInv
  <2>2. PICK mode \in Modes : \A o \in R!StoreObjects(mode) : objs[o] # None
    BY DEF HasStore, Modes
  <2>3. \A o \in R!StoreObjects(mode) : o \in Objects
    BY ApplySequence
  <2>4. CASE \A o \in R!StoreObjects(mode) : objs'[o] # None
    BY <2>4 DEF HasStore, Modes
  <2>5. ASSUME NEW o \in R!StoreObjects(mode), objs'[o] = None PROVE HasStore'
    <3>1. \A q \in R!StoreObjects(cluster.spec.mode) : objs'[q] # None
      BY <2>1, <2>2, <2>3, <2>5, EffectOnObject DEF IInv
    <3>2. cluster.spec.mode \in Modes
      BY SpecMode DEF IInv, TypeOK
    <3> QED BY <3>1, <3>2 DEF HasStore, Modes
  <2> QED BY <2>4, <2>5
<1>3. ASSUME NEW c \in Callers, KopfApply(c) PROVE HasStore'
  <2>1. PICK r, o : r = calls[c] /\ o = R!ApplyOrder(r.spec.mode)[r.step]
    OBVIOUS
  <2>2. /\ o \in Objects /\ r.plan[r.step] \in Specs
        /\ objs' = [objs EXCEPT ![o] = Written("kopf", r.plan[r.step], o)]
    BY <1>3, <2>1, ApplyCall
  <2>3. AsAsked(objs', r.plan[r.step], o)
    BY <2>2, KopfWritten, StillTyped DEF ObjsTyped
  <2>4. \A q \in Objects : objs[q] # None => objs'[q] # None
    BY <2>2, <2>3, StillTyped DEF AsAsked
  <2> QED BY <2>4, WritesKeepStore
<1>4. ASSUME NEW c \in Callers, KopfRemove(c) PROVE HasStore'
  <2>1. PICK r : r = calls[c]
    OBVIOUS
  <2>2. r # None /\ ~r.crossed
    BY <1>4, <2>1 DEF KopfRemove, CrossedRemoval
  <2>3. r.spec.mode \in Modes
    BY <2>1, <2>2, TheCall
  <2>4. \A i \in 1..Len(R!ApplyOrder(r.spec.mode)) :
          AsAsked(objs', r.spec, R!ApplyOrder(r.spec.mode)[i])
    BY <1>4, <2>1, <2>2, RemoveWork
  <2>5. \A o \in R!StoreObjects(r.spec.mode) : objs'[o] # None
    BY <2>3, <2>4, ApplySequence DEF AsAsked
  <2> QED BY <2>3, <2>5 DEF HasStore, Modes
<1>5. CASE Collect
  BY <1>5 DEF Collect
<1> QED BY <1>1, <1>2, <1>3, <1>4, <1>5
        DEF Next, KopfBegin, KopfStep, KopfRereads, KopfFail, Start, AddFinalizer, RemoveFinalizer,
            Stop, UpdateSpec, Delete, vars

(* Whatever was stopped before, neither the Go controller nor a Kopf call  *)
(* left alone takes the last store of a live cluster.                      *)
THEOREM HandoverStoreNeedsCrossing == Spec => StoreNeedsCrossing
<1>1. IInv /\ WorkInv /\ [Next]_vars => [StoreStep]_vars
  BY StoreStays
<1>2. [][StoreStep]_vars => StoreNeedsCrossing
  BY PTL DEF StoreNeedsCrossing, StoreStep, CrossedRemoval
<1> QED BY <1>1, <1>2, TypeInit, TypeStep, WorkInit, WorkStep, PTL DEF Spec

-----------------------------------------------------------------------------
(* Verdicts *)

(* An applied spec was accepted by its controller and by the API server.   *)
VerdictInv ==
    /\ verdict["go"] = "rejected" => ~GoAccepts(cluster.spec)
    /\ verdict["go"] = "applied" => GoAccepts(cluster.spec) /\ Taken(cluster.spec)
    /\ verdict["kopf"] = "rejected" => ~KopfAccepts(cluster.spec)
    /\ verdict["kopf"] = "applied" => KopfAccepts(cluster.spec) /\ Taken(cluster.spec)

LEMMA VerdictInit == Init => VerdictInv
  BY DEF Init, VerdictInv, Controllers

LEMMA VerdictStep == IInv /\ WorkInv /\ VerdictInv /\ [Next]_vars => VerdictInv'
<1> SUFFICES ASSUME IInv, WorkInv, VerdictInv, [Next]_vars PROVE VerdictInv'
  OBVIOUS
<1>1. ASSUME cluster'.spec = cluster.spec,
             \/ verdict' = verdict
             \/ verdict' = [verdict EXCEPT !["go"] = "rejected"] /\ ~GoAccepts(cluster.spec)
             \/ /\ verdict' = [verdict EXCEPT !["go"] = "applied"]
                /\ GoAccepts(cluster.spec) /\ Taken(cluster.spec)
             \/ verdict' = [verdict EXCEPT !["kopf"] = "rejected"] /\ ~KopfAccepts(cluster.spec)
             \/ /\ verdict' = [verdict EXCEPT !["kopf"] = "applied"]
                /\ KopfAccepts(cluster.spec) /\ Taken(cluster.spec)
      PROVE  VerdictInv'
  <2>1. DOMAIN verdict = {"go", "kopf"}
    BY StillTyped DEF Controllers
  <2>2. PICK s : s = cluster.spec /\ s = cluster'.spec
    BY <1>1
  <2>3. /\ verdict'["go"] = "rejected" => ~GoAccepts(s)
        /\ verdict'["go"] = "applied" => GoAccepts(s) /\ Taken(s)
        /\ verdict'["kopf"] = "rejected" => ~KopfAccepts(s)
        /\ verdict'["kopf"] = "applied" => KopfAccepts(s) /\ Taken(s)
    BY <1>1, <2>1, <2>2 DEF VerdictInv
  <2> QED BY <2>2, <2>3 DEF VerdictInv
<1>2. CASE Pass
  <2>1. cluster' = cluster
    BY <1>2 DEF Pass
  <2> QED BY <1>1, <1>2, <2>1, PassCases DEF IInv
<1>3. ASSUME NEW c \in Callers, KopfBegin(c) PROVE VerdictInv'
  BY <1>1, <1>3 DEF KopfBegin
<1>4. ASSUME NEW c \in Callers, KopfRemove(c) PROVE VerdictInv'
  <2>1. PICK r, B : r = calls[c] /\ B = R!RemoveOrder(r.spec.mode)
    OBVIOUS
  <2>2. cluster' = cluster
    BY <1>4 DEF KopfRemove
  <2>3. \/ verdict' = verdict
        \/ ~r.crossed /\ r.spec = cluster.spec /\ verdict' = [verdict EXCEPT !["kopf"] = "applied"]
    BY <1>4, <2>1, RemoveCall
  <2>4. ~r.crossed => KopfAccepts(r.spec) /\ Taken(r.spec)
    BY <1>4, <2>1, RemoveWork
  <2> QED BY <1>1, <2>2, <2>3, <2>4
<1>5. CASE UpdateSpec
  BY <1>5 DEF UpdateSpec, VerdictInv, Controllers
<1>6. CASE AddFinalizer \/ RemoveFinalizer \/ Delete
  <2>1. cluster'.spec = cluster.spec /\ verdict' = verdict
    BY <1>6, StillTyped DEF AddFinalizer, RemoveFinalizer, Delete
  <2> QED BY <1>1, <2>1
<1>7. CASE UNCHANGED <<cluster, verdict>>
  BY <1>1, <1>7
<1> QED BY <1>2, <1>3, <1>4, <1>5, <1>6, <1>7
        DEF Next, KopfStep, KopfRereads, KopfApply, KopfFail, Start, Stop, Collect, vars

(* Each list of objects has a store container among them.                  *)
LEMMA AStore == \A m \in Modes : \E i \in 1..Len(R!ApplyOrder(m)) : R!ApplyOrder(m)[i] \in Stores
<1>1. R!StoreObjects("single") = {"storeService", "storeDeployment"}
  BY DEF R!StoreObjects
<1>2. "routerStatefulSet" \in R!StoreObjects("clustered")
  BY DEF R!StoreObjects
<1> QED BY <1>1, <1>2, ApplySequence DEF Modes, Stores

(* For every spec, what one controller has applied the other accepts,      *)
(* except that Kopf rejects a scratch size of zero.                        *)
THEOREM VerdictsAgree == Spec => []OnlyZeroScratchDivides
<1>1. IInv /\ VerdictInv => OnlyZeroScratchDivides
  <2> SUFFICES ASSUME IInv, VerdictInv PROVE OnlyZeroScratchDivides
    OBVIOUS
  <2>1. /\ cluster.spec.scratch \in {"unset", "positive", "zero", "negative", "lenient", "malformed"}
        /\ cluster.spec.mode \in Modes
    BY HandoverAssumption, SpecMode DEF IInv, TypeOK
  <2>2. Taken(cluster.spec) => cluster.spec.scratch \notin {"negative", "lenient", "malformed"}
    BY <2>1, AStore DEF Taken, Refused
  <2>3. /\ verdict["go"] = "applied" /\ verdict["kopf"] = "rejected" =>
             Taken(cluster.spec) /\ GoAccepts(cluster.spec) /\ ~KopfAccepts(cluster.spec)
        /\ verdict["kopf"] = "applied" /\ verdict["go"] = "rejected" =>
             Taken(cluster.spec) /\ ~GoAccepts(cluster.spec) /\ KopfAccepts(cluster.spec)
    BY DEF VerdictInv
  <2> QED BY <2>1, <2>2, <2>3 DEF GoAccepts, KopfAccepts, OnlyZeroScratchDivides
<1> QED BY <1>1, TypeInit, TypeStep, WorkInit, WorkStep, VerdictInit, VerdictStep, PTL DEF Spec

-----------------------------------------------------------------------------
(* What is left over *)

LeftoverInv ==
    /\ complete => running \in Controllers /\ cluster.phase # "gone"
    /\ LeftoversAreKnown

LEMMA LeftoverInit == Init => LeftoverInv
  BY DEF Init, LeftoverInv, LeftoversAreKnown

(* The objects as a complete pass or an uncrossed call leaves them.        *)
LEMMA LeftoverFrom ==
    ASSUME running' \in Controllers, cluster' = cluster, cluster.phase # "gone",
           \A o \in Objects :
             /\ objs'[o] # None <=> Wanted(o)
             /\ Wanted(o) => \A k \in Keys : objs'[o][k].value # Value(cluster.spec, o, k) =>
                  /\ Value(cluster.spec, o, k) = None
                  /\ running' = "go" => objs'[o][k].owners = {"kopf"}
                  /\ running' = "kopf" => k \in MapKeys
    PROVE  LeftoverInv'
<1>1. \A o \in Objects : Wanted(o)' <=> Wanted(o)
  BY DEF Wanted
<1>2. \A o \in Objects : \A k \in Keys :
        Leftover(o, k)' <=> objs'[o][k].value # Value(cluster.spec, o, k)
  BY DEF Leftover, Value
<1>3. LeftoversAreKnown'
  BY <1>1, <1>2 DEF LeftoversAreKnown, Value
<1> QED BY <1>3 DEF LeftoverInv

LEMMA LeftoverStep == IInv /\ WorkInv /\ LeftoverInv /\ [Next]_vars => LeftoverInv'
<1> SUFFICES ASSUME IInv, WorkInv, LeftoverInv, [Next]_vars, complete' PROVE LeftoverInv'
  BY DEF LeftoverInv, LeftoversAreKnown
<1>1. CASE objs' = objs /\ cluster'.spec = cluster.spec /\ cluster'.phase = cluster.phase
           /\ running' = running /\ complete' = complete
  BY <1>1 DEF LeftoverInv, LeftoversAreKnown, Wanted, Leftover, Value
<1>2. CASE Pass
  <2>1. running' = "go" /\ "go" \in Controllers /\ cluster' = cluster /\ cluster.phase # "gone"
    BY <1>2 DEF Pass, Controllers
  <2>2. PICK n \in 0..Len(Steps(cluster.spec)) : Effect(n) /\ n = Len(Steps(cluster.spec))
    BY <1>2, PassCases DEF IInv
  <2>3. ASSUME NEW o \in Objects
        PROVE  /\ objs'[o] # None <=> Wanted(o)
               /\ Wanted(o) => \A k \in Keys : objs'[o][k].value # Value(cluster.spec, o, k) =>
                    Value(cluster.spec, o, k) = None /\ objs'[o][k].owners = {"kopf"}
    <3>1. cluster.spec \in Specs /\ (objs[o] = None \/ Typed(objs[o]))
      BY StillTyped DEF ObjsTyped
    <3>2. /\ Wanted(o) => objs'[o] = Written("go", cluster.spec, o)
          /\ ~Wanted(o) => objs'[o] = None
      BY <2>2, EffectOnObject DEF IInv
    <3> QED BY <2>1, <3>1, <3>2, ObjectWritten
  <2> QED BY <2>1, <2>3, LeftoverFrom
<1>3. ASSUME NEW c \in Callers, KopfRemove(c) PROVE LeftoverInv'
  <2>1. PICK r, B : r = calls[c] /\ B = R!RemoveOrder(r.spec.mode)
    OBVIOUS
  <2>2. /\ running' = "kopf" /\ "kopf" \in Controllers
        /\ cluster' = cluster /\ cluster.phase # "gone"
    BY <1>3, TheCall DEF KopfRemove, Controllers
  <2>3. r.step = Len(B) /\ ~r.crossed /\ r.spec = cluster.spec
    BY <1>3, <2>1, RemoveCall
  <2>4. /\ \A i \in 1..Len(R!ApplyOrder(r.spec.mode)) :
             AsAsked(objs', r.spec, R!ApplyOrder(r.spec.mode)[i])
        /\ \A i \in 1..Len(B) : i <= r.step => objs'[B[i]] = None
    BY <1>3, <2>1, <2>3, RemoveWork
  <2>5. r.spec.mode \in Modes
    BY <2>3, SpecMode, StillTyped
  <2>6. Len(B) \in Nat /\ \A i \in 1..Len(B) : i <= Len(B)
    BY <2>1, <2>5, RemoveSequence
  <2>7. DOMAIN R!ApplyOrder(r.spec.mode) = 1..Len(R!ApplyOrder(r.spec.mode))
    BY <2>5, ApplySequence
  <2>8. ASSUME NEW o \in Objects
        PROVE  /\ objs'[o] # None <=> Wanted(o)
               /\ Wanted(o) => AsAsked(objs', cluster.spec, o)
    <3>1. CASE Wanted(o)
      <4>1. AsAsked(objs', cluster.spec, o)
        BY <2>3, <2>4, <2>7, <3>1 DEF Wanted
      <4> QED BY <3>1, <4>1 DEF AsAsked
    <3>2. CASE ~Wanted(o)
      <4>1. \E i \in 1..Len(B) : B[i] = o
        BY <2>1, <2>3, <2>5, <2>7, <3>2, RemoveSequence DEF Wanted
      <4>2. objs'[o] = None
        BY <2>3, <2>4, <2>6, <4>1
      <4> QED BY <3>2, <4>2
    <3> QED BY <3>1, <3>2
  <2> QED BY <2>2, <2>8, LeftoverFrom DEF AsAsked
<1>4. ASSUME NEW c \in Controllers, Start(c) PROVE LeftoverInv'
  BY <1>4, HandoverAssumption DEF Start, LeftoverInv, Controllers
<1>5. CASE AddFinalizer
  <2>1. cluster'.spec = cluster.spec /\ cluster'.phase = cluster.phase
    BY <1>5, StillTyped DEF AddFinalizer
  <2> QED BY <1>1, <1>5, <2>1 DEF AddFinalizer
<1>6. CASE Collect
  BY <1>6 DEF Collect, LeftoverInv
<1>7. CASE UNCHANGED vars
  BY <1>1, <1>7 DEF vars
<1> QED BY <1>2, <1>3, <1>4, <1>5, <1>6, <1>7
        DEF Next, KopfBegin, KopfStep, KopfRereads, KopfApply, KopfFail, RemoveFinalizer, Stop,
            UpdateSpec, Delete

(* What a complete pass leaves behind of another time is known: under the  *)
(* Go controller only what a Kopf patch has written, under a Kopf call     *)
(* that nothing has crossed only keys of maps.                             *)
THEOREM LeftoversStayKnown == Spec => []LeftoversAreKnown
<1>1. LeftoverInv => LeftoversAreKnown
  BY DEF LeftoverInv
<1> QED BY <1>1, TypeInit, TypeStep, WorkInit, WorkStep, LeftoverInit, LeftoverStep, PTL DEF Spec
=============================================================================
