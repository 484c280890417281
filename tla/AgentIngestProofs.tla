--------------------------- MODULE AgentIngestProofs ---------------------------
(* Agent ingestion implements the ledger and keeps what producers published, *)
(* for all producers, spans, attempts, failures and clocks.                 *)
EXTENDS AgentIngest, TLAPS

(* Attempts that are still to come have left no trace yet.                  *)
Later(p, r) ==
    \/ r.index > index[p]
    \/ r.index = index[p] /\ r.attempt > attempt[p]
    \/ r.index = index[p] /\ r.attempt = attempt[p] /\ producing[p] = "sending"

FreshInv == \A r \in Requests : Later(r.producer, r) => request[r] = "unsent"

(* A producer leaves a span behind only when an attempt was answered 204.   *)
PublishedInv ==
    \A p \in Producers : \A i \in DOMAIN Publications[p] :
        i < index[p] \/ producing[p] = "done" => Inserted(p, i)

DurableInv == \A s \in Acked : Expired(s, clock) \/ rows[s.id] = s

LEMMA RequestParts ==
    ASSUME NEW r \in Requests
    PROVE  /\ r.producer \in Producers
           /\ r.index \in DOMAIN Publications[r.producer]
           /\ r.index \in Nat \ {0}
           /\ r.attempt \in 1..MaxAttempts
           /\ SpanOf(r) \in Spans
           /\ SpanOf(r).id \in EventIds
<1>1. PICK p \in Producers :
        r \in [producer: {p}, index: DOMAIN Publications[p], attempt: 1..MaxAttempts]
  BY DEF Requests
<1>2. r.producer = p /\ r.index \in DOMAIN Publications[p] /\ r.attempt \in 1..MaxAttempts
  BY <1>1
<1>3. r.index \in Nat \ {0}
  BY <1>2, IngestAssumption
<1>4. Publications[p][r.index] \in SentSpans
  BY <1>2 DEF SentSpans
<1>5. SpanOf(r) \in Spans
  BY <1>2, <1>4 DEF SpanOf, Sent, Spans
<1> QED BY <1>2, <1>3, <1>5 DEF EventIds

LEMMA CurrentIsRequest ==
    ASSUME TypeOK, NEW p \in Producers, producing[p] \in {"sending", "waiting"}
    PROVE  Current(p) \in Requests
  BY DEF TypeOK, Current, Requests

LEMMA SpanEnds == \A s \in Spans : s.ended \in Nat
  BY IngestAssumption DEF Spans, Normalized

-----------------------------------------------------------------------------
(* Types *)

LEMMA TypeInit == Init => TypeOK
<1> SUFFICES ASSUME Init PROVE TypeOK
  OBVIOUS
<1>1. \A p \in Producers : producing[p] = "sending" => 1 \in DOMAIN Publications[p]
  <2> SUFFICES ASSUME NEW p \in Producers, Publications[p] # <<>>
               PROVE  1 \in DOMAIN Publications[p]
    BY DEF Init
  <2> QED BY IngestAssumption
<1> QED BY <1>1, IngestAssumption DEF Init, TypeOK, Stages, Answers

LEMMA RetryTyped ==
    ASSUME TypeOK, NEW p \in Producers, producing[p] = "waiting", Retry(p)
    PROVE  /\ index' = index
           /\ attempt' \in [Producers -> 1..MaxAttempts]
           /\ producing' \in [Producers -> {"sending", "waiting", "done", "failed"}]
           /\ \A q \in Producers : producing'[q] \in {"sending", "waiting"} =>
                                      producing[q] \in {"sending", "waiting"}
<1>1. CASE attempt[p] < MaxAttempts
  <2>1. attempt[p] + 1 \in 1..MaxAttempts
    BY <1>1, IngestAssumption DEF TypeOK
  <2> QED BY <1>1, <2>1 DEF Retry, TypeOK
<1>2. CASE ~(attempt[p] < MaxAttempts)
  BY <1>2 DEF Retry, TypeOK
<1> QED BY <1>1, <1>2

LEMMA TypeStep == TypeOK /\ [Next]_vars => TypeOK'
<1> SUFFICES ASSUME TypeOK, [Next]_vars PROVE TypeOK'
  OBVIOUS
<1>1. ASSUME NEW p \in Producers, Send(p) PROVE TypeOK'
  BY <1>1 DEF Send, TypeOK, Stages
<1>2. ASSUME NEW p \in Producers, Receive(p) PROVE TypeOK'
  <2>1. producing[p] = "waiting" /\ index[p] \in DOMAIN Publications[p]
    BY <1>2 DEF Receive, TypeOK
  <2>2. CASE Advance(p)
    <3>1. CASE index[p] < Len(Publications[p])
      <4>1. index[p] + 1 \in DOMAIN Publications[p] /\ index[p] + 1 \in Nat \ {0}
        BY <2>1, <3>1, IngestAssumption DEF TypeOK
      <4>2. 1 \in 1..MaxAttempts
        BY IngestAssumption
      <4>3. /\ index' = [index EXCEPT ![p] = index[p] + 1]
            /\ attempt' = [attempt EXCEPT ![p] = 1]
            /\ producing' = [producing EXCEPT ![p] = "sending"]
            /\ UNCHANGED <<rows, request, prune, clock, faults>>
        BY <1>2, <2>2, <3>1 DEF Receive, Advance
      <4> QED BY <4>1, <4>2, <4>3 DEF TypeOK
    <3>2. CASE ~(index[p] < Len(Publications[p]))
      BY <1>2, <2>2, <3>2 DEF Receive, Advance, TypeOK
    <3> QED BY <3>1, <3>2
  <2>3. CASE Retry(p)
    BY <1>2, <2>1, <2>3, RetryTyped DEF Receive, TypeOK
  <2>4. CASE request[Current(p)] \in {"400", "409"} /\ ~Retry(p) /\ ~Advance(p)
    BY <1>2, <2>4 DEF Receive, TypeOK
  <2> QED BY <1>2, <2>2, <2>3, <2>4 DEF Receive
<1>3. ASSUME NEW p \in Producers, TransportError(p) PROVE TypeOK'
  <2>1. producing[p] = "waiting"
    BY <1>3 DEF TransportError
  <2> QED BY <1>3, <2>1, RetryTyped DEF TransportError, TypeOK
<1>4. ASSUME NEW r \in Requests, Validate(r) PROVE TypeOK'
  BY <1>4 DEF Validate, TypeOK, Stages, Answers
<1>5. ASSUME NEW r \in Requests, Insert(r) PROVE TypeOK'
  <2>1. SpanOf(r) \in Spans /\ SpanOf(r).id \in EventIds
    BY RequestParts
  <2>2. Stored(SpanOf(r)) \in Spans \cup {None}
        /\ (Stored(SpanOf(r)) # None => Stored(SpanOf(r)).id = SpanOf(r).id)
    BY <2>1 DEF Stored, TypeOK
  <2>3. rows' = [rows EXCEPT ![SpanOf(r).id] = Stored(SpanOf(r))] \/ rows' = rows
    BY <1>5 DEF Insert
  <2>4. rows' \in [EventIds -> Spans \cup {None}]
        /\ \A i \in EventIds : rows'[i] # None => rows'[i].id = i
    BY <2>1, <2>2, <2>3 DEF TypeOK
  <2>5. request' \in [Requests -> Stages]
    BY <1>5 DEF Insert, TypeOK, Stages, Answers
  <2> QED BY <1>5, <2>4, <2>5 DEF Insert, TypeOK
<1>6. CASE PruneStart
  BY <1>6 DEF PruneStart, TypeOK
<1>7. CASE PruneDelete
  BY <1>7 DEF PruneDelete, Pruned, TypeOK
<1>8. CASE PruneFails
  BY <1>8 DEF PruneFails, TypeOK
<1>9. CASE Restart
  BY <1>9 DEF Restart, TypeOK, Stages, Answers
<1>10. CASE Tick
  <2>1. clock \in Nat /\ (prune # None => prune \in Nat)
    BY DEF TypeOK
  <2> QED BY <1>10, <2>1 DEF Tick, TypeOK
<1>11. CASE UNCHANGED vars
  BY <1>11 DEF vars, TypeOK
<1> QED BY <1>1, <1>2, <1>3, <1>4, <1>5, <1>6, <1>7, <1>8, <1>9, <1>10, <1>11 DEF Next

(* Every reachable state has the types of the program's variables, and a    *)
(* row lies under the event ID of its span (agent_executions.event_id).     *)
THEOREM TypeCorrect == Spec => []TypeOK
  BY TypeInit, TypeStep, PTL DEF Spec

-----------------------------------------------------------------------------
(* What the ledger sees of a request is whether it is answered 204.         *)

LEMMA AckedUnchanged ==
    ASSUME \A r \in Requests : request'[r] = "204" <=> request[r] = "204"
    PROVE  Acked' = Acked
  BY DEF Acked

LEMMA AckedGrows ==
    ASSUME NEW r \in Requests, request' = [request EXCEPT ![r] = "204"],
           request \in [Requests -> Stages]
    PROVE  Acked' = Acked \cup {SpanOf(r)}
  BY DEF Acked

LEMMA FreshInit == Init => FreshInv
  BY DEF Init, FreshInv

LEMMA FreshStep == TypeOK /\ FreshInv /\ [Next]_vars => FreshInv'
<1> SUFFICES ASSUME TypeOK, FreshInv, [Next]_vars,
                    NEW r \in Requests, Later(r.producer, r)'
             PROVE  request'[r] = "unsent"
  BY DEF FreshInv
<1> DEFINE o == r.producer
<1>0. o \in Producers /\ r.index \in Nat \ {0} /\ r.attempt \in 1..MaxAttempts
  BY RequestParts
<1>t. index[o] \in Nat /\ attempt[o] \in Nat /\ r.attempt \in Nat /\ MaxAttempts \in Nat
  BY <1>0, IngestAssumption DEF TypeOK
<1>1. ASSUME NEW p \in Producers, Send(p) PROVE request'[r] = "unsent"
  <2>1. Current(p) \in Requests
    BY <1>1, CurrentIsRequest DEF Send
  <2>2. Later(o, r)
    BY <1>1, <1>0 DEF Send, Later, TypeOK
  <2>3. r # Current(p)
    BY <1>1, <1>0, <1>t DEF Send, Later, Current, TypeOK
  <2> QED BY <1>1, <2>1, <2>2, <2>3 DEF Send, FreshInv, TypeOK
<1>2. ASSUME NEW p \in Producers, producing[p] = "waiting", Retry(p), UNCHANGED request
      PROVE  request'[r] = "unsent"
  <2>1. CASE attempt[p] < MaxAttempts
    BY <1>2, <1>0, <1>t, <2>1 DEF Retry, Later, FreshInv, TypeOK
  <2>2. CASE ~(attempt[p] < MaxAttempts)
    BY <1>2, <1>0, <1>t, <2>2 DEF Retry, Later, FreshInv, TypeOK
  <2> QED BY <2>1, <2>2
<1>3. ASSUME NEW p \in Producers, Receive(p) PROVE request'[r] = "unsent"
  <2>1. CASE Advance(p)
    BY <1>3, <1>0, <1>t, <2>1 DEF Receive, Advance, Later, FreshInv, TypeOK
  <2>2. CASE Retry(p)
    BY <1>2, <1>3, <2>2 DEF Receive
  <2>3. CASE ~Advance(p) /\ ~Retry(p)
    BY <1>3, <1>0, <2>3 DEF Receive, Later, FreshInv, TypeOK
  <2> QED BY <2>1, <2>2, <2>3
<1>4. ASSUME NEW p \in Producers, TransportError(p) PROVE request'[r] = "unsent"
  BY <1>2, <1>4 DEF TransportError
<1>5. ASSUME UNCHANGED <<index, attempt, producing>>,
             \A q \in Requests : request[q] = "unsent" => request'[q] = "unsent"
      PROVE  request'[r] = "unsent"
  BY <1>5, <1>0 DEF Later, FreshInv
<1>6. ASSUME NEW q \in Requests, Validate(q) \/ Insert(q) PROVE request'[r] = "unsent"
  <2>1. \A x \in Requests : request[x] = "unsent" => request'[x] = "unsent"
    BY <1>6 DEF Validate, Insert, TypeOK
  <2> QED BY <1>5, <1>6, <2>1 DEF Validate, Insert
<1>7. CASE Restart
  BY <1>5, <1>7 DEF Restart
<1>8. CASE PruneStart \/ PruneDelete \/ PruneFails \/ Tick \/ UNCHANGED vars
  BY <1>5, <1>8 DEF PruneStart, PruneDelete, PruneFails, Tick, vars
<1> QED BY <1>1, <1>3, <1>4, <1>6, <1>7, <1>8 DEF Next

LEMMA AnswersStay ==
    ASSUME TypeOK, FreshInv, [Next]_vars, NEW r \in Requests, request[r] = "204"
    PROVE  request'[r] = "204"
<1>1. ASSUME NEW p \in Producers, Send(p) PROVE request'[r] = "204"
  <2>1. Current(p) \in Requests
    BY <1>1, CurrentIsRequest DEF Send
  <2>2. Later(p, Current(p)) /\ Current(p).producer = p
    BY <1>1 DEF Send, Later, Current
  <2> QED BY <1>1, <2>1, <2>2 DEF Send, FreshInv, TypeOK
<1>2. ASSUME NEW q \in Requests, Validate(q) \/ Insert(q) PROVE request'[r] = "204"
  BY <1>2 DEF Validate, Insert, TypeOK
<1> QED BY <1>1, <1>2 DEF Next, Receive, TransportError, PruneStart, PruneDelete, PruneFails,
                         Restart, Tick, vars

LEMMA PublishedInit == Init => PublishedInv
<1> SUFFICES ASSUME Init, NEW p \in Producers, NEW i \in DOMAIN Publications[p],
                    i < index[p] \/ producing[p] = "done"
             PROVE  FALSE
  BY DEF PublishedInv
<1>1. index[p] = 1 /\ i \in 1..Len(Publications[p])
  BY IngestAssumption DEF Init
<1>2. Publications[p] # <<>>
  BY <1>1
<1>3. producing[p] = "sending"
  BY <1>2 DEF Init
<1> QED BY <1>1, <1>3, IngestAssumption

LEMMA PublishedStep == TypeOK /\ FreshInv /\ PublishedInv /\ [Next]_vars => PublishedInv'
<1> SUFFICES ASSUME TypeOK, FreshInv, PublishedInv, [Next]_vars,
                    NEW p \in Producers, NEW i \in DOMAIN Publications[p],
                    (i < index[p] \/ producing[p] = "done")'
             PROVE  Inserted(p, i)'
  BY DEF PublishedInv
<1>0. Inserted(p, i) => Inserted(p, i)'
  BY AnswersStay DEF Inserted
<1>1. ASSUME i < index[p] \/ producing[p] = "done" PROVE Inserted(p, i)'
  BY <1>0, <1>1 DEF PublishedInv
<1>2. index[p] \in Nat /\ i \in Nat /\ Len(Publications[p]) \in Nat
      /\ i <= Len(Publications[p])
  BY IngestAssumption DEF TypeOK
<1>3. ASSUME NEW q \in Producers, Receive(q) PROVE Inserted(p, i)'
  <2>1. CASE Advance(q) /\ request[Current(q)] = "204"
    <3>1. Current(q) \in Requests /\ Inserted(q, index[q])
      <4>1. Current(q) \in Requests
        BY <1>3, CurrentIsRequest DEF Receive
      <4> QED BY <2>1, <4>1 DEF Inserted, Current
    <3>2. CASE q # p
      BY <1>1, <1>3, <2>1, <3>2 DEF Receive, Advance, TypeOK
    <3>3. CASE q = p /\ i # index[p]
      BY <1>1, <1>2, <2>1, <3>3 DEF Advance, TypeOK
    <3>4. CASE q = p /\ i = index[p]
      BY <1>0, <3>1, <3>4
    <3> QED BY <3>2, <3>3, <3>4
  <2>2. CASE Retry(q)
    BY <1>1, <1>3, <2>2 DEF Receive, Retry, TypeOK
  <2>3. CASE request[Current(q)] \in {"400", "409"}
    BY <1>1, <1>3, <2>3 DEF Receive, Advance, Retry, TypeOK
  <2> QED BY <1>3, <2>1, <2>2, <2>3 DEF Receive
<1>4. ASSUME NEW q \in Producers, TransportError(q) PROVE Inserted(p, i)'
  BY <1>1, <1>4 DEF TransportError, Retry, TypeOK
<1>5. ASSUME NEW q \in Producers, Send(q) PROVE Inserted(p, i)'
  BY <1>1, <1>5 DEF Send, TypeOK
<1>6. CASE UNCHANGED <<index, producing>>
  BY <1>1, <1>6
<1> QED BY <1>3, <1>4, <1>5, <1>6
        DEF Next, Validate, Insert, PruneStart, PruneDelete, PruneFails, Restart, Tick, vars

-----------------------------------------------------------------------------
(* Every step is a step of the ledger. *)

LEMMA SameEventIds == EventIds = L!EventIds
  BY DEF EventIds, L!EventIds

LEMMA LedgerStart == Init => L!LedgerInit
<1> SUFFICES ASSUME Init PROVE L!LedgerInit
  OBVIOUS
<1>1. Acked = {}
  BY DEF Init, Acked
<1> QED BY <1>1, SameEventIds DEF Init, L!LedgerInit

LEMMA InsertRecords ==
    ASSUME TypeOK, NEW r \in Requests, Insert(r)
    PROVE  L!Record(SpanOf(r)) \/ UNCHANGED <<rows, Acked, clock>>
<1> DEFINE s == SpanOf(r)
<1>1. s \in Spans /\ s.id \in EventIds
  BY RequestParts
<1>2. request[r] = "validated" /\ UNCHANGED clock
  BY DEF Insert
<1>3. CASE Stored(s) = s
  <2>1. rows[s.id] \in {None, s}
    BY <1>3 DEF Stored
  <2>2. CASE request' = [request EXCEPT ![r] = "204"]
    <3>1. Acked' = Acked \cup {s}
      BY <2>2, AckedGrows DEF TypeOK
    <3>2. rows' = [rows EXCEPT ![s.id] = s]
      BY <1>3, <2>2, <1>2 DEF Insert, TypeOK
    <3> QED BY <1>2, <2>1, <3>1, <3>2 DEF L!Record
  <2>3. CASE request' = [request EXCEPT ![r] = "503"]
    <3>1. Acked' = Acked
      BY <1>2, <2>3, AckedUnchanged DEF TypeOK
    <3>2. rows' = [rows EXCEPT ![s.id] = s] \/ UNCHANGED rows
      BY <1>3 DEF Insert
    <3> QED BY <1>2, <2>1, <3>1, <3>2 DEF L!Record
  <2> QED BY <1>3, <2>2, <2>3 DEF Insert
<1>4. CASE Stored(s) # s
  <2>1. Stored(s) = rows[s.id]
    BY <1>4 DEF Stored
  <2>2. rows' = rows
    BY <1>1, <2>1 DEF Insert, TypeOK
  <2>3. request' = [request EXCEPT ![r] = "409"] \/ request' = [request EXCEPT ![r] = "503"]
    BY <1>4 DEF Insert
  <2>4. Acked' = Acked
    BY <1>2, <2>3, AckedUnchanged DEF TypeOK
  <2> QED BY <1>2, <2>2, <2>4
<1> QED BY <1>3, <1>4

LEMMA PruneForgets ==
    ASSUME TypeOK, TypeOK', PruneDelete
    PROVE  L!Forget
<1>1. ASSUME NEW i \in EventIds, rows'[i] # rows[i]
      PROVE  rows'[i] = None /\ Expired(rows[i], clock)
  <2>1. rows'[i] = None /\ rows[i] \in Spans /\ Expired(rows[i], prune)
    BY <1>1 DEF PruneDelete, Pruned, TypeOK
  <2>2. rows[i].ended \in Nat /\ Retention \in Nat /\ prune \in Nat /\ clock \in Nat
        /\ prune <= clock
    BY <2>1, SpanEnds, IngestAssumption DEF TypeOK, PruneDelete
  <2> QED BY <2>1, <2>2 DEF Expired
<1>2. Acked' = Acked /\ UNCHANGED clock
  BY AckedUnchanged DEF PruneDelete
<1> QED BY <1>1, <1>2, SameEventIds DEF L!Forget, L!Expired, Expired, TypeOK

LEMMA LedgerStep ==
    ASSUME TypeOK, TypeOK', FreshInv, [Next]_vars
    PROVE  [L!LedgerNext]_<<rows, Acked, clock>>
<1>1. ASSUME NEW p \in Producers, Send(p) PROVE UNCHANGED <<rows, Acked, clock>>
  <2>1. Current(p) \in Requests
    BY <1>1, CurrentIsRequest DEF Send
  <2>2. Later(p, Current(p)) /\ Current(p).producer = p
    BY <1>1 DEF Send, Later, Current
  <2>3. request[Current(p)] = "unsent"
    BY <2>1, <2>2 DEF FreshInv
  <2>4. Acked' = Acked
    BY <1>1, <2>1, <2>3, AckedUnchanged DEF Send, TypeOK
  <2> QED BY <1>1, <2>4 DEF Send
<1>2. ASSUME NEW r \in Requests, Validate(r) PROVE UNCHANGED <<rows, Acked, clock>>
  <2>1. Acked' = Acked
    BY <1>2, AckedUnchanged DEF Validate, TypeOK
  <2> QED BY <1>2, <2>1 DEF Validate
<1>3. ASSUME NEW r \in Requests, Insert(r) PROVE [L!LedgerNext]_<<rows, Acked, clock>>
  BY <1>3, InsertRecords, RequestParts DEF L!LedgerNext
<1>4. CASE PruneDelete
  BY <1>4, PruneForgets DEF L!LedgerNext
<1>5. CASE Restart
  <2>1. Acked' = Acked
    BY <1>5, AckedUnchanged DEF Restart
  <2> QED BY <1>5, <2>1 DEF Restart
<1>6. CASE Tick
  <2>1. Acked' = Acked
    BY <1>6, AckedUnchanged DEF Tick
  <2> QED BY <1>6, <2>1 DEF Tick, L!LedgerNext, L!Age
<1>7. ASSUME UNCHANGED <<rows, request, clock>> PROVE UNCHANGED <<rows, Acked, clock>>
  BY <1>7, AckedUnchanged
<1> QED BY <1>1, <1>2, <1>3, <1>4, <1>5, <1>6, <1>7
        DEF Next, Receive, TransportError, PruneStart, PruneFails, vars

(* For all producers, spans, attempts, failures and restarts: the table is  *)
(* a ledger of immutable spans and 204 acknowledges what it holds.          *)
THEOREM IngestImplementsLedger == Spec => ImplementsLedger
<1>1. Init => TypeOK /\ FreshInv /\ L!LedgerInit
  BY TypeInit, FreshInit, LedgerStart
<1>2. TypeOK /\ FreshInv /\ [Next]_vars
        => TypeOK' /\ FreshInv' /\ [L!LedgerNext]_<<rows, Acked, clock>>
  BY TypeStep, FreshStep, LedgerStep
<1> QED BY <1>1, <1>2, PTL DEF Spec, ImplementsLedger, L!Ledger

-----------------------------------------------------------------------------
(* Durability, by way of the ledger *)

A == INSTANCE SpanLedgerProofs WITH ledger <- rows, acked <- Acked

LEMMA AckedIsDurable == Spec => [](\A s \in Acked : Expired(s, clock) \/ rows[s.id] = s)
<1>1. Spec => A!Ledger
  <2>1. L!LedgerInit => A!LedgerInit
    BY DEF L!LedgerInit, A!LedgerInit, L!EventIds, A!EventIds
  <2>2. [L!LedgerNext]_<<rows, Acked, clock>> => [A!LedgerNext]_<<rows, Acked, clock>>
    BY DEF L!LedgerNext, A!LedgerNext, L!Record, A!Record, L!Forget, A!Forget, L!Age, A!Age,
           L!Expired, A!Expired, L!EventIds, A!EventIds
  <2> QED BY <2>1, <2>2, IngestImplementsLedger, PTL DEF ImplementsLedger, L!Ledger, A!Ledger
<1>2. A!Ledger => [](A!LedgerType /\ A!Durable)
  BY SpanEnds, IngestAssumption, A!LedgerIsDurable
<1>3. A!Durable <=> \A s \in Acked : Expired(s, clock) \/ rows[s.id] = s
  BY DEF A!Durable, A!Expired, Expired
<1> QED BY <1>1, <1>2, <1>3, PTL

(* What a producer has finished with stays in the table until its           *)
(* retention is over.                                                       *)
THEOREM PublicationIsDurable == Spec => []PublishedIsDurable
<1> DEFINE Durable == \A s \in Acked : Expired(s, clock) \/ rows[s.id] = s
<1>1. Init => TypeOK /\ FreshInv /\ PublishedInv
  BY TypeInit, FreshInit, PublishedInit
<1>2. TypeOK /\ FreshInv /\ PublishedInv /\ [Next]_vars
        => TypeOK' /\ FreshInv' /\ PublishedInv'
  BY TypeStep, FreshStep, PublishedStep
<1>3. PublishedInv /\ Durable => PublishedIsDurable
  <2> SUFFICES ASSUME PublishedInv, Durable, NEW p \in Producers,
                      NEW i \in DOMAIN Publications[p],
                      i < index[p] \/ producing[p] = "done"
               PROVE  LET s == Normalized(Publications[p][i])
                      IN Expired(s, clock) \/ rows[s.id] = s
    BY DEF PublishedIsDurable
  <2>1. PICK r \in Requests : r.producer = p /\ r.index = i /\ request[r] = "204"
    BY DEF PublishedInv, Inserted
  <2>2. SpanOf(r) \in Acked
    BY <2>1 DEF Acked
  <2> QED BY <2>1, <2>2 DEF SpanOf, Sent
<1> QED BY <1>1, <1>2, <1>3, AckedIsDurable, PTL DEF Spec

-----------------------------------------------------------------------------
(* Conflicts *)

LEMMA ConflictInit == Init => NoFalseConflict
  BY DEF Init, NoFalseConflict

LEMMA ConflictStep == TypeOK /\ NoFalseConflict /\ [Next]_vars => NoFalseConflict'
<1> DEFINE Contested(r) ==
        \E s \in SentSpans : s.id = Sent(r).id
                              /\ <<s.ended, s.body>> # <<Sent(r).ended, Sent(r).body>>
<1> SUFFICES ASSUME TypeOK, NoFalseConflict, [Next]_vars,
                    NEW r \in Requests, request'[r] = "409"
             PROVE  Contested(r)
  BY DEF NoFalseConflict
<1>1. CASE request[r] = "409"
  BY <1>1 DEF NoFalseConflict
<1>2. CASE request[r] # "409"
  <2>1. Insert(r)
    <3>1. ASSUME NEW p \in Producers, Send(p) PROVE FALSE
      BY <1>2, <3>1, CurrentIsRequest DEF Send, TypeOK
    <3>2. ASSUME NEW q \in Requests, Validate(q) PROVE FALSE
      BY <1>2, <3>2 DEF Validate, TypeOK
    <3>3. ASSUME NEW q \in Requests, Insert(q), q # r PROVE FALSE
      BY <1>2, <3>3 DEF Insert, TypeOK
    <3>4. CASE Restart
      BY <1>2, <3>4 DEF Restart
    <3>5. CASE UNCHANGED request
      BY <1>2, <3>5
    <3> QED BY <3>1, <3>2, <3>3, <3>4, <3>5
            DEF Next, Receive, TransportError, PruneStart, PruneDelete, PruneFails, Tick, vars
  <2>2. Stored(SpanOf(r)) # SpanOf(r)
    BY <1>2, <2>1 DEF Insert, TypeOK
  <2>3. SpanOf(r) \in Spans /\ SpanOf(r).id \in EventIds
    BY RequestParts
  <2>4. rows[SpanOf(r).id] \in Spans /\ rows[SpanOf(r).id] # SpanOf(r)
        /\ rows[SpanOf(r).id].id = SpanOf(r).id
    BY <2>2, <2>3 DEF Stored, TypeOK
  <2>5. PICK s \in SentSpans : rows[SpanOf(r).id] = Normalized(s)
    BY <2>4 DEF Spans
  <2>6. s.id = Sent(r).id /\ Normalized(s) # Normalized(Sent(r))
    BY <2>4, <2>5 DEF Normalized, SpanOf
  <2>7. <<s.ended, s.body>> # <<Sent(r).ended, Sent(r).body>>
    BY <2>6 DEF Normalized
  <2> QED BY <2>6, <2>7
<1> QED BY <1>1, <1>2

(* 409 is answered only where two different spans claim one event ID.      *)
THEOREM ConflictsAreReal == Spec => []NoFalseConflict
  BY TypeInit, TypeStep, ConflictInit, ConflictStep, PTL DEF Spec

-----------------------------------------------------------------------------
(* No holes *)

(* Every row comes from a request that was sent. *)
Source(s, r) == SpanOf(r) = s /\ request[r] # "unsent"

TracedInv == \A i \in EventIds : rows[i] # None => \E r \in Requests : Source(rows[i], r)

LEMMA SentStays ==
    ASSUME TypeOK, [Next]_vars, NEW r \in Requests, request[r] # "unsent"
    PROVE  request'[r] # "unsent"
<1>1. ASSUME NEW p \in Producers, Send(p) PROVE request'[r] # "unsent"
  BY <1>1, CurrentIsRequest DEF Send, TypeOK
<1>2. ASSUME NEW q \in Requests, Validate(q) \/ Insert(q) PROVE request'[r] # "unsent"
  BY <1>2 DEF Validate, Insert, TypeOK
<1>3. CASE Restart
  BY <1>3 DEF Restart
<1> QED BY <1>1, <1>2, <1>3
        DEF Next, Receive, TransportError, PruneStart, PruneDelete, PruneFails, Tick, vars

LEMMA TracedInit == Init => TracedInv
  BY DEF Init, TracedInv

LEMMA TracedStep == TypeOK /\ TracedInv /\ [Next]_vars => TracedInv'
<1> SUFFICES ASSUME TypeOK, TracedInv, [Next]_vars, NEW i \in EventIds, rows'[i] # None
             PROVE  \E r \in Requests : SpanOf(r) = rows'[i] /\ request'[r] # "unsent"
  BY DEF TracedInv, Source
<1>1. CASE rows'[i] = rows[i]
  <2>1. PICK r \in Requests : Source(rows[i], r)
    BY <1>1 DEF TracedInv
  <2> QED BY <1>1, <2>1, SentStays DEF Source
<1>2. CASE rows'[i] # rows[i]
  <2>1. CASE PruneDelete
    BY <1>2, <2>1 DEF PruneDelete, Pruned
  <2>2. ASSUME NEW r \in Requests, Insert(r)
        PROVE  SpanOf(r) = rows'[i] /\ request'[r] # "unsent"
    <3>1. SpanOf(r).id \in EventIds
      BY RequestParts
    <3>2. rows'[i] = Stored(SpanOf(r)) /\ SpanOf(r).id = i
      BY <1>2, <2>2, <3>1 DEF Insert, TypeOK
    <3>3. rows'[i] = SpanOf(r)
      BY <1>2, <3>2 DEF Stored
    <3>4. request'[r] # "unsent"
      BY <2>2, SentStays DEF Insert
    <3> QED BY <3>3, <3>4
  <2> QED BY <1>2, <2>1, <2>2
          DEF Next, Send, Receive, TransportError, Validate, PruneStart, PruneFails, Restart,
              Tick, vars
<1> QED BY <1>1, <1>2

LEMMA PrefixFollows ==
    ASSUME TypeOK, FreshInv, TracedInv, PublishedIsDurable PROVE TraceIsPrefix
<1> SUFFICES ASSUME NEW p \in Producers, NEW i \in DOMAIN Publications[p],
                    NEW j \in 1..(i - 1), OnlyHere(p, i),
                    rows[Normalized(Publications[p][i]).id] = Normalized(Publications[p][i])
             PROVE  \/ Expired(Normalized(Publications[p][j]), clock)
                    \/ rows[Normalized(Publications[p][j]).id] = Normalized(Publications[p][j])
  BY DEF TraceIsPrefix
<1> DEFINE late == Normalized(Publications[p][i])
<1>1. late \in Spans /\ late.id \in EventIds
  BY DEF Spans, SentSpans, EventIds
<1>2. PICK r \in Requests : Source(late, r)
  BY <1>1, IngestAssumption DEF TracedInv
<1>3. r.producer = p /\ r.index = i
  BY <1>2, RequestParts DEF OnlyHere, Source, SpanOf, Sent
<1>4. ~Later(p, r)
  BY <1>2, <1>3 DEF FreshInv, Source
<1>5. i \in Nat /\ index[p] \in Nat /\ j \in DOMAIN Publications[p] /\ j \in Nat
  BY IngestAssumption DEF TypeOK
<1>6. j < index[p]
  BY <1>3, <1>4, <1>5 DEF Later
<1> QED BY <1>5, <1>6 DEF PublishedIsDurable

(* What readers see of a trace has no hole, whatever was retried, delayed, *)
(* lost or restarted.                                                      *)
THEOREM TracesArePrefixes == Spec => []TraceIsPrefix
<1>1. Init => TypeOK /\ FreshInv /\ TracedInv
  BY TypeInit, FreshInit, TracedInit
<1>2. TypeOK /\ FreshInv /\ TracedInv /\ [Next]_vars => TypeOK' /\ FreshInv' /\ TracedInv'
  BY TypeStep, FreshStep, TracedStep
<1>3. TypeOK /\ FreshInv /\ TracedInv /\ PublishedIsDurable => TraceIsPrefix
  BY PrefixFollows
<1> QED BY <1>1, <1>2, <1>3, PublicationIsDurable, PTL DEF Spec
=============================================================================
