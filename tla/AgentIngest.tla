------------------------------ MODULE AgentIngest ------------------------------
(***************************************************************************)
(* Agent span ingestion: producers that publish the spans of a trace one   *)
(* after the other over an unreliable network and retry, the HTTP handler  *)
(* that validates a span and inserts it in one statement, the goroutine    *)
(* that prunes expired rows, and restarts of the service.                  *)
(*                                                                         *)
(* A span as sent carries the UTC offset of its timestamps, which the      *)
(* handler normalises away before it stores and compares, and whether it   *)
(* is well formed, which stands for the checks of the token, the JSON and  *)
(* the fields that do not depend on the time.                              *)
(***************************************************************************)
EXTENDS Naturals, Sequences

CONSTANTS
    Producers,
    Publications,   \* the sequence of spans each producer publishes
    None,
    Retention,      \* RETENTION, in ticks
    Tolerance,      \* the five minutes a span may end in the future
    MaxAttempts,    \* attempts per span; 5 in the demo producer
    MaxClock,       \* bound on the ticks of the clock
    MaxFaults       \* bound on restarts and failed prunes

SentSpans == UNION {{Publications[p][i] : i \in DOMAIN Publications[p]} : p \in Producers}

(* Mutant: the offset of the timestamps reaches the payload. *)
NormalizedAsSent(s) == s

(* What the handler stores: the timestamps in UTC. *)
Normalized(s) == [id |-> s.id, ended |-> s.ended, body |-> s.body]

Spans    == {Normalized(s) : s \in SentSpans}
EventIds == {s.id : s \in Spans}

Requests == UNION {[producer: {p}, index: DOMAIN Publications[p], attempt: 1..MaxAttempts] :
                     p \in Producers}

Sent(r)   == Publications[r.producer][r.index]
SpanOf(r) == Normalized(Sent(r))

ASSUME IngestAssumption ==
    /\ \A p \in Producers : /\ Len(Publications[p]) \in Nat
                           /\ DOMAIN Publications[p] = 1..Len(Publications[p])
    /\ \A s \in SentSpans : s.ended \in Nat
    /\ Retention \in Nat /\ Tolerance \in Nat
    /\ MaxAttempts \in Nat \ {0}
    /\ MaxClock \in Nat /\ MaxFaults \in Nat
    /\ None \notin Spans \cup Nat

VARIABLES
    rows,       \* the table agent_executions, by event ID
    request,    \* where each attempt of each span is
    index,      \* which of its spans a producer is publishing
    attempt,    \* which attempt at it
    producing,  \* what a producer is doing
    prune,      \* the time the running prune took its cutoff from, or None
    clock,      \* the wall clock of the service
    faults      \* restarts and failed prunes so far

vars == <<rows, request, index, attempt, producing, prune, clock, faults>>

(* "unsent", in the network, past validation, answered, or lost with the   *)
(* connection.  "400" stands for every answer that refuses the request as  *)
(* it is (400, 401).                                                       *)
Answers == {"204", "400", "409", "503"}
Stages  == {"unsent", "sent", "validated", "lost"} \cup Answers

Expired(s, time) == s.ended + Retention < time

Acked == {SpanOf(r) : r \in {q \in Requests : request[q] = "204"}}

-----------------------------------------------------------------------------
(* Producers *)

Current(p) == [producer |-> p, index |-> index[p], attempt |-> attempt[p]]

Send(p) ==
    /\ producing[p] = "sending"
    /\ request' = [request EXCEPT ![Current(p)] = "sent"]
    /\ producing' = [producing EXCEPT ![p] = "waiting"]
    /\ UNCHANGED <<rows, index, attempt, prune, clock, faults>>

(* Mutant: one attempt too many. *)
RetryOffByOne(p) ==
    IF attempt[p] <= MaxAttempts
    THEN /\ attempt' = [attempt EXCEPT ![p] = @ + 1]
         /\ producing' = [producing EXCEPT ![p] = "sending"]
         /\ UNCHANGED index
    ELSE /\ producing' = [producing EXCEPT ![p] = "failed"]
         /\ UNCHANGED <<attempt, index>>

(* Mutant: attempts are not counted. *)
RetryForever(p) ==
    /\ producing' = [producing EXCEPT ![p] = "sending"]
    /\ UNCHANGED <<attempt, index>>

(* Mutant: after the last attempt the loop goes on to the next span. *)
RetryThenSkip(p) ==
    IF attempt[p] < MaxAttempts
    THEN /\ attempt' = [attempt EXCEPT ![p] = @ + 1]
         /\ producing' = [producing EXCEPT ![p] = "sending"]
         /\ UNCHANGED index
    ELSE IF index[p] < Len(Publications[p])
    THEN /\ index' = [index EXCEPT ![p] = @ + 1]
         /\ attempt' = [attempt EXCEPT ![p] = 1]
         /\ producing' = [producing EXCEPT ![p] = "sending"]
    ELSE /\ producing' = [producing EXCEPT ![p] = "failed"]
         /\ UNCHANGED <<attempt, index>>

(* The next attempt at the same span, unchanged, or none. *)
Retry(p) ==
    IF attempt[p] < MaxAttempts
    THEN /\ attempt' = [attempt EXCEPT ![p] = @ + 1]
         /\ producing' = [producing EXCEPT ![p] = "sending"]
         /\ UNCHANGED index
    ELSE /\ producing' = [producing EXCEPT ![p] = "failed"]
         /\ UNCHANGED <<attempt, index>>

(* The span is published: the next one, or the end of the loop. *)
Advance(p) ==
    IF index[p] < Len(Publications[p])
    THEN /\ index' = [index EXCEPT ![p] = @ + 1]
         /\ attempt' = [attempt EXCEPT ![p] = 1]
         /\ producing' = [producing EXCEPT ![p] = "sending"]
    ELSE /\ producing' = [producing EXCEPT ![p] = "done"]
         /\ UNCHANGED <<index, attempt>>

(* 204 moves on to the next span, 503 retries, anything else raises.       *)
Receive(p) ==
    /\ producing[p] = "waiting"
    /\ \/ request[Current(p)] = "204" /\ Advance(p)
       \/ request[Current(p)] = "503" /\ Retry(p)
       \/ /\ request[Current(p)] \in {"400", "409"}
          /\ producing' = [producing EXCEPT ![p] = "failed"]
          /\ UNCHANGED <<index, attempt>>
    /\ UNCHANGED <<rows, request, prune, clock, faults>>

(* The connection fails or the client's timeout strikes; the request may   *)
(* be lost, still on its way, or answered already.                         *)
TransportError(p) ==
    /\ producing[p] = "waiting"
    /\ Retry(p)
    /\ UNCHANGED <<rows, request, prune, clock, faults>>

-----------------------------------------------------------------------------
(* The handler *)

(* validate, with the time of the service: the span is well formed and its *)
(* end is within retention and not in the future.                          *)
Acceptable(s, time) ==
    s.wellFormed /\ s.ended <= time + Tolerance /\ ~Expired(s, time)

Validate(r) ==
    /\ request[r] = "sent"
    /\ request' = [request EXCEPT ![r] =
                     IF Acceptable(Sent(r), clock) THEN "validated" ELSE "400"]
    /\ UNCHANGED <<rows, index, attempt, producing, prune, clock, faults>>

(* Mutant: the conflicting row is overwritten (SET payload = EXCLUDED).    *)
InsertOverwriting(r) ==
    /\ request[r] = "validated"
    /\ rows' = [rows EXCEPT ![SpanOf(r).id] = SpanOf(r)]
    /\ request' = [request EXCEPT ![r] = "204"]
    /\ UNCHANGED <<index, attempt, producing, prune, clock, faults>>

(* INSERT ... ON CONFLICT DO UPDATE ... RETURNING payload = $18: one       *)
(* statement that inserts or compares.                                     *)
Stored(s) == IF rows[s.id] = None THEN s ELSE rows[s.id]

(* Mutant: ON CONFLICT DO NOTHING, any row of this ID counts as this span. *)
InsertIfAbsent(r) ==
    /\ request[r] = "validated"
    /\ rows' = [rows EXCEPT ![SpanOf(r).id] = Stored(SpanOf(r))]
    /\ request' = [request EXCEPT ![r] = "204"]
    /\ UNCHANGED <<index, attempt, producing, prune, clock, faults>>

Insert(r) ==
    /\ request[r] = "validated"
    /\ LET s == SpanOf(r)
       IN \/ /\ rows' = [rows EXCEPT ![s.id] = Stored(s)]
             /\ request' = [request EXCEPT ![r] = IF Stored(s) = s THEN "204" ELSE "409"]
          \/ /\ rows' = [rows EXCEPT ![s.id] = Stored(s)] \/ UNCHANGED rows
             /\ request' = [request EXCEPT ![r] = "503"]   \* error, committed or not
    /\ UNCHANGED <<index, attempt, producing, prune, clock, faults>>

-----------------------------------------------------------------------------
(* The service process *)

(* Mutant: the loop returns after a failed prune instead of logging it.    *)
PruneStartOnce ==
    /\ prune = None
    /\ faults = 0
    /\ prune' = clock
    /\ UNCHANGED <<rows, request, index, attempt, producing, clock, faults>>

PruneStart ==
    /\ prune = None
    /\ prune' = clock
    /\ UNCHANGED <<rows, request, index, attempt, producing, clock, faults>>

(* Mutant: retention is subtracted the wrong way, one tick too early. *)
PrunedEarly == [i \in EventIds |->
                  IF rows[i] # None /\ rows[i].ended + Retention <= prune
                  THEN None ELSE rows[i]]

Pruned == [i \in EventIds |->
             IF rows[i] # None /\ Expired(rows[i], prune) THEN None ELSE rows[i]]

PruneDelete ==
    /\ prune # None
    /\ rows' = Pruned
    /\ prune' = None
    /\ UNCHANGED <<request, index, attempt, producing, clock, faults>>

(* A failed DELETE is logged and left to the next tick. *)
PruneFails ==
    /\ prune # None
    /\ faults < MaxFaults
    /\ faults' = faults + 1
    /\ prune' = None
    /\ UNCHANGED <<rows, request, index, attempt, producing, clock>>

(* The process dies: requests in it and on their way to it are lost.       *)
Restart ==
    /\ faults < MaxFaults
    /\ faults' = faults + 1
    /\ request' = [r \in Requests |->
                     IF request[r] \in {"sent", "validated"} THEN "lost" ELSE request[r]]
    /\ prune' = None
    /\ UNCHANGED <<rows, index, attempt, producing, clock>>

Tick ==
    /\ clock < MaxClock
    /\ clock' = clock + 1
    /\ UNCHANGED <<rows, request, index, attempt, producing, prune, faults>>

-----------------------------------------------------------------------------

Init ==
    /\ rows = [i \in EventIds |-> None]
    /\ request = [r \in Requests |-> "unsent"]
    /\ index = [p \in Producers |-> 1]
    /\ attempt = [p \in Producers |-> 1]
    /\ producing = [p \in Producers |-> IF Publications[p] = <<>> THEN "done" ELSE "sending"]
    /\ prune = None
    /\ clock = 0
    /\ faults = 0

Next ==
    \/ \E p \in Producers : Send(p) \/ Receive(p) \/ TransportError(p)
    \/ \E r \in Requests : Validate(r) \/ Insert(r)
    \/ PruneStart \/ PruneDelete \/ PruneFails \/ Restart \/ Tick

Spec == Init /\ [][Next]_vars

(* The ticker fires every minute whatever happened to the last prune, and  *)
(* the handler and the producers' timeouts end what they started.          *)
Fairness ==
    /\ WF_vars(PruneStart) /\ WF_vars(PruneDelete)
    /\ \A p \in Producers : WF_vars(Send(p)) /\ WF_vars(Receive(p) \/ TransportError(p))
    /\ \A r \in Requests : WF_vars(Validate(r)) /\ WF_vars(Insert(r))

FairSpec == Spec /\ Fairness

-----------------------------------------------------------------------------
(* Properties *)

TypeOK ==
    /\ rows \in [EventIds -> Spans \cup {None}]
    /\ \A i \in EventIds : rows[i] # None => rows[i].id = i
    /\ request \in [Requests -> Stages]
    /\ index \in [Producers -> Nat \ {0}]
    /\ attempt \in [Producers -> 1..MaxAttempts]
    /\ producing \in [Producers -> {"sending", "waiting", "done", "failed"}]
    /\ \A p \in Producers : producing[p] \in {"sending", "waiting"} =>
                               index[p] \in DOMAIN Publications[p]
    /\ prune \in Nat \cup {None} /\ (prune # None => prune <= clock)
    /\ clock \in Nat /\ faults \in Nat

(* The ledger this implements: rows is the ledger, an answer 204 is an     *)
(* acknowledgement.                                                        *)
L == INSTANCE SpanLedger WITH ledger <- rows, acked <- Acked

ImplementsLedger == L!Ledger

Inserted(p, i) == \E r \in Requests : r.producer = p /\ r.index = i /\ request[r] = "204"

(* The spans a producer has finished with are in the table until their     *)
(* retention is over, whatever was retried, delayed, pruned or restarted   *)
(* meanwhile.                                                              *)
PublishedIsDurable ==
    \A p \in Producers : \A i \in DOMAIN Publications[p] :
        LET s == Normalized(Publications[p][i])
        IN (i < index[p] \/ producing[p] = "done") =>
              Expired(s, clock) \/ rows[s.id] = s

(* A reader of the table never sees a trace with a hole: when a span that  *)
(* is published at one place only is there, committed by whatever attempt, *)
(* the spans its producer publishes before it are, too, until they expire. *)
OnlyHere(p, i) ==
    \A q \in Producers : \A j \in DOMAIN Publications[q] :
        Normalized(Publications[q][j]) = Normalized(Publications[p][i]) => q = p /\ j = i

TraceIsPrefix ==
    \A p \in Producers : \A i \in DOMAIN Publications[p] : \A j \in 1..(i - 1) :
        LET late  == Normalized(Publications[p][i])
            early == Normalized(Publications[p][j])
        IN rows[late.id] = late /\ OnlyHere(p, i) =>
              Expired(early, clock) \/ rows[early.id] = early

(* A span whose event ID nobody uses for another span is never answered    *)
(* 409, not even when a retry writes its timestamps with another offset.   *)
NoFalseConflict ==
    \A r \in Requests : request[r] = "409" =>
        \E s \in SentSpans : s.id = Sent(r).id
                              /\ <<s.ended, s.body>> # <<Sent(r).ended, Sent(r).body>>

(* Expired rows do not stay, also those that a slow request inserts after  *)
(* a prune has passed.                                                     *)
ExpiredRowsVanish ==
    <>[](\A i \in EventIds : rows[i] # None => ~Expired(rows[i], clock))
=============================================================================
