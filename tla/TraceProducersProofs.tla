------------------------- MODULE TraceProducersProofs -------------------------
(* What the demo clients report and what readers see of their traces is     *)
(* true, for any number of attempts, reruns, ticks, polls and faults.       *)
EXTENDS TraceProducers, AgentIngestProofs

S == "synthetic"

Executing == {"connecting", "calling", "saving", "closing"}

(* What the client's own variables tell about each other. *)
OwnInv ==
    /\ phase \in Executing => client = None
    /\ phase \notin Executing => client \in Clients
    /\ phase = "closing" \/ client \in {"notClosed", "succeeded"} => artifact = "complete"
    /\ polls < MaxQueries \/ phase = "failed"

(* One client is at work, the others are silent.                            *)
SilentInv == \A r \in Requests : request[r] # "unsent" => r.producer = client

(* mcp_execution.py publishes as any producer of AgentIngest does.          *)
LoopInv == client # S => FreshInv /\ PublishedInv

(* agent-executions.py starts its script again with each of its attempts.   *)
LaterRun(r) ==
    \/ r.attempt > attempt[S]
    \/ r.attempt = attempt[S] /\ r.index > index[S]
    \/ r.attempt = attempt[S] /\ r.index = index[S] /\ producing[S] = "sending"

ScriptInv ==
    client = S =>
        /\ \A r \in Requests : r.producer = S /\ LaterRun(r) => request[r] = "unsent"
        /\ \A i \in 2..5 : i < index[S] \/ producing[S] = "done" => Inserted(S, i)
        /\ \A r \in Requests : r.producer = S /\ r.index = 6 /\ request[r] # "unsent" =>
              Inserted(S, 3)

IInv ==
    /\ ClientTypeOK /\ OwnInv /\ SilentInv /\ LoopInv /\ ScriptInv
    /\ TracedInv /\ DurableInv

-----------------------------------------------------------------------------
(* What the clients send *)

LEMMA Clientele ==
    /\ Producers = {"notCalled", "callFailed", "notSaved", "notClosed", "succeeded", S}
    /\ Publications["notCalled"] = << RunEnded("failed") >>
    /\ Publications["callFailed"] = << Event("tool", "failed"), RunEnded("failed") >>
    /\ Publications["notSaved"] = << ToolCalled, RunEnded("failed") >>
    /\ Publications["notClosed"] = << ToolCalled, ArtifactSaved, RunEnded("failed") >>
    /\ Publications["succeeded"] = << ToolCalled, ArtifactSaved, RunEnded("succeeded") >>
    /\ Publications[S] = Script
  BY ClientsAssumption DEF Recorded, Clients, S

LEMMA Scripted ==
    /\ Len(Script) = 6 /\ DOMAIN Script = 1..6
    /\ Script[1] = [Root EXCEPT !.wellFormed = FALSE]
    /\ Script[2] = Event("control", "run")
    /\ Script[3] = Child /\ Script[4] = Root /\ Script[5] = Child
    /\ Script[6] = [Child EXCEPT !.body = "altered"]
    /\ Wanted[1] = "400" /\ Wanted[6] = "409"
    /\ \A i \in 2..5 : Wanted[i] = "204"
<1>1. Wanted[2] = "204" /\ Wanted[3] = "204" /\ Wanted[4] = "204" /\ Wanted[5] = "204"
  BY DEF Wanted
<1>2. \A i \in 2..5 : i = 2 \/ i = 3 \/ i = 4 \/ i = 5
  OBVIOUS
<1> QED BY <1>1, <1>2 DEF Script, Wanted

(* Every span of every client ended at one time; its event ID and body tell *)
(* which client sent it, and where in its list it stands.                   *)
LEMMA SentBy ==
    ASSUME NEW p \in Producers, NEW i \in DOMAIN Publications[p]
    PROVE  LET s == Publications[p][i] IN
           /\ s.ended = 0
           /\ s.id = "artifact" => p \in {"notClosed", "succeeded"}
           /\ s.id = "run" /\ s.body = "succeeded" => p = "succeeded" /\ i = 3
           /\ p = S => i \in 1..6 /\ s = Script[i]
           /\ p # S => s.id \in {"tool", "artifact", "run"}
<1>1. CASE p = "notCalled"
  BY <1>1, Clientele DEF Event, RunEnded, S
<1>2. CASE p = "callFailed"
  BY <1>2, Clientele DEF Event, RunEnded, S
<1>3. CASE p = "notSaved"
  BY <1>3, Clientele DEF Event, RunEnded, ToolCalled, S
<1>4. CASE p = "notClosed"
  BY <1>4, Clientele DEF Event, RunEnded, ToolCalled, ArtifactSaved, S
<1>5. CASE p = "succeeded"
  BY <1>5, Clientele DEF Event, RunEnded, ToolCalled, ArtifactSaved, S
<1>6. CASE p = S
  <2>1. Publications[p] = Script /\ i \in 1..6
    BY <1>6, Clientele, Scripted
  <2>2. i = 1 \/ i = 2 \/ i = 3 \/ i = 4 \/ i = 5 \/ i = 6
    BY <2>1
  <2> QED BY <1>6, <2>1, <2>2, Scripted DEF Event, Root, Child, S
<1> QED BY <1>1, <1>2, <1>3, <1>4, <1>5, <1>6, Clientele

LEMMA RequestBy ==
    ASSUME NEW r \in Requests
    PROVE  /\ r.producer \in Clients /\ r.producer # None
           /\ Sent(r).ended = 0 /\ SpanOf(r).ended = 0
           /\ SpanOf(r).id = Sent(r).id /\ SpanOf(r).body = Sent(r).body
           /\ Sent(r).id = "artifact" => r.producer \in {"notClosed", "succeeded"}
           /\ Sent(r).id = "run" /\ Sent(r).body = "succeeded" =>
                 r.producer = "succeeded" /\ r.index = 3
           /\ r.producer = S => r.index \in 1..6 /\ Sent(r) = Script[r.index]
           /\ r.producer # S => Sent(r).id \in {"tool", "artifact", "run"}
<1>1. r.producer \in Producers /\ r.index \in DOMAIN Publications[r.producer]
  BY RequestParts
<1>2. r.producer \in Clients /\ r.producer # None
  BY <1>1, ClientsAssumption
<1>3. SpanOf(r).id = Sent(r).id /\ SpanOf(r).body = Sent(r).body
      /\ SpanOf(r).ended = Sent(r).ended
  BY DEF SpanOf, Normalized
<1> QED BY <1>1, <1>2, <1>3, SentBy DEF Sent

(* So all of them expire together.                                          *)
Over == Retention < clock

LEMMA ExpireTogether ==
    ASSUME NEW s, s.ended = 0 PROVE Expired(s, clock) <=> Over
  BY IngestAssumption DEF Expired, Over

-----------------------------------------------------------------------------
(* The steps of a client, by what they do to the service's state *)

ClientStep == [ClientNext]_allVars

Alone == Connect \/ CallTool \/ SaveArtifact \/ Close \/ Record \/ OpenFixture \/ Query

Served ==
    \/ \E r \in Requests : Validate(r) \/ Insert(r)
    \/ PruneStart \/ PruneDelete \/ PruneFails \/ Restart \/ Tick

LEMMA StepKinds ==
    ASSUME ClientStep, ClientTypeOK
    PROVE  \/ Alone /\ UNCHANGED vars
           \/ UNCHANGED allVars
           \/ SendNext \/ Publish \/ Check \/ RunAgain
           \/ Served /\ UNCHANGED own
  BY DEF ClientStep, ClientNext, ClientRuns, Alone, Served, Handle, Prune, Fault, ClockTicks,
         Connect, CallTool, SaveArtifact, Close, Record, OpenFixture, Query, allVars

LEMMA ServedIsNext == ASSUME Served PROVE [Next]_vars
  BY DEF Served, Next

LEMMA ServedKeepsProducers == ASSUME Served PROVE UNCHANGED <<index, attempt, producing>>
  BY DEF Served, Validate, Insert, PruneStart, PruneDelete, PruneFails, Restart, Tick

LEMMA ClientProduces ==
    ASSUME IInv, phase \notin Executing
    PROVE  client \in Producers
  BY Clientele, ClientsAssumption DEF IInv, OwnInv

LEMMA ClientSends == ASSUME IInv, SendNext PROVE client \in Producers /\ Send(client)
  BY ClientProduces DEF SendNext, Executing

LEMMA ClientPublishes ==
    ASSUME IInv, Publish
    PROVE  client \in Producers /\ client # S /\ [Next]_vars /\ UNCHANGED own
           /\ UNCHANGED <<rows, request, clock>>
<1>1. client \in Producers /\ client # S
  BY ClientProduces DEF Publish, Executing, S
<1> QED BY <1>1 DEF Publish, Next, Receive, TransportError

(* Of agent-executions.py: an answer that is asserted, or the end.          *)
LEMMA CheckParts ==
    ASSUME Check
    PROVE  /\ phase = "publishing" /\ client = S /\ producing[S] = "waiting"
           /\ UNCHANGED <<rows, request, attempt, prune, clock, faults, client, artifact,
                          fixture, polls>>
           /\ \/ request[Current(S)] = Wanted[index[S]] /\ Proceed /\ UNCHANGED phase
              \/ phase' = "failed" /\ UNCHANGED <<index, producing>>
  BY DEF Check, S

-----------------------------------------------------------------------------
(* Types *)

LEMMA ScriptIndex ==
    ASSUME TypeOK, producing[S] \in {"sending", "waiting"}
    PROVE  index[S] \in 1..6 /\ index[S] \in DOMAIN Publications[S] /\ S \in Producers
  BY Clientele, Scripted DEF TypeOK

LEMMA CheckTyped == ASSUME TypeOK, Check PROVE TypeOK'
<1>1. S \in Producers /\ index[S] \in 1..6
  BY CheckParts, ScriptIndex
<1>2. CASE Proceed /\ index[S] < 6
  <2>1. index[S] + 1 \in DOMAIN Publications[S] /\ index[S] + 1 \in Nat \ {0}
    BY <1>1, <1>2, Clientele, Scripted
  <2>2. index' = [index EXCEPT ![S] = index[S] + 1] /\ producing' = [producing EXCEPT ![S] = "sending"]
    BY <1>2, Scripted DEF Proceed, S
  <2> QED BY <1>1, <2>1, <2>2, CheckParts DEF TypeOK
<1>3. CASE Proceed /\ ~(index[S] < 6)
  <2>1. index' = index /\ producing' = [producing EXCEPT ![S] = "done"]
    BY <1>3, Scripted DEF Proceed, S
  <2> QED BY <1>1, <2>1, CheckParts DEF TypeOK
<1>4. CASE UNCHANGED <<index, producing>>
  BY <1>4, CheckParts DEF TypeOK
<1> QED BY <1>2, <1>3, <1>4, CheckParts

LEMMA RunAgainTyped == ASSUME TypeOK, RunAgain PROVE TypeOK'
<1>1. S \in Producers /\ 1 \in DOMAIN Publications[S]
  BY Clientele, Scripted
<1>2. attempt[S] + 1 \in 1..MaxAttempts
  BY <1>1, IngestAssumption DEF TypeOK, RunAgain, S
<1>3. /\ index' = [index EXCEPT ![S] = 1]
      /\ attempt' = [attempt EXCEPT ![S] = attempt[S] + 1]
      /\ producing' = [producing EXCEPT ![S] = "sending"]
      /\ UNCHANGED <<rows, request, prune, clock, faults>>
  BY DEF RunAgain, S
<1> QED BY <1>1, <1>2, <1>3 DEF TypeOK

LEMMA ServiceTypeStep == ASSUME IInv, ClientStep PROVE TypeOK'
<1>0. TypeOK /\ ClientTypeOK
  BY DEF IInv, ClientTypeOK
<1>1. CASE UNCHANGED vars
  BY <1>0, <1>1, TypeStep
<1>2. CASE SendNext
  BY <1>0, <1>2, ClientSends, TypeStep DEF Next
<1>3. CASE Publish
  BY <1>0, <1>3, ClientPublishes, TypeStep
<1>4. CASE Check
  BY <1>0, <1>4, CheckTyped
<1>5. CASE RunAgain
  BY <1>0, <1>5, RunAgainTyped
<1>6. CASE Served
  BY <1>0, <1>6, ServedIsNext, TypeStep
<1> QED BY <1>0, <1>1, <1>2, <1>3, <1>4, <1>5, <1>6, StepKinds DEF allVars

LEMMA OwnStep ==
    ASSUME IInv, ClientStep
    PROVE  /\ ClientTypeOK' /\ OwnInv'
           /\ client' # client => client = None /\ client' \in Clients \ {S} /\ UNCHANGED vars
<1> DEFINE Moved == client' # client =>
                      client = None /\ client' \in Clients \ {S} /\ UNCHANGED vars
<1>0. ClientTypeOK /\ OwnInv /\ TypeOK'
  BY ServiceTypeStep DEF IInv
<1>t. {"notCalled", "callFailed", "notSaved", "notClosed", "succeeded"} = Clients \ {S}
  BY Clientele, ClientsAssumption DEF S
<1> USE DEF Executing
<1>1. CASE Connect
  BY <1>0, <1>1, <1>t DEF Connect, Finish, ClientTypeOK, OwnInv
<1>2. CASE CallTool
  BY <1>0, <1>2, <1>t DEF CallTool, Finish, ClientTypeOK, OwnInv
<1>3. CASE SaveArtifact
  BY <1>0, <1>3, <1>t DEF SaveArtifact, Finish, ClientTypeOK, OwnInv
<1>4. CASE Close
  BY <1>0, <1>4, <1>t DEF Close, Finish, ClientTypeOK, OwnInv
<1>5. CASE Record
  BY <1>0, <1>5 DEF Record, ClientTypeOK, OwnInv
<1>6. CASE OpenFixture
  BY <1>0, <1>6 DEF OpenFixture, ClientTypeOK, OwnInv
<1>7. CASE Query
  <2>1. polls + 1 \in 0..MaxQueries \/ ~(polls < MaxQueries)
    BY <1>0, ClientsAssumption DEF ClientTypeOK
  <2>2. polls < MaxQueries
    BY <1>0, <1>7 DEF Query, OwnInv
  <2>3. phase' \in {"publishing", "verified", "mismatch", "failed"} /\ polls' \in 0..MaxQueries
        /\ (polls' < MaxQueries \/ phase' = "failed")
    BY <1>0, <1>7, <2>1, <2>2, ClientsAssumption DEF Query, ClientTypeOK
  <2> QED BY <1>0, <1>7, <2>3 DEF Query, ClientTypeOK, OwnInv
<1>8. CASE Check
  BY <1>0, <1>8, CheckParts DEF ClientTypeOK, OwnInv
<1>9. CASE RunAgain
  BY <1>0, <1>9, ClientsAssumption DEF RunAgain, ClientTypeOK, OwnInv
<1>10. CASE UNCHANGED own
  BY <1>0, <1>10 DEF own, ClientTypeOK, OwnInv
<1> QED BY <1>0, <1>1, <1>2, <1>3, <1>4, <1>5, <1>6, <1>7, <1>8, <1>9, <1>10, StepKinds,
           ClientPublishes DEF Alone, SendNext, allVars

-----------------------------------------------------------------------------
(* Requests *)

LEMMA IsCurrent ==
    ASSUME TypeOK, NEW r \in Requests, r.index = index[r.producer],
           r.attempt = attempt[r.producer]
    PROVE  r = Current(r.producer)
<1>1. PICK p \in Producers :
        r \in [producer: {p}, index: DOMAIN Publications[p], attempt: 1..MaxAttempts]
  BY DEF Requests
<1> QED BY <1>1 DEF Current

(* What a client sends has not been sent before.                            *)
LEMMA SentIsFresh ==
    ASSUME IInv, SendNext
    PROVE  /\ Current(client) \in Requests /\ Current(client).producer = client
           /\ request[Current(client)] = "unsent"
           /\ request' = [request EXCEPT ![Current(client)] = "sent"]
           /\ UNCHANGED <<rows, index, attempt, clock, own>>
<1>1. client \in Producers /\ Send(client) /\ TypeOK
  BY ClientSends DEF IInv, ClientTypeOK
<1>2. Current(client) \in Requests /\ Current(client).producer = client
  BY <1>1, CurrentIsRequest DEF Send, Current
<1>3. CASE client # S
  <2>1. Later(client, Current(client))
    BY <1>1 DEF Send, Later, Current
  <2> QED BY <1>1, <1>2, <1>3, <2>1 DEF IInv, LoopInv, FreshInv, Send, SendNext
<1>4. CASE client = S
  <2>1. LaterRun(Current(S))
    BY <1>1, <1>4 DEF Send, LaterRun, Current
  <2> QED BY <1>1, <1>2, <1>4, <2>1 DEF IInv, ScriptInv, Send, SendNext
<1> QED BY <1>3, <1>4

(* No step takes back an answer or makes a request unsent.                  *)
LEMMA AnswersRemain ==
    ASSUME IInv, ClientStep, NEW r \in Requests
    PROVE  /\ request[r] = "204" => request'[r] = "204"
           /\ request[r] # "unsent" => request'[r] # "unsent"
           /\ request[r] = "unsent" /\ request'[r] # "unsent" =>
                 SendNext /\ r = Current(client)
<1>0. TypeOK /\ ClientTypeOK
  BY DEF IInv, ClientTypeOK
<1>1. CASE UNCHANGED request
  BY <1>1
<1>2. CASE SendNext
  BY <1>0, <1>2, SentIsFresh DEF TypeOK
<1>3. ASSUME NEW q \in Requests, Validate(q) \/ Insert(q)
      PROVE  /\ request[r] = "204" => request'[r] = "204"
             /\ request[r] # "unsent" => request'[r] # "unsent"
             /\ request[r] = "unsent" => request'[r] = "unsent"
  BY <1>0, <1>3 DEF Validate, Insert, TypeOK
<1>4. CASE Restart
  BY <1>4 DEF Restart
<1> QED BY <1>0, <1>1, <1>2, <1>3, <1>4, StepKinds, ClientPublishes
        DEF Served, PruneStart, PruneDelete, PruneFails, Tick, Check, RunAgain, vars, allVars

LEMMA SilentStep == ASSUME IInv, ClientStep PROVE SilentInv'
<1> SUFFICES ASSUME NEW r \in Requests, request'[r] # "unsent" PROVE r.producer = client'
  BY DEF SilentInv
<1>1. CASE request[r] = "unsent"
  BY <1>1, AnswersRemain, SentIsFresh DEF own
<1>2. CASE request[r] # "unsent"
  <2>1. r.producer = client /\ client # None
    BY <1>2, RequestBy DEF IInv, SilentInv
  <2> QED BY <2>1, OwnStep
<1> QED BY <1>1, <1>2

LEMMA TracedRemains == ASSUME IInv, ClientStep PROVE TracedInv'
<1>0. TypeOK /\ ClientTypeOK /\ TracedInv
  BY DEF IInv, ClientTypeOK
<1>1. CASE UNCHANGED <<rows, request>>
  BY <1>0, <1>1 DEF TracedInv, Source
<1>2. CASE SendNext
  BY <1>0, <1>2, ClientSends, TracedStep DEF Next
<1>3. CASE Served
  BY <1>0, <1>3, ServedIsNext, TracedStep
<1> QED BY <1>0, <1>1, <1>2, <1>3, StepKinds, ClientPublishes
        DEF Check, RunAgain, vars, allVars

-----------------------------------------------------------------------------
(* Durability *)

LEMMA LedgerKeeps ==
    ASSUME TypeOK, DurableInv, [L!LedgerNext]_<<rows, Acked, clock>>
    PROVE  DurableInv'
<1>0. \A s \in Acked : s \in Spans /\ s.id \in EventIds /\ s.ended \in Nat
  BY RequestParts, SpanEnds DEF Acked
<1>1. CASE UNCHANGED <<rows, Acked, clock>>
  BY <1>1 DEF DurableInv, Expired
<1>2. ASSUME NEW s \in Spans, L!Record(s) PROVE DurableInv'
  <2>1. s.id \in EventIds
    BY DEF EventIds
  <2>2. /\ rows[s.id] \in {None, s} /\ rows' = [rows EXCEPT ![s.id] = s]
        /\ Acked' \in {Acked, Acked \cup {s}} /\ clock' = clock
    BY <1>2 DEF L!Record
  <2> SUFFICES ASSUME NEW q \in Acked', ~Expired(q, clock) PROVE rows'[q.id] = q
    BY <2>2 DEF DurableInv, Expired
  <2>3. CASE q = s
    BY <2>1, <2>2, <2>3 DEF TypeOK
  <2>4. CASE q # s
    <3>1. q \in Acked /\ rows[q.id] = q
      BY <2>2, <2>4 DEF DurableInv
    <3>2. q \in Spans /\ q.id \in EventIds /\ q # None
      BY <1>0, <3>1, IngestAssumption
    <3> QED BY <2>1, <2>2, <2>4, <3>1, <3>2 DEF TypeOK
  <2> QED BY <2>3, <2>4
<1>3. CASE L!Forget
  BY <1>0, <1>3, SameEventIds DEF L!Forget, L!Expired, DurableInv, Expired
<1>4. CASE L!Age
  <2> SUFFICES ASSUME NEW q \in Acked, ~Expired(q, clock + 1) PROVE rows[q.id] = q
    BY <1>4 DEF L!Age, DurableInv, Expired
  <2>1. ~Expired(q, clock)
    BY <1>0, IngestAssumption DEF Expired, TypeOK
  <2> QED BY <2>1 DEF DurableInv
<1> QED BY <1>1, <1>2, <1>3, <1>4 DEF L!LedgerNext

(* Only an insert, a prune and the clock move the ledger.                   *)
LEMMA ClientLedgerStep ==
    ASSUME IInv, ClientStep
    PROVE  [L!LedgerNext]_<<rows, Acked, clock>>
<1>0. TypeOK /\ ClientTypeOK /\ TypeOK'
  BY ServiceTypeStep DEF IInv, ClientTypeOK
<1>1. ASSUME UNCHANGED <<rows, clock>>, \A r \in Requests : request'[r] = "204" <=> request[r] = "204"
      PROVE  UNCHANGED <<rows, Acked, clock>>
  BY <1>1, AckedUnchanged
<1>2. CASE SendNext
  BY <1>0, <1>1, <1>2, SentIsFresh DEF TypeOK
<1>3. ASSUME NEW r \in Requests, Validate(r) PROVE UNCHANGED <<rows, Acked, clock>>
  BY <1>0, <1>1, <1>3 DEF Validate, TypeOK
<1>4. ASSUME NEW r \in Requests, Insert(r) PROVE [L!LedgerNext]_<<rows, Acked, clock>>
  BY <1>0, <1>4, InsertRecords, RequestParts DEF L!LedgerNext
<1>5. CASE PruneDelete
  BY <1>0, <1>5, PruneForgets DEF L!LedgerNext
<1>6. CASE Restart
  BY <1>1, <1>6 DEF Restart
<1>7. CASE Tick
  <2>1. Acked' = Acked
    BY <1>7, AckedUnchanged DEF Tick
  <2> QED BY <1>7, <2>1 DEF Tick, L!LedgerNext, L!Age
<1>8. CASE UNCHANGED <<rows, request, clock>>
  BY <1>1, <1>8
<1> QED BY <1>0, <1>2, <1>3, <1>4, <1>5, <1>6, <1>7, <1>8, StepKinds, ClientPublishes
        DEF Served, PruneStart, PruneFails, Check, RunAgain, vars, allVars

LEMMA DurableStep == ASSUME IInv, ClientStep PROVE DurableInv'
  BY ClientLedgerStep, LedgerKeeps DEF IInv, ClientTypeOK

-----------------------------------------------------------------------------
(* The two loops *)

LEMMA LoopStep == ASSUME IInv, ClientStep PROVE LoopInv'
<1> SUFFICES ASSUME client' # S PROVE FreshInv' /\ PublishedInv'
  BY DEF LoopInv
<1>0. TypeOK /\ ClientTypeOK /\ client # S
  BY OwnStep, ClientsAssumption, Clientele DEF IInv, ClientTypeOK
<1>1. FreshInv /\ PublishedInv
  BY <1>0 DEF IInv, LoopInv
<1>2. [Next]_vars
  <2>1. CASE SendNext
    BY <2>1, ClientSends DEF Next
  <2>2. ~Check /\ ~RunAgain
    BY <1>0 DEF Check, RunAgain, S
  <2> QED BY <1>0, <2>1, <2>2, StepKinds, ClientPublishes, ServedIsNext DEF allVars
<1> QED BY <1>0, <1>1, <1>2, FreshStep, PublishedStep

LEMMA InsertedRemains ==
    ASSUME IInv, ClientStep, NEW p, NEW i, Inserted(p, i) PROVE Inserted(p, i)'
  BY AnswersRemain DEF Inserted

LEMMA ScriptStep == ASSUME IInv, ClientStep PROVE ScriptInv'
<1> SUFFICES ASSUME client' = S PROVE ScriptInv'
  BY DEF ScriptInv
<1>0. client = S /\ TypeOK /\ ClientTypeOK /\ S \in Producers
  BY OwnStep, Clientele DEF IInv, ClientTypeOK
<1>1. /\ \A r \in Requests : r.producer = S /\ LaterRun(r) => request[r] = "unsent"
      /\ \A i \in 2..5 : i < index[S] \/ producing[S] = "done" => Inserted(S, i)
      /\ \A r \in Requests : r.producer = S /\ r.index = 6 /\ request[r] # "unsent" =>
            Inserted(S, 3)
  BY <1>0 DEF IInv, ScriptInv
<1>2. /\ index[S] \in Nat /\ attempt[S] \in Nat
      /\ \A r \in Requests : r.index \in Nat /\ r.attempt \in Nat
  BY <1>0, RequestParts, IngestAssumption DEF TypeOK
<1>3. ASSUME NEW r \in Requests, r.producer = S, LaterRun(r)' PROVE request'[r] = "unsent"
  <2>1. CASE SendNext
    <3>1. producing'[S] = "waiting" /\ index' = index /\ attempt' = attempt
      BY <1>0, <2>1, ClientSends DEF Send, TypeOK
    <3>2. LaterRun(r) /\ r # Current(S)
      BY <1>2, <1>3, <3>1 DEF LaterRun, Current
    <3> QED BY <1>0, <1>1, <1>3, <2>1, <3>2, AnswersRemain
  <2>2. CASE Check
    <3>1. LaterRun(r)
      BY <1>0, <1>2, <1>3, <2>2, CheckParts DEF LaterRun, Proceed, S, TypeOK
    <3> QED BY <1>1, <1>3, <2>2, <3>1, CheckParts
  <2>3. CASE RunAgain
    <3>1. LaterRun(r)
      BY <1>0, <1>2, <1>3, <2>3 DEF LaterRun, RunAgain, S, TypeOK
    <3> QED BY <1>1, <1>3, <2>3, <3>1 DEF RunAgain
  <2>4. CASE ~SendNext /\ UNCHANGED <<index, attempt, producing>>
    BY <1>1, <1>3, <2>4, AnswersRemain DEF LaterRun
  <2> QED BY <1>0, <2>1, <2>2, <2>3, <2>4, StepKinds, ClientPublishes, ServedKeepsProducers
          DEF vars, allVars
<1>4. ASSUME NEW i \in 2..5, (i < index[S] \/ producing[S] = "done")' PROVE Inserted(S, i)'
  <2>1. ASSUME i < index[S] \/ producing[S] = "done" PROVE Inserted(S, i)'
    BY <1>1, <2>1, InsertedRemains
  <2>2. CASE SendNext
    BY <1>0, <1>4, <2>1, <2>2, ClientSends DEF Send, TypeOK
  <2>3. CASE Check
    <3>1. CASE Proceed /\ request[Current(S)] = Wanted[index[S]]
      <4>1. Current(S) \in Requests /\ index[S] \in 1..6
        BY <1>0, <2>3, CheckParts, CurrentIsRequest, ScriptIndex
      <4>2. CASE i = index[S]
        <5>1. request[Current(S)] = "204"
          BY <3>1, <4>2, Scripted
        <5>2. Inserted(S, i)
          BY <4>1, <4>2, <5>1 DEF Inserted, Current
        <5> QED BY <5>2, InsertedRemains
      <4>3. CASE i # index[S]
        <5>1. i < index[S] \/ producing[S] = "done"
          BY <1>0, <1>4, <3>1, <4>1, <4>3, Scripted DEF Proceed, S, TypeOK
        <5> QED BY <2>1, <5>1
      <4> QED BY <4>2, <4>3
    <3> QED BY <1>4, <2>1, <2>3, <3>1, CheckParts
  <2>4. CASE RunAgain
    BY <1>0, <1>4, <2>4 DEF RunAgain, S, TypeOK
  <2>5. CASE UNCHANGED <<index, producing>>
    BY <1>4, <2>1, <2>5
  <2> QED BY <1>0, <2>2, <2>3, <2>4, <2>5, StepKinds, ClientPublishes, ServedKeepsProducers
          DEF vars, allVars
<1>5. ASSUME NEW r \in Requests, r.producer = S, r.index = 6, request'[r] # "unsent"
      PROVE  Inserted(S, 3)'
  <2>1. CASE request[r] # "unsent"
    BY <1>1, <1>5, <2>1, InsertedRemains
  <2>2. CASE request[r] = "unsent"
    <3>1. r = Current(S)
      BY <1>0, <1>5, <2>2, AnswersRemain
    <3>2. 3 < index[S] /\ 3 \in 2..5
      BY <1>5, <3>1 DEF Current
    <3> QED BY <1>1, <3>2, InsertedRemains
  <2> QED BY <2>1, <2>2
<1> QED BY <1>3, <1>4, <1>5 DEF ScriptInv

-----------------------------------------------------------------------------

LEMMA ClientStart == ClientInit => IInv
<1> SUFFICES ASSUME ClientInit PROVE IInv
  OBVIOUS
<1>0. Init /\ TypeOK /\ S \in Producers /\ S \in Clients
  BY TypeInit, Clientele, ClientsAssumption DEF ClientInit
<1>1. ClientTypeOK /\ OwnInv
  <2>1. 0 \in 0..MaxQueries /\ 0 < MaxQueries
    BY ClientsAssumption
  <2> QED BY <1>0, <2>1, ClientsAssumption, Clientele
          DEF ClientInit, ClientTypeOK, OwnInv, Executing, S
<1>2. \A r \in Requests : request[r] = "unsent"
  BY <1>0 DEF Init
<1>3. FreshInv /\ PublishedInv /\ TracedInv
  BY <1>0, FreshInit, PublishedInit, TracedInit
<1>4. Acked = {}
  BY <1>2 DEF Acked
<1>5. index[S] = 1 /\ producing[S] = "sending"
  <2>1. Publications[S] # <<>>
    <3>1. Len(Publications[S]) # Len(<<>>)
      BY Clientele, Scripted
    <3> QED BY <3>1
  <2> QED BY <1>0, <2>1 DEF Init
<1>6. \A i \in 2..5 : ~(i < index[S] \/ producing[S] = "done")
  BY <1>5
<1> QED BY <1>1, <1>2, <1>3, <1>4, <1>6
        DEF IInv, SilentInv, LoopInv, ScriptInv, DurableInv

LEMMA IInvStep == IInv /\ [ClientNext]_allVars => IInv'
<1> SUFFICES ASSUME IInv, ClientStep PROVE IInv'
  BY DEF ClientStep
<1> QED BY OwnStep, SilentStep, LoopStep, ScriptStep, TracedRemains, DurableStep DEF IInv

LEMMA ClientInvariant == ClientSpec => []IInv
  BY ClientStart, IInvStep, PTL DEF ClientSpec

(* Whoever the client is, whatever it asks again after a timeout, a crash or *)
(* a rerun: what it makes of the table is a ledger of immutable spans, and  *)
(* 204 acknowledges what the ledger holds.                                  *)
THEOREM ClientsKeepTheLedger == ClientSpec => ImplementsLedger
<1>1. ClientInit => L!LedgerInit
  BY LedgerStart DEF ClientInit
<1>2. IInv /\ [ClientNext]_allVars => [L!LedgerNext]_<<rows, Acked, clock>>
  BY ClientLedgerStep DEF ClientStep
<1> QED BY <1>1, <1>2, ClientInvariant, PTL DEF ClientSpec, ImplementsLedger, L!Ledger

(* The types of the clients' variables and of the service's: a client stays *)
(* inside its list of spans and below its bounds on attempts and polls.     *)
THEOREM ClientTypes == ClientSpec => []ClientTypeOK
<1>1. IInv => ClientTypeOK
  BY DEF IInv
<1> QED BY <1>1, ClientInvariant, PTL

-----------------------------------------------------------------------------
(* What readers of the table see *)

(* A row was sent by the client, and an answered span is there.             *)
LEMMA RowsAreSent ==
    ASSUME IInv, NEW i \in EventIds, rows[i] # None
    PROVE  \E r \in Requests : SpanOf(r) = rows[i] /\ request[r] # "unsent"
                               /\ r.producer = client /\ SpanOf(r).id = i
<1>1. PICK r \in Requests : Source(rows[i], r)
  BY DEF IInv, TracedInv
<1> QED BY <1>1 DEF IInv, SilentInv, Source, ClientTypeOK, TypeOK

LEMMA InsertedIsStored ==
    ASSUME IInv, NEW p \in Producers, NEW i \in DOMAIN Publications[p], Inserted(p, i)
    PROVE  LET s == Normalized(Publications[p][i]) IN Over \/ rows[s.id] = s
<1> DEFINE s == Normalized(Publications[p][i])
<1>1. PICK r \in Requests : r.producer = p /\ r.index = i /\ request[r] = "204"
  BY DEF Inserted
<1>2. s \in Acked /\ s.ended = 0
  BY <1>1, RequestBy DEF Acked, SpanOf, Sent
<1> QED BY <1>2, ExpireTogether DEF IInv, DurableInv

LEMMA SuccessFollows == ASSUME IInv PROVE SuccessIsReal
<1>0. {"run", "artifact"} \subseteq EventIds
  <2>1. {Publications["succeeded"][2], Publications["succeeded"][3]} \subseteq SentSpans
    BY Clientele DEF SentSpans
  <2>2. Publications["succeeded"][2].id = "artifact" /\ Publications["succeeded"][3].id = "run"
    BY Clientele DEF ArtifactSaved, RunEnded, Event
  <2>3. ASSUME NEW s \in SentSpans PROVE s.id \in EventIds
    <3>1. Normalized(s) \in Spans /\ Normalized(s).id = s.id
      BY DEF Spans, Normalized
    <3> QED BY <3>1 DEF EventIds
  <2> QED BY <2>1, <2>2, <2>3
<1>1. ASSUME rows["artifact"] # None PROVE artifact = "complete"
  <2>1. PICK r \in Requests : r.producer = client /\ SpanOf(r).id = "artifact"
    BY <1>0, <1>1, RowsAreSent
  <2> QED BY <2>1, RequestBy DEF IInv, OwnInv
<1>2. ASSUME rows["run"] = Normalized(RunEnded("succeeded"))
      PROVE  /\ artifact = "complete"
             /\ \A s \in {ToolCalled, ArtifactSaved} :
                    rows[s.id] = Normalized(s) \/ Expired(s, clock)
  <2>1. rows["run"] # None /\ rows["run"].body = "succeeded"
    <3>1. Publications["succeeded"][3] \in SentSpans /\ Publications["succeeded"][3] = RunEnded("succeeded")
      BY Clientele DEF SentSpans
    <3> QED BY <1>2, <3>1, IngestAssumption DEF Spans, Normalized, RunEnded, Event
  <2>2. PICK r \in Requests : /\ SpanOf(r) = rows["run"] /\ request[r] # "unsent"
                              /\ r.producer = client /\ SpanOf(r).id = "run"
    BY <1>0, <2>1, RowsAreSent
  <2>3. client = "succeeded" /\ r.producer = "succeeded" /\ r.index = 3
    BY <2>1, <2>2, RequestBy
  <2>4. FreshInv /\ PublishedInv /\ TypeOK
    BY <2>3 DEF IInv, LoopInv, ClientTypeOK, S
  <2>5. "succeeded" \in Producers /\ index["succeeded"] \in Nat
    BY <2>4, Clientele DEF TypeOK
  <2>6. 3 <= index["succeeded"]
    BY <2>2, <2>3, <2>4, <2>5 DEF FreshInv, Later
  <2>7. \A i \in {1, 2} : i \in DOMAIN Publications["succeeded"] /\ i < index["succeeded"]
    BY <2>5, <2>6, Clientele
  <2>8. \A i \in {1, 2} : LET s == Normalized(Publications["succeeded"][i])
                          IN Over \/ rows[s.id] = s
    BY <2>4, <2>5, <2>7, InsertedIsStored DEF PublishedInv
  <2>9. Publications["succeeded"][1] = ToolCalled /\ Publications["succeeded"][2] = ArtifactSaved
    BY Clientele
  <2>10. Normalized(ToolCalled).id = ToolCalled.id /\ Normalized(ArtifactSaved).id = ArtifactSaved.id
         /\ ToolCalled.ended = 0 /\ ArtifactSaved.ended = 0
    BY DEF Normalized, ToolCalled, ArtifactSaved, Event
  <2> QED BY <2>3, <2>8, <2>9, <2>10, ExpireTogether DEF IInv, OwnInv
<1>3. ASSUME Report.status = "succeeded" PROVE artifact = "complete"
  BY <1>3 DEF Report, IInv, OwnInv
<1>4. RunEnded("succeeded").id = "run"
  BY DEF RunEnded, Event
<1> QED BY <1>1, <1>2, <1>3, <1>4 DEF SuccessIsReal

(* However often attempts are repeated, lost or late: a stored or reported  *)
(* success has its result file and the rows that explain it.                *)
THEOREM SuccessesAreReal == ClientSpec => []SuccessIsReal
  BY ClientInvariant, SuccessFollows, PTL

-----------------------------------------------------------------------------
(* What the clients are answered *)

LEMMA OverRemains == ASSUME IInv, ClientStep, Over PROVE Over'
<1>0. TypeOK /\ ClientTypeOK
  BY DEF IInv, ClientTypeOK
<1>1. clock' = clock \/ clock' = clock + 1
  BY <1>0, StepKinds, SentIsFresh, ClientPublishes
     DEF Served, Validate, Insert, PruneStart, PruneDelete, PruneFails, Restart, Tick,
         Check, RunAgain, vars, allVars
<1> QED BY <1>0, <1>1, IngestAssumption DEF Over, TypeOK

(* The altered child is only sent when the child has been stored.           *)
LEMMA ChildIsStored ==
    ASSUME IInv, NEW r \in Requests, r.producer = S, r.index = 6, request[r] # "unsent"
    PROVE  Over \/ rows["child"] = Normalized(Child)
<1>1. client = S
  BY DEF IInv, SilentInv
<1>2. Inserted(S, 3)
  BY <1>1 DEF IInv, ScriptInv
<1>3. S \in Producers /\ 3 \in DOMAIN Publications[S] /\ Publications[S][3] = Child
  BY Clientele, Scripted
<1>4. Normalized(Child).id = "child"
  BY DEF Normalized, Child, Event
<1> QED BY <1>2, <1>3, <1>4, InsertedIsStored

(* Until the trace expires, a row of the script is one that is wanted.      *)
LEMMA RowIsWanted ==
    ASSUME IInv, ~Over, NEW i \in EventIds, rows[i] # None, client = S
    PROVE  \E j \in 2..5 : rows[i] = Normalized(Script[j])
<1>1. PICK r \in Requests : SpanOf(r) = rows[i] /\ request[r] # "unsent"
                            /\ r.producer = S /\ SpanOf(r).id = i
  BY RowsAreSent
<1>2. r.index \in 1..6 /\ rows[i] = Normalized(Script[r.index])
  BY <1>1, RequestBy DEF SpanOf
<1>3. CASE r.index = 1
  <2>1. Normalized(Script[1]) = Normalized(Script[4])
    BY Scripted DEF Normalized, Root, Event
  <2> QED BY <1>2, <1>3, <2>1
<1>4. CASE r.index = 6
  <2>1. Script[6].id = "child" /\ Script[6].body = "altered" /\ Child.body = "model"
    BY Scripted DEF Child, Event
  <2>2. rows["child"] = Normalized(Child) /\ rows[i].id = "child" /\ i = "child"
    BY <1>1, <1>2, <1>4, <2>1, ChildIsStored DEF Normalized
  <2>3. rows[i].body = "altered" /\ rows[i].body = "model"
    BY <1>2, <1>4, <2>1, <2>2 DEF Normalized
  <2> QED BY <2>3
<1>5. CASE r.index \in 2..5
  BY <1>2, <1>5
<1> QED BY <1>2, <1>3, <1>4, <1>5

LEMMA ExpectedParts ==
    ASSUME client \in Clients, NEW s
    PROVE  s \in Expected <=>
             \E i \in DOMAIN Publications[client] :
                 s = Normalized(Publications[client][i])
                 /\ (client = S => Wanted[i] = "204")
  BY ClientsAssumption DEF Expected, S

(* A trace that was published is what Cube finds, or has expired.           *)
LEMMA PublishedIsFound ==
    ASSUME IInv, phase = "publishing", producing[client] = "done", ~Over
    PROVE  Found = Expected
<1>0. client \in Producers /\ client \in Clients /\ TypeOK
  BY ClientProduces, ClientsAssumption DEF IInv, ClientTypeOK, Executing
<1>1. ASSUME NEW s \in Expected PROVE s \in Found
  <2>1. PICK i \in DOMAIN Publications[client] :
          s = Normalized(Publications[client][i]) /\ (client = S => Wanted[i] = "204")
    BY <1>0, ExpectedParts
  <2>2. Inserted(client, i)
    <3>1. CASE client = S
      <4>1. i \in 1..6 /\ i # 1 /\ i # 6
        BY <2>1, <3>1, Scripted, Clientele
      <4>2. i \in 2..5
        BY <4>1
      <4> QED BY <3>1, <4>2 DEF IInv, ScriptInv
    <3>2. CASE client # S
      BY <1>0, <3>2 DEF IInv, LoopInv, PublishedInv
    <3> QED BY <3>1, <3>2
  <2>3. rows[s.id] = s
    BY <1>0, <2>1, <2>2, InsertedIsStored
  <2>4. s \in Spans /\ s.id \in EventIds
    BY <1>0, <2>1 DEF Spans, SentSpans, EventIds
  <2> QED BY <2>3, <2>4, IngestAssumption DEF Found
<1>2. ASSUME NEW s \in Found PROVE s \in Expected
  <2>1. PICK i \in EventIds : s = rows[i] /\ rows[i] # None
    BY DEF Found
  <2>2. CASE client = S
    <3>1. PICK j \in 2..5 : s = Normalized(Script[j])
      BY <2>1, <2>2, RowIsWanted
    <3>2. j \in DOMAIN Publications[S] /\ Wanted[j] = "204" /\ Publications[S] = Script
      BY Clientele, Scripted
    <3> QED BY <1>0, <2>2, <3>1, <3>2, ExpectedParts
  <2>3. CASE client # S
    <3>1. PICK r \in Requests : SpanOf(r) = s /\ r.producer = client
      BY <2>1, RowsAreSent
    <3>2. r.index \in DOMAIN Publications[client] /\ s = Normalized(Publications[client][r.index])
      BY <3>1, RequestParts DEF SpanOf, Sent
    <3> QED BY <1>0, <2>3, <3>2, ExpectedParts
  <2> QED BY <2>2, <2>3
<1> QED BY <1>1, <1>2

MismatchInv == phase = "mismatch" => Over

LEMMA MismatchStep == IInv /\ MismatchInv /\ [ClientNext]_allVars => MismatchInv'
<1> SUFFICES ASSUME IInv, MismatchInv, ClientStep, phase' = "mismatch" PROVE Over'
  BY DEF MismatchInv, ClientStep
<1>1. CASE phase = "mismatch"
  BY <1>1, OverRemains DEF MismatchInv
<1>2. CASE phase # "mismatch"
  <2>1. Query
    BY <1>2, StepKinds, CheckParts, ClientPublishes
       DEF IInv, Alone, Connect, CallTool, SaveArtifact, Close, Record, OpenFixture, Finish,
           SendNext, RunAgain, own, allVars
  <2>2. phase = "publishing" /\ producing[client] = "done" /\ Found # Expected
    BY <1>2, <2>1 DEF Query
  <2> QED BY <2>2, PublishedIsFound, OverRemains
<1> QED BY <1>1, <1>2

LEMMA MismatchFollows == ASSUME IInv, MismatchInv PROVE MismatchMeansExpired
<1> SUFFICES ASSUME phase = "mismatch", Over PROVE \E s \in Expected : Expired(s, clock)
  BY DEF MismatchMeansExpired, MismatchInv
<1>0. client \in Producers /\ client \in Clients
  BY ClientProduces, ClientsAssumption DEF IInv, Executing
<1>1. \E i \in DOMAIN Publications[client] : client = S => Wanted[i] = "204"
  <2>1. CASE client = S
    BY <2>1, Clientele, Scripted
  <2>2. CASE client # S
    <3>1. 1 \in DOMAIN Publications[client]
      BY <1>0, <2>2, Clientele
    <3> QED BY <2>2, <3>1
  <2> QED BY <2>1, <2>2
<1>2. PICK i \in DOMAIN Publications[client] : client = S => Wanted[i] = "204"
  BY <1>1
<1>3. Normalized(Publications[client][i]) \in Expected
  BY <1>0, <1>2, ExpectedParts
<1>4. Normalized(Publications[client][i]).ended = 0
  BY <1>0, SentBy DEF Normalized
<1> QED BY <1>3, <1>4, ExpireTogether

(* Whatever was retried, lost, pruned or restarted, what Cube finds of a    *)
(* published trace is what was published, until it expires.                 *)
THEOREM MismatchesAreExpiries == ClientSpec => []MismatchMeansExpired
<1>1. ClientInit => MismatchInv
  BY DEF ClientInit, MismatchInv
<1>2. IInv /\ MismatchInv => MismatchMeansExpired
  BY MismatchFollows
<1> QED BY <1>1, <1>2, MismatchStep, ClientInvariant, PTL DEF ClientSpec

-----------------------------------------------------------------------------
(* Reruns *)

(* The only steps that answer are those of the handler.                     *)
LEMMA AnsweredBy ==
    ASSUME IInv, ClientStep, NEW r \in Requests, request'[r] # request[r],
           request'[r] \in Answers
    PROVE  Validate(r) \/ Insert(r)
<1>0. TypeOK /\ ClientTypeOK
  BY DEF IInv, ClientTypeOK
<1>1. ~SendNext
  BY <1>0, SentIsFresh DEF TypeOK, Answers
<1>2. Served
  BY <1>0, <1>1, StepKinds, ClientPublishes DEF Check, RunAgain, vars, allVars
<1>3. ~Restart
  BY DEF Restart, Answers
<1>4. PICK q \in Requests : Validate(q) \/ Insert(q)
  BY <1>2, <1>3 DEF Served, PruneStart, PruneDelete, PruneFails, Tick
<1>5. q = r
  BY <1>0, <1>4 DEF Validate, Insert, TypeOK
<1> QED BY <1>4, <1>5

(* validate refuses the malformed request, and others when they expire.     *)
LEMMA ValidatedAsWanted ==
    ASSUME IInv, NEW r \in Requests, r.producer = S, Validate(r), ~Over
    PROVE  request'[r] = IF r.index = 1 THEN "400" ELSE "validated"
<1>1. r.index \in 1..6 /\ Sent(r) = Script[r.index] /\ Sent(r).ended = 0
  BY RequestBy
<1>2. Sent(r).wellFormed <=> r.index # 1
  <2>1. r.index = 1 \/ r.index = 2 \/ r.index = 3 \/ r.index = 4 \/ r.index = 5 \/ r.index = 6
    BY <1>1
  <2> QED BY <1>1, <2>1, Scripted DEF Root, Child, Event
<1>3. clock \in Nat /\ request \in [Requests -> Stages]
  BY DEF IInv, ClientTypeOK, TypeOK
<1>4. Acceptable(Sent(r), clock) <=> r.index # 1
  BY <1>1, <1>2, <1>3, ExpireTogether, IngestAssumption DEF Acceptable
<1> QED BY <1>3, <1>4 DEF Validate

LEMMA InsertedAsWanted ==
    ASSUME IInv, NEW r \in Requests, r.producer = S, r.index # 1, Insert(r), ~Over
    PROVE  request'[r] \in {"503", Wanted[r.index]}
<1> DEFINE s == SpanOf(r)
<1>1. r.index \in 2..6 /\ s = Normalized(Script[r.index])
  BY RequestBy DEF SpanOf
<1>2. request[r] = "validated" /\ request \in [Requests -> Stages]
  BY DEF Insert, IInv, ClientTypeOK, TypeOK
<1>3. client = S /\ TypeOK
  BY <1>2 DEF IInv, SilentInv, ClientTypeOK
<1>4. request'[r] \in {"503", IF Stored(s) = s THEN "204" ELSE "409"}
  BY <1>2 DEF Insert
<1>5. CASE r.index = 6
  <2>1. rows["child"] = Normalized(Child)
    BY <1>2, <1>5, ChildIsStored
  <2>2. s.id = "child" /\ s.body = "altered" /\ Normalized(Child).body = "model"
    BY <1>1, <1>5, Scripted DEF Normalized, Child, Event
  <2>3. Stored(s) # s
    <3>1. rows[s.id].body = "model"
      BY <2>1, <2>2
    <3>2. Stored(s) = s => rows[s.id] = s \/ rows[s.id] = None
      BY DEF Stored
    <3>3. rows[s.id] # None
      <4>1. S \in Producers /\ 3 \in DOMAIN Publications[S] /\ Publications[S][3] = Child
        BY Clientele, Scripted
      <4>2. Normalized(Child) \in Spans
        BY <4>1 DEF Spans, SentSpans
      <4> QED BY <2>1, <2>2, <4>2, IngestAssumption
    <3> QED BY <2>2, <3>1, <3>2, <3>3
  <2> QED BY <1>4, <1>5, <2>3, Scripted
<1>6. CASE r.index \in 2..5
  <2>1. s.id \in EventIds
    BY RequestParts
  <2>2. Stored(s) = s
    <3>1. CASE rows[s.id] = None
      BY <3>1 DEF Stored
    <3>2. CASE rows[s.id] # None
      <4>1. PICK j \in 2..5 : rows[s.id] = Normalized(Script[j])
        BY <1>3, <2>1, <3>2, RowIsWanted
      <4>2. rows[s.id].id = s.id
        BY <1>3, <2>1, <3>2 DEF TypeOK
      <4>3. Script[j].id = Script[r.index].id
        BY <1>1, <4>1, <4>2 DEF Normalized
      <4>4. Script[j] = Script[r.index]
        <5>1. /\ Script[2].id = "control" /\ Script[3].id = "child"
              /\ Script[4].id = "root" /\ Script[5] = Script[3]
          BY Scripted DEF Root, Child, Event
        <5>2. \A k \in 2..5 : k = 2 \/ k = 3 \/ k = 4 \/ k = 5
          OBVIOUS
        <5> QED BY <1>6, <4>3, <5>1, <5>2
      <4> QED BY <1>1, <3>2, <4>1, <4>4 DEF Stored
    <3> QED BY <3>1, <3>2
  <2> QED BY <1>4, <1>6, <2>2, Scripted
<1> QED BY <1>1, <1>5, <1>6

RerunInv ==
    Over \/ \A r \in Requests : r.producer = S =>
               /\ request[r] \in Answers => request[r] \in {"503", Wanted[r.index]}
               /\ request[r] = "validated" => r.index # 1

LEMMA RerunStep == IInv /\ RerunInv /\ [ClientNext]_allVars => RerunInv'
<1> SUFFICES ASSUME IInv, RerunInv, ClientStep, ~Over',
                    NEW r \in Requests, r.producer = S
             PROVE  /\ request'[r] \in Answers => request'[r] \in {"503", Wanted[r.index]}
                    /\ request'[r] = "validated" => r.index # 1
  BY DEF RerunInv, ClientStep
<1>0. ~Over /\ TypeOK /\ ClientTypeOK
  BY OverRemains DEF IInv, ClientTypeOK
<1>1. /\ request[r] \in Answers => request[r] \in {"503", Wanted[r.index]}
      /\ request[r] = "validated" => r.index # 1
  BY <1>0 DEF RerunInv
<1>2. CASE Validate(r)
  <2>1. request'[r] = IF r.index = 1 THEN "400" ELSE "validated"
    BY <1>0, <1>2, ValidatedAsWanted
  <2> QED BY <2>1, Scripted DEF Answers
<1>3. CASE Insert(r)
  <2>1. r.index # 1
    BY <1>1, <1>3 DEF Insert
  <2> QED BY <1>0, <1>3, <2>1, InsertedAsWanted
<1>4. CASE ~Validate(r) /\ ~Insert(r)
  <2>1. request'[r] \in Answers => request'[r] = request[r]
    BY <1>4, AnsweredBy
  <2>2. request'[r] = "validated" => request[r] = "validated"
    <3>1. CASE UNCHANGED request
      BY <3>1
    <3>2. CASE SendNext
      BY <1>0, <3>2, SentIsFresh DEF TypeOK
    <3>3. ASSUME NEW q \in Requests, q # r, Validate(q) \/ Insert(q)
          PROVE  request'[r] = request[r]
      BY <1>0, <3>3 DEF Validate, Insert, TypeOK
    <3>4. CASE Restart
      BY <3>4 DEF Restart
    <3> QED BY <1>0, <1>4, <3>1, <3>2, <3>3, <3>4, StepKinds, ClientPublishes
            DEF Served, PruneStart, PruneDelete, PruneFails, Tick, Check, RunAgain, vars, allVars
  <2> QED BY <1>1, <2>1, <2>2
<1> QED BY <1>2, <1>3, <1>4

(* For any number of reruns, with requests of former runs still under way:  *)
(* what the program asserts of its answers is so, until the trace expires.  *)
THEOREM RerunsAreSafe == ClientSpec => []RerunsAreIdempotent
<1>1. ClientInit => RerunInv
  BY DEF ClientInit, Init, RerunInv, Answers
<1>2. RerunInv => RerunsAreIdempotent
  BY RequestBy, ExpireTogether DEF RerunInv, RerunsAreIdempotent, S
<1> QED BY <1>1, <1>2, RerunStep, ClientInvariant, PTL DEF ClientSpec
=============================================================================
