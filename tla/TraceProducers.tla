---------------------------- MODULE TraceProducers ----------------------------
(***************************************************************************)
(* The two clients of the ingestion service in demo/, together with it.    *)
(*                                                                         *)
(* mcp_execution.py calls a tool over MCP, saves its result as a file,     *)
(* records spans of what really happened, publishes them and has Cube      *)
(* verify them.  agent-executions.py submits one synthetic trace, checks   *)
(* the answer to every request, queries Cube, and may be run again with    *)
(* the same event file, as the end-to-end test does around a restart of    *)
(* the service.                                                            *)
(*                                                                         *)
(* The producers of AgentIngest are the ways mcp_execution.py may go, and  *)
(* agent-executions.py.  A behaviour is about one of them, the client; the *)
(* others stay silent.  No two clients of the code share an event ID.      *)
(***************************************************************************)
EXTENDS AgentIngest

CONSTANT MaxQueries      \* polls for one Cube result, 20

Event(id, body) ==
    [id |-> id, ended |-> 0, offset |-> 0, body |-> body, wellFormed |-> TRUE]

ToolCalled     == Event("tool", "succeeded")
ArtifactSaved  == Event("artifact", "succeeded")
RunEnded(body) == Event("run", body)

(* The requests of agent-executions.py: those with a wrong token or an     *)
(* invalid field (one for all of them), a control in a trace of its own,   *)
(* children before the root, a child again, and that child altered.        *)
Root   == Event("root", "run")
Child  == Event("child", "model")
Script == << [Root EXCEPT !.wellFormed = FALSE], Event("control", "run"),
             Child, Root, Child, [Child EXCEPT !.body = "altered"] >>
Wanted == << "400", "204", "204", "204", "204", "409" >>

(* The spans execute records, by how the execution went: the tool was not  *)
(* called, its call failed, its result was not saved, the session was not  *)
(* closed, or all went well.                                               *)
Recorded == [
    notCalled  |-> << RunEnded("failed") >>,
    callFailed |-> << Event("tool", "failed"), RunEnded("failed") >>,
    notSaved   |-> << ToolCalled, RunEnded("failed") >>,
    notClosed  |-> << ToolCalled, ArtifactSaved, RunEnded("failed") >>,
    succeeded  |-> << ToolCalled, ArtifactSaved, RunEnded("succeeded") >>,
    synthetic  |-> Script ]

Clients == DOMAIN Recorded

ASSUME ClientsAssumption ==
    /\ Producers = Clients /\ Publications = Recorded
    /\ None \notin Clients
    /\ MaxQueries \in Nat \ {0}

VARIABLES
    phase,      \* what the client is doing
    client,     \* which client it is; None while mcp_execution.py executes
    artifact,   \* the file with the tool's result
    fixture,    \* the event file of agent-executions.py
    polls       \* answers "Continue wait" to the query

own     == <<phase, client, artifact, fixture, polls>>
allVars == <<vars, own>>

-----------------------------------------------------------------------------
(* mcp_execution.py: execute *)

(* The end of the try block, whichever way, adds the span of the run.      *)
Finish(outcome) == client' = outcome /\ phase' = "recording"

(* The server starts, initializes and advertises the tool.                 *)
Connect ==
    /\ phase = "connecting"
    /\ \/ phase' = "calling" /\ UNCHANGED client
       \/ Finish("notCalled")
    /\ UNCHANGED <<vars, artifact, fixture, polls>>

CallTool ==
    /\ phase = "calling"
    /\ \/ phase' = "saving" /\ UNCHANGED client
       \/ Finish("callFailed")
    /\ UNCHANGED <<vars, artifact, fixture, polls>>

(* Mutant: the span first, then the file. *)
SaveSpanFirst ==
    /\ phase = "saving"
    /\ artifact' \in {"absent", "partial", "complete"}
    /\ phase' = "closing"
    /\ UNCHANGED <<vars, client, fixture, polls>>

SaveArtifact ==
    /\ phase = "saving"
    /\ \/ artifact' = "complete" /\ phase' = "closing" /\ UNCHANGED client
       \/ artifact' \in {"absent", "partial"} /\ Finish("notSaved")
    /\ UNCHANGED <<vars, fixture, polls>>

(* Leaving the session and the server's streams may raise, too.            *)
Close ==
    /\ phase = "closing"
    /\ Finish("succeeded") \/ Finish("notClosed")
    /\ UNCHANGED <<vars, artifact, fixture, polls>>

(* The spans are saved; with --execute-only that is all.  A failed write   *)
(* ends the program.                                                       *)
Record ==
    /\ phase = "recording"
    /\ phase' \in {"executed", "publishing", "failed"}
    /\ UNCHANGED <<vars, client, artifact, fixture, polls>>

-----------------------------------------------------------------------------
(* Publication and verification *)

SendNext ==
    /\ phase = "publishing"
    /\ Send(client)
    /\ UNCHANGED own

(* The loop of publish_and_verify, which retries.                          *)
Publish ==
    /\ phase = "publishing" /\ client # "synthetic"
    /\ Receive(client) \/ TransportError(client)
    /\ UNCHANGED own

(* The spans of this client that are to be stored.                         *)
Expected == {Normalized(Recorded[client][i]) :
                i \in {j \in DOMAIN Recorded[client] :
                         client = "synthetic" => Wanted[j] = "204"}}

(* What Cube returns for the traces of this client. *)
Found == {rows[i] : i \in EventIds} \ {None}

(* One poll of the query: not ready yet, refused, or the rows.             *)
Query ==
    /\ phase = "publishing" /\ producing[client] = "done"
    /\ \/ /\ polls' = polls + 1
          /\ phase' = IF polls' = MaxQueries THEN "failed" ELSE phase
       \/ phase' = "failed" /\ UNCHANGED polls
       \/ phase' = (IF Found = Expected THEN "verified" ELSE "mismatch") /\ UNCHANGED polls
    /\ UNCHANGED <<vars, client, artifact, fixture>>

-----------------------------------------------------------------------------
(* agent-executions.py *)

(* The event file: read, or written for the first time.  What an           *)
(* interrupted write leaves is taken for the recorded events by every      *)
(* later run, unless it is empty.                                          *)
OpenFixture ==
    /\ phase = "opening"
    /\ \/ fixture # "partial" /\ fixture' = "complete" /\ phase' = "publishing"
       \/ fixture = "absent" /\ fixture' \in {"absent", "partial"} /\ phase' = "failed"
       \/ fixture = "partial" /\ phase' = "failed" /\ UNCHANGED fixture
    /\ UNCHANGED <<vars, client, artifact, polls>>

(* request: one attempt, and any answer but the expected one raises.       *)
Proceed ==
    IF index["synthetic"] < Len(Script)
    THEN /\ index' = [index EXCEPT !["synthetic"] = @ + 1]
         /\ producing' = [producing EXCEPT !["synthetic"] = "sending"]
    ELSE /\ producing' = [producing EXCEPT !["synthetic"] = "done"]
         /\ UNCHANGED index

Check ==
    /\ phase = "publishing" /\ client = "synthetic" /\ producing["synthetic"] = "waiting"
    /\ LET answer == request[Current("synthetic")]
       IN \/ answer = Wanted[index["synthetic"]] /\ Proceed /\ UNCHANGED phase
          \/ /\ answer \in Answers \ {Wanted[index["synthetic"]]}
             /\ phase' = "failed" /\ UNCHANGED <<index, producing>>
          \/ phase' = "failed" /\ UNCHANGED <<index, producing>>   \* URLError, timeout
    /\ UNCHANGED <<rows, request, attempt, prune, clock, faults, client, artifact, fixture, polls>>

(* The program is run again with the same event file.                      *)
RunAgain ==
    /\ client = "synthetic" /\ phase \in {"failed", "verified", "mismatch"}
    /\ attempt["synthetic"] < MaxAttempts
    /\ index' = [index EXCEPT !["synthetic"] = 1]
    /\ attempt' = [attempt EXCEPT !["synthetic"] = @ + 1]
    /\ producing' = [producing EXCEPT !["synthetic"] = "sending"]
    /\ phase' = "opening" /\ polls' = 0
    /\ UNCHANGED <<rows, request, prune, clock, faults, client, artifact, fixture>>

-----------------------------------------------------------------------------
(* The service *)

Handle     == (\E r \in Requests : Validate(r) \/ Insert(r)) /\ UNCHANGED own
Prune      == (PruneStart \/ PruneDelete) /\ UNCHANGED own
Fault      == (PruneFails \/ Restart) /\ UNCHANGED own
ClockTicks == Tick /\ UNCHANGED own

-----------------------------------------------------------------------------

ClientInit ==
    /\ Init
    /\ \/ phase = "connecting" /\ client = None
       \/ phase = "opening" /\ client = "synthetic"
    /\ artifact = "absent" /\ fixture = "absent" /\ polls = 0

ClientRuns ==
    \/ SaveArtifact \/ Close \/ Record \/ OpenFixture
    \/ SendNext \/ Publish \/ Check \/ Query

ClientNext ==
    \/ Connect \/ CallTool \/ ClientRuns \/ RunAgain
    \/ Handle \/ Prune \/ Fault \/ ClockTicks

ClientSpec == ClientInit /\ [][ClientNext]_allVars

(* The client is a sequential program whose steps end by themselves or by  *)
(* a timeout, except the MCP calls, which have no deadline; nobody need    *)
(* run it again.  Every step of a handler brings one of finitely many      *)
(* requests forward, so fairness of all of them is fairness of each.       *)
ClientFairness == WF_allVars(ClientRuns) /\ WF_allVars(Prune) /\ WF_allVars(Handle)

FairClientSpec == ClientSpec /\ ClientFairness

-----------------------------------------------------------------------------
(* Properties *)

ClientTypeOK ==
    /\ TypeOK
    /\ phase \in {"connecting", "calling", "saving", "closing", "recording", "executed",
                  "opening", "publishing", "verified", "mismatch", "failed"}
    /\ client \in Clients \cup {None}
    /\ {artifact, fixture} \subseteq {"absent", "partial", "complete"}
    /\ polls \in 0..MaxQueries

(* What the program prints at its end about the execution. *)
Report == [status |-> IF client = "succeeded" THEN "succeeded" ELSE "failed",
           cubeVerified |-> phase = "verified"]

Reported == phase \in {"executed", "verified"} /\ client # "synthetic"

(* Neither the table nor the report shows a success that did not happen: a *)
(* run that reads as succeeded has its result in a complete file, a reader *)
(* of the table finds the tool call and the reference to the file beside   *)
(* the run until they expire, and no reference to a file is ever there     *)
(* without the file.                                                       *)
SuccessIsReal ==
    LET stored(s) == rows[s.id] = Normalized(s)
    IN /\ stored(RunEnded("succeeded")) =>
             /\ artifact = "complete"
             /\ \A s \in {ToolCalled, ArtifactSaved} : stored(s) \/ Expired(s, clock)
       /\ rows["artifact"] # None => artifact = "complete"
       /\ Reported /\ Report.status = "succeeded" => artifact = "complete"

(* Verification by Cube rejects a trace that was published only if some of *)
(* it has expired meanwhile: retries, lost answers, a restart of the       *)
(* service and spans sent again leave nothing missing, doubled or changed. *)
MismatchMeansExpired ==
    phase = "mismatch" => \E s \in Expected : Expired(s, clock)

(* Whatever an earlier run with the same event file has left behind, in    *)
(* the table and on its way, every request of the synthetic trace has the  *)
(* answer the program asserts, or 503, until the trace expires.            *)
RerunsAreIdempotent ==
    \A r \in Requests :
        r.producer = "synthetic" /\ request[r] \in Answers \ {"503", Wanted[r.index]} =>
            Expired(Sent(r), clock)

Ended ==
    \/ phase \in {"executed", "verified", "mismatch", "failed"}
    \/ phase = "publishing" /\ producing[client] = "failed"

(* Once the tool has answered, the client comes to an end: every span is   *)
(* sent a bounded number of times and Cube is polled a bounded number of   *)
(* times.                                                                  *)
PublicationEnds == phase \in {"saving", "recording", "opening"} ~> Ended
=============================================================================
