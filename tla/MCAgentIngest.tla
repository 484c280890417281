---------------------------- MODULE MCAgentIngest ----------------------------
(* An instance of AgentIngest for TLC. *)
EXTENDS AgentIngest

SpanAt(id, ended, offset, body) ==
    [id |-> id, ended |-> ended, offset |-> offset, body |-> body, wellFormed |-> TRUE]

(* A trace of two spans; and a producer that claims the event ID of the    *)
(* second for a span of its own, and sends the first from another time     *)
(* zone.                                                                   *)
Trace    == << SpanAt("tool", 0, 0, "x"), SpanAt("run", 1, 0, "x") >>
Impostor == << SpanAt("run", 1, 0, "y"), SpanAt("tool", 0, 2, "x") >>

WithReuse == [p \in {"agent", "other"} |-> IF p = "agent" THEN Trace ELSE Impostor]
=============================================================================
