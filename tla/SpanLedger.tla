------------------------------ MODULE SpanLedger ------------------------------
(***************************************************************************)
(* What agent ingestion promises its producers: a ledger with at most one  *)
(* immutable span per event ID.  A span is recorded once, acknowledged     *)
(* only when it is what the ledger holds, and forgotten only after its     *)
(* retention.  After that its ID has no history.                           *)
(***************************************************************************)
EXTENDS Naturals

CONSTANTS Spans, Retention, None

(* A span is known by its event ID and the time at which it ended; every   *)
(* other field is data.                                                    *)
EventIds == {s.id : s \in Spans}

VARIABLES ledger, acked, clock

Expired(s, time) == s.ended + Retention < time

LedgerInit ==
    /\ ledger = [i \in EventIds |-> None]
    /\ acked = {}
    /\ clock = 0

Record(s) ==
    /\ ledger[s.id] \in {None, s}
    /\ ledger' = [ledger EXCEPT ![s.id] = s]
    /\ acked' \in {acked, acked \cup {s}}
    /\ UNCHANGED clock

Forget ==
    /\ \A i \in EventIds : ledger'[i] # ledger[i] =>
          ledger'[i] = None /\ Expired(ledger[i], clock)
    /\ ledger' \in [EventIds -> Spans \cup {None}]
    /\ UNCHANGED <<acked, clock>>

Age ==
    /\ clock' = clock + 1
    /\ UNCHANGED <<ledger, acked>>

LedgerNext == (\E s \in Spans : Record(s)) \/ Forget \/ Age

Ledger == LedgerInit /\ [][LedgerNext]_<<ledger, acked, clock>>

(* An acknowledged span stays in the ledger, as it was sent, until its     *)
(* retention is over: the 204 of ServeHTTP is a durable write.             *)
Durable ==
    \A s \in acked : Expired(s, clock) \/ ledger[s.id] = s
=============================================================================
