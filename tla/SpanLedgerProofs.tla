--------------------------- MODULE SpanLedgerProofs ---------------------------
(* The abstract ledger keeps its promise. *)
EXTENDS SpanLedger, TLAPS

LedgerType ==
    /\ ledger \in [EventIds -> Spans \cup {None}]
    /\ \A i \in EventIds : ledger[i] # None => ledger[i].id = i
    /\ acked \subseteq Spans
    /\ clock \in Nat

(* Expired spans stay expired. *)
LEMMA ExpiryIsForever ==
    ASSUME NEW s, s.ended \in Nat, Retention \in Nat, NEW t \in Nat, Expired(s, t)
    PROVE  Expired(s, t + 1)
  BY DEF Expired

(* Whatever the spans and the retention: an acknowledged span is what the   *)
(* ledger holds under its ID until its retention is over.                  *)
THEOREM LedgerIsDurable ==
    ASSUME \A s \in Spans : s.ended \in Nat, Retention \in Nat, None \notin Spans
    PROVE  Ledger => [](LedgerType /\ Durable)
<1> DEFINE Inv == LedgerType /\ Durable
<1> DEFINE v == <<ledger, acked, clock>>
<1>1. LedgerInit => Inv
  BY DEF LedgerInit, LedgerType, Durable
<1>2. Inv /\ [LedgerNext]_v => Inv'
  <2> SUFFICES ASSUME Inv, [LedgerNext]_v PROVE Inv'
    OBVIOUS
  <2>1. ASSUME NEW s \in Spans, Record(s) PROVE Inv'
    <3>1. s.id \in EventIds
      BY DEF EventIds
    <3>2. LedgerType'
      BY <2>1, <3>1 DEF LedgerType, Record
    <3>3. Durable'
      <4> SUFFICES ASSUME NEW q \in acked', ~Expired(q, clock) PROVE ledger'[q.id] = q
        BY <2>1 DEF Durable, Record
      <4>1. CASE q = s
        BY <2>1, <3>1, <4>1 DEF Record, LedgerType
      <4>2. CASE q # s
        <5>1. q \in acked /\ q \in Spans
          BY <2>1, <4>2 DEF Record, LedgerType
        <5>2. ledger[q.id] = q
          BY <5>1 DEF Durable
        <5> QED BY <2>1, <3>1, <4>2, <5>1, <5>2 DEF Record, LedgerType, EventIds
      <4> QED BY <4>1, <4>2
    <3> QED BY <3>2, <3>3
  <2>2. CASE Forget
    <3>1. LedgerType'
      BY <2>2 DEF LedgerType, Forget
    <3>2. Durable'
      <4> SUFFICES ASSUME NEW q \in acked, ~Expired(q, clock) PROVE ledger'[q.id] = q
        BY <2>2 DEF Durable, Forget
      <4>1. ledger[q.id] = q /\ q.id \in EventIds
        BY DEF Durable, LedgerType, EventIds
      <4> QED BY <2>2, <4>1 DEF Forget
    <3> QED BY <3>1, <3>2
  <2>3. CASE Age
    <3>1. LedgerType'
      BY <2>3 DEF LedgerType, Age
    <3>2. Durable'
      <4> SUFFICES ASSUME NEW q \in acked, ~Expired(q, clock + 1) PROVE ledger[q.id] = q
        BY <2>3 DEF Durable, Age
      <4>1. ~Expired(q, clock)
        BY ExpiryIsForever DEF LedgerType
      <4> QED BY <4>1 DEF Durable
    <3> QED BY <3>1, <3>2
  <2>4. CASE UNCHANGED v
    BY <2>4 DEF LedgerType, Durable
  <2> QED BY <2>1, <2>2, <2>3, <2>4 DEF LedgerNext
<1> QED BY <1>1, <1>2, PTL DEF Ledger
=============================================================================
