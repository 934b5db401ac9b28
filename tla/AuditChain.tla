----------------------------- MODULE AuditChain -----------------------------
(***************************************************************************)
(* The hash-chained ledger: domain/audit.py.  Pure operators, no state.    *)
(*                                                                         *)
(* SHA-256 is taken to be free of collisions: the hash of an event is the  *)
(* sequence of the contents it covers, its own last, which is what a       *)
(* collision-free digest of (content, previous digest) determines.  The    *)
(* genesis "previous hash" (None) is the empty sequence.  occurred_at is   *)
(* part of the content the payload stands for.                             *)
(***************************************************************************)
EXTENDS Integers, Sequences

AuditEventType == {"intake_completed", "review_recorded", "fact_promoted"}

\* What append_audit_event is given, and the events it makes, over a set P of
\* payloads.
Entry(P) == [type : AuditEventType, payload : P]

Event(P) ==
    [sequence : Nat, type : AuditEventType, payload : P,
     previous_hash : Seq(Nat \X AuditEventType \X P),
     event_hash : Seq(Nat \X AuditEventType \X P)]

\* The head a new event links to.
HeadHash(events) ==
    IF events = <<>> THEN <<>> ELSE events[Len(events)].event_hash

\* Mutant: the digest leaves the payload out.
ContentWithoutPayload(sequence, entry) == <<sequence, entry.type>>

\* What the digest of an event covers, besides the previous digest.
Content(sequence, entry) == <<sequence, entry.type, entry.payload>>

\* The contents of entries that are numbered from n + 1 on.
Contents(n, entries) ==
    [i \in DOMAIN entries |-> Content(n + i, entries[i])]

\* The events that repeated calls of append_audit_event produce: one per
\* entry, each numbered after and linked to the one before it.
AppendEvents(events, entries) ==
    LET contents == Contents(Len(events), entries)
        hash(i) == HeadHash(events) \o SubSeq(contents, 1, i)
    IN  events \o [i \in DOMAIN entries |->
                    [sequence |-> Len(events) + i,
                     type |-> entries[i].type,
                     payload |-> entries[i].payload,
                     previous_hash |-> hash(i - 1),
                     event_hash |-> hash(i)]]

AppendEvent(events, entry) == AppendEvents(events, <<entry>>)

\* Replaying the entries an alleged ledger records gives that ledger back.
Entries(events) ==
    [i \in DOMAIN events |->
        [type |-> events[i].type, payload |-> events[i].payload]]

\* Mutant: links are followed, digests are not recomputed.
VerifyLinks(events) ==
    \A i \in DOMAIN events :
        /\ events[i].sequence = i
        /\ events[i].previous_hash =
            IF i = 1 THEN <<>> ELSE events[i - 1].event_hash

VerifyAuditChain(events) == events = AppendEvents(<<>>, Entries(events))
=============================================================================
