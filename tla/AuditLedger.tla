---------------------------- MODULE AuditLedger ----------------------------
(***************************************************************************)
(* A ledger that grows by append_audit_event and is altered behind the     *)
(* service's back (tests/test_audit.py alters one payload): what           *)
(* verify_audit_chain accepts afterwards.  An alteration edits stored      *)
(* events; it does not recompute digests.                                  *)
(***************************************************************************)
EXTENDS AuditChain, FiniteSets

CONSTANTS
    Payloads,       \* payloads an event may carry
    MaxEvents,      \* bound: events appended
    MaxAlterations  \* bound: edits of the stored ledger

ASSUME LedgerAssumption == MaxEvents \in Nat /\ MaxAlterations \in Nat

VARIABLES
    genuine,        \* the ledger as the service appended it
    stored,         \* the ledger as the database now holds it
    alterations     \* the edits so far

vars == <<genuine, stored, alterations>>

Init ==
    /\ genuine = <<>>
    /\ stored = <<>>
    /\ alterations = 0

AppendEntry(entry) ==
    /\ alterations = 0
    /\ Len(genuine) < MaxEvents
    /\ genuine' = AppendEvent(genuine, entry)
    /\ stored' = genuine'
    /\ UNCHANGED alterations

\* One field of one event is overwritten.
EditField(i) ==
    \/ \E p \in Payloads : stored' = [stored EXCEPT ![i].payload = p]
    \/ \E t \in AuditEventType : stored' = [stored EXCEPT ![i].type = t]
    \/ \E n \in 1 .. MaxEvents : stored' = [stored EXCEPT ![i].sequence = n]
    \/ \E j \in DOMAIN stored :
        stored' = [stored EXCEPT ![i].previous_hash = stored[j].event_hash]
    \/ \E j \in DOMAIN stored :
        stored' = [stored EXCEPT ![i].event_hash = stored[j].event_hash]

\* One event disappears.
Remove(i) ==
    stored' = SubSeq(stored, 1, i - 1) \o SubSeq(stored, i + 1, Len(stored))

\* Two events trade places.
Exchange(i) ==
    \E j \in DOMAIN stored :
        stored' = [stored EXCEPT ![i] = stored[j], ![j] = stored[i]]

Alter ==
    /\ alterations < MaxAlterations
    /\ \E i \in DOMAIN stored : EditField(i) \/ Remove(i) \/ Exchange(i)
    /\ alterations' = alterations + 1
    /\ UNCHANGED genuine

Next ==
    \/ \E entry \in Entry(Payloads) : AppendEntry(entry)
    \/ Alter

Spec == Init /\ [][Next]_vars

-----------------------------------------------------------------------------
(* Properties.                                                             *)

TypeOK ==
    /\ genuine \in Seq(Event(Payloads))
    /\ stored \in Seq(Event(Payloads))
    /\ alterations \in Nat

\* What verifies is the genuine ledger, or a beginning of it: an event that
\* was changed, moved or taken out of the middle is noticed
\* (docs/DEMO.md:51, docs/VIDEO_SCRIPT.md:78).  Events missing at the end
\* are not, which the head hash of the export is for.
VerifiedIsGenuine ==
    VerifyAuditChain(stored) <=>
        /\ Len(stored) <= Len(genuine)
        /\ stored = SubSeq(genuine, 1, Len(stored))

\* The head hash that the export shows names one ledger: two that verify and
\* end in the same hash are the same (api.py export_run, "head_hash").
HeadHashNamesLedger ==
    VerifyAuditChain(stored) /\ HeadHash(stored) = HeadHash(genuine) =>
        stored = genuine
=============================================================================
