-------------------------- MODULE IntakeProperties --------------------------
(***************************************************************************)
(* What the intake service promises about a run, its tables and the gate.  *)
(***************************************************************************)
EXTENDS IntakeService

Review ==
    [op : Nat, run : IntakeRun, chosen : Nat,
     correction : Corrections \cup {NoValue}]

\* What stands for no run and no review is neither.
ASSUME AbsenceAssumption ==
    /\ NoRun \notin IntakeRun
    /\ Idle \notin Review

\* The state has the shape the code gives it.
TypeOK ==
    /\ row \in IntakeRun \cup {NoRun}
    /\ review_rows \in SUBSET ReviewDecision
    /\ fact_rows \in SUBSET EffectiveFact
    /\ audit_rows \in SUBSET AuditEvent
    /\ pending \in [Workers -> Review \cup {Idle}]
    /\ ops \in Nat
    /\ clock \in Times

-----------------------------------------------------------------------------
(* Of one run.  Each holds of whatever is in the row, and so of whatever   *)
(* the API, the export and the gate show.                                  *)

\* The fact rests on assertions the policy accepted by itself.
AutoAccepted(assertions, fact) ==
    /\ ~IsConflicted(assertions, fact.key)
    /\ \A a \in fact.assertion_ids :
        /\ a \in Candidates(assertions, fact.key)
        /\ assertions[a].status = "accepted"
        /\ assertions[a].value = fact.value

\* The fact rests on one assertion and a decision that let this value pass.
BackedByReview(assertions, reviews, fact) ==
    \E a \in Candidates(assertions, fact.key) :
        /\ fact.assertion_ids = {a}
        /\ \E d \in reviews :
            /\ IsReviewOf(assertions, d, a)
            /\ d.outcome # "reject"
            /\ ApprovedValue(assertions[a], d) = fact.value

RunFactsJustified(run) ==
    \A key \in Keys : \A i \in DOMAIN run.facts[key] :
        LET fact == run.facts[key][i]
        IN  /\ fact.key = key
            /\ fact.assertion_ids # {}
            /\ \/ AutoAccepted(run.assertions, fact)
               \/ BackedByReview(run.assertions, Elements(run.reviews), fact)

RunConflictsReviewed(run) ==
    \A key \in Keys :
        run.facts[key] # <<>> /\ IsConflicted(run.assertions, key) =>
            \A a \in Candidates(run.assertions, key) :
                \E d \in Elements(run.reviews) : IsReviewOf(run.assertions, d, a)

RunVersionsContiguous(run) ==
    \A key \in Keys : \A i \in DOMAIN run.facts[key] :
        run.facts[key][i].version = i

\* Every fact the export shows is justified: it cites at least one assertion
\* of its own key, and its value is one the policy accepted without conflict
\* or one a reviewer approved or typed in for that very assertion
\* (promotion.py _select, service.py resolve).
FactsJustified == row # NoRun => RunFactsJustified(row)

\* A key with contradicting sources has no fact before every one of its
\* candidates has been decided on (docs/ARCHITECTURE.md:39, _select).
ConflictNeedsReview == row # NoRun => RunConflictsReviewed(row)

\* The versions of a key's facts are 1, 2, 3, ... without a gap or a repeat,
\* in the run every caller sees (promotion.py version = max + 1).
VersionsContiguous == row # NoRun => RunVersionsContiguous(row)

\* The ledger of the run replays, and records the intake, each decision and
\* each fact of the run exactly once and nothing else (service.py resolve,
\* audit.py verify_audit_chain).
LedgerMatchesRun ==
    row # NoRun =>
        LET entries(type) == {e \in Elements(row.audit_events) : e.type = type}
        IN  /\ VerifyAuditChain(row.audit_events)
            /\ Len(row.audit_events) =
                1 + Len(row.reviews) + Cardinality(AllFacts(row.facts))
            /\ {e.payload : e \in entries("review_recorded")} =
                {ReviewEntry(d, row.assertions[d.assertion].key).payload :
                    d \in Elements(row.reviews)}
            /\ {e.payload : e \in entries("fact_promoted")} =
                {FactEntry(f).payload : f \in AllFacts(row.facts)}

\* Nothing that is due is held back: promoting the saved run once more, as
\* the next review of any other key does, finds no new fact
\* (promotion.py promote, existing_facts).
PromotionSettled ==
    row # NoRun =>
        \A key \in Keys :
            NewFact(row.assertions, row.reviews, row.facts, ops + 1, key) = {}

\* When the review queue shows zero, every fact key of the run has an
\* effective fact (docs/DEMO.md:39, run.py open_review_count).
QueueClearedMeansPromoted ==
    row # NoRun /\ OpenReviewKeys(row.assertions, row.reviews) = {} =>
        \A key \in Keys :
            Candidates(row.assertions, key) # {} => row.facts[key] # <<>>

\* A conflict reads RESOLVED exactly when its key has been reviewed and has
\* an effective fact, and OPEN exactly when neither (service.py
\* resolved_conflicts, which never looks at what the promotion came to).
ConflictStatusTruthful ==
    row # NoRun =>
        \A key \in DOMAIN row.conflicts :
            LET reviewed == \E d \in Elements(row.reviews) :
                                row.assertions[d.assertion].key = key
            IN  /\ row.conflicts[key] = "resolved" <=> reviewed
                /\ reviewed <=> row.facts[key] # <<>>

\* The reviewer's last word on a key without an accepted candidate is what
\* is effective, up to Python's equality (promotion.py _latest_valid_reviews;
\* needs a clock that never steps back).
LatestChoiceEffective ==
    row # NoRun =>
        \A i \in DOMAIN row.reviews :
            LET d == row.reviews[i]
                key == row.assertions[d.assertion].key
                superseded == \E j \in DOMAIN row.reviews :
                                /\ row.reviews[j].op > d.op
                                /\ row.assertions[row.reviews[j].assertion].key = key
            IN  d.outcome # "reject" /\ ~superseded
                    /\ Accepted(row.assertions, key) = {} =>
                AlreadyEffective(row.facts[key],
                                 ApprovedValue(row.assertions[d.assertion], d))

\* No contract is issued while a conflict on a fact it needs is open, and one
\* that is issued holds only values of the contract's types (agent_gate.py).
GateHonoursConflicts ==
    row # NoRun =>
        LET gate == BuildGate(row.facts)
        IN  gate.status = "ready" =>
                \A key \in RequiredFactKeys :
                    /\ key \in DOMAIN row.conflicts => row.conflicts[key] = "resolved"
                    /\ gate.contract[key].value \in ContractValues[key]
                    /\ gate.contract[key] = row.facts[key][Len(row.facts[key])]

-----------------------------------------------------------------------------
(* Of the tables beside the projection.                                    *)

\* Whatever the interleaving, a fact row rests on decisions that are in the
\* review table for good, and a ledger row about a review on its decision
\* (sqlite_repository.py save, one transaction).
TableRowsBacked ==
    /\ row # NoRun =>
        \A f \in fact_rows :
            AutoAccepted(row.assertions, f) \/ BackedByReview(row.assertions, review_rows, f)
    /\ \A e \in audit_rows : e.type = "review_recorded" =>
        \E d \in review_rows :
            d.op = e.payload.op /\ d.assertion = e.payload.assertion

\* The tables hold exactly what the projection holds
\* (docs/ARCHITECTURE.md:30).  Only when reviews do not overlap.
TablesMirrorProjection ==
    row # NoRun =>
        /\ review_rows = Elements(row.reviews)
        /\ fact_rows = AllFacts(row.facts)
        /\ audit_rows = Elements(row.audit_events)

\* Every decision the decision table holds is one of the run's:
\* docs/DEVPOST_DRAFT.md:36, "Every decision is appended rather than
\* overwritten".
EveryDecisionAppended ==
    row # NoRun => review_rows \subseteq Elements(row.reviews)

-----------------------------------------------------------------------------
(* Of a step.                                                              *)

Extends(new, old) ==
    Len(old) <= Len(new) /\ SubSeq(new, 1, Len(old)) = old

\* What the run once recorded stays: decisions, fact versions and events are
\* only appended (README.md:107, docs/DEVPOST_DRAFT.md:36).
HistoryAppendOnly ==
    [][row # NoRun =>
        /\ row'.assertions = row.assertions
        /\ Extends(row'.reviews, row.reviews)
        /\ Extends(row'.audit_events, row.audit_events)
        /\ \A key \in Keys : Extends(row'.facts[key], row.facts[key])]_vars

-----------------------------------------------------------------------------
(* What it all comes to, for a reader.                                     *)

\* The run as an ontology, none or one: sources, decisions and ledger are
\* forgotten.
OntologyOf(run) ==
    {[contested |-> {key \in Keys : IsConflicted(r.assertions, key)},
      decided |-> {r.assertions[r.reviews[i].assertion].key : i \in DOMAIN r.reviews},
      facts |-> r.facts] : r \in {run} \ {NoRun}}

DraftOf(review) == UNION {OntologyOf(r.run) : r \in {review} \ {Idle}}

Ontology == INSTANCE ReviewedOntology WITH
    Reviewers <- Workers,
    ontology <- OntologyOf(row),
    drafts <- [w \in Workers |-> DraftOf(pending[w])]

\* Every review amends the one key it is about, of the run it has read, by at
\* most one version, though the code promotes over all keys each time
\* (service.py:143, promotion.py promote); a contested key has no fact before
\* it is decided on.
ImplementsOntology == Ontology!Spec
=============================================================================
