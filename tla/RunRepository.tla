--------------------------- MODULE RunRepository ---------------------------
(***************************************************************************)
(* The SQLite authority: adapters/sqlite_repository.py.  One run: every    *)
(* statement of the code is keyed by the run's id, so runs do not touch    *)
(* each other's rows.  The tables keep rows as sets; a row is the object   *)
(* its payload_json serialises.                                            *)
(***************************************************************************)
EXTENDS TrustKernel, AuditChain

CONSTANT NoRun  \* no row for the run's id

VARIABLES
    row,            \* intake_runs.state_json, the current projection
    review_rows,    \* table review_decisions
    fact_rows,      \* table effective_facts
    audit_rows      \* table audit_events


Elements(seq) == {seq[i] : i \in DOMAIN seq}

AllFacts(facts) == UNION {Elements(facts[key]) : key \in Keys}

\* Mutant: one row per assertion.
SameAssertionRow(d, e) == d.assertion = e.assertion

\* PRIMARY KEY id.
SameDecisionRow(d, e) == d.op = e.op /\ d.assertion = e.assertion

\* Mutant: UNIQUE(run_id, fact_key).
SameKeyRow(f, g) == f.key = g.key

\* PRIMARY KEY id, and UNIQUE(run_id, fact_key, version).
SameFactRow(f, g) ==
    \/ f.op = g.op /\ f.key = g.key
    \/ f.key = g.key /\ f.version = g.version

\* PRIMARY KEY (run_id, sequence), and UNIQUE event_hash.
SameAuditRow(e, f) ==
    \/ e.sequence = f.sequence
    \/ e.event_hash = f.event_hash

\* INSERT OR IGNORE: a row that clashes with one in the table is dropped
\* without an error.  Rows saved together never clash with each other.
InsertDecisions(rows, decisions) ==
    rows \cup {d \in decisions : \A e \in rows : ~SameDecisionRow(d, e)}

InsertFacts(rows, facts) ==
    rows \cup {f \in facts : \A g \in rows : ~SameFactRow(f, g)}

InsertEvents(rows, events) ==
    rows \cup {e \in events : \A f \in rows : ~SameAuditRow(e, f)}

RepositoryInit ==
    /\ row = NoRun
    /\ review_rows = {}
    /\ fact_rows = {}
    /\ audit_rows = {}

\* save: one transaction.  The projection is overwritten, whoever wrote it.
Save(run) ==
    /\ row' = run
    /\ review_rows' = InsertDecisions(review_rows, Elements(run.reviews))
    /\ fact_rows' = InsertFacts(fact_rows, AllFacts(run.facts))
    /\ audit_rows' = InsertEvents(audit_rows, Elements(run.audit_events))
=============================================================================
