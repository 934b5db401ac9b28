--------------------------- MODULE IntakeService ---------------------------
(***************************************************************************)
(* The application service over the repository: application/service.py,    *)
(* reached through api.py.  A review is served by a thread of the web      *)
(* framework's pool: it reads the run, computes the next one from what it  *)
(* read and saves that, with nothing held between the read and the save.   *)
(***************************************************************************)
EXTENDS RunRepository, AgentGate, FiniteSets

CONSTANTS
    Intakes,        \* what the compiler may produce for a run: sequences of
                    \* claims, in profile order
    Workers,        \* pool threads that can serve a review at a time
    Corrections,    \* the values a reviewer may type in
    Idle,           \* the worker serves no review
    MonotoneClock,  \* utc_now never steps back between two decisions
    MaxOps,         \* bound: reviews that are started
    MaxTime         \* bound: readings of the wall clock

ASSUME ServiceAssumption ==
    /\ Intakes \subseteq Seq(Claim)
    /\ Corrections \subseteq Values
    /\ RequiredFactKeys \subseteq Keys
    /\ MonotoneClock \in BOOLEAN
    /\ MaxOps \in Nat
    /\ MaxTime \in Nat \ {0}

VARIABLES
    pending,    \* pending[w]: the review w has read the run for, or Idle
    ops,        \* the reviews started so far; names the next one
    clock       \* the last reading of the wall clock

vars == <<row, review_rows, fact_rows, audit_rows, pending, ops, clock>>

Times == 1 .. MaxTime

-----------------------------------------------------------------------------
(* Runs and ledger entries.                                                *)

IntakePayload == [op : Nat, assertions : Nat, conflicts : SUBSET Keys]
ReviewPayload == [op : Nat, assertion : Nat, key : Keys, outcome : ReviewOutcome]
FactPayload == [op : Nat, key : Keys, version : Nat, assertion_ids : SUBSET Nat]
Payload == IntakePayload \cup ReviewPayload \cup FactPayload

AuditEvent == Event(Payload)

IntakeRun ==
    [assertions : Seq(Assertion),
     conflicts : UNION {[ks -> ConflictStatus] : ks \in SUBSET Keys},
     reviews : Seq(ReviewDecision),
     facts : [Keys -> Seq(EffectiveFact)],
     audit_events : Seq(AuditEvent)]

\* The rising enumeration of a finite set of numbers, as the only element of
\* a set: tuples are iterated in order.
Ascending(S) ==
    {f \in [1 .. Cardinality(S) -> S] :
        \A m, n \in DOMAIN f : m < n => f[m] < f[n]}

IntakeEntry(assertions, conflicts) ==
    [type |-> "intake_completed",
     payload |-> [op |-> 0, assertions |-> Len(assertions),
                  conflicts |-> DOMAIN conflicts]]

ReviewEntry(decision, key) ==
    [type |-> "review_recorded",
     payload |-> [op |-> decision.op, assertion |-> decision.assertion,
                  key |-> key, outcome |-> decision.outcome]]

FactEntry(fact) ==
    [type |-> "fact_promoted",
     payload |-> [op |-> fact.op, key |-> fact.key, version |-> fact.version,
                  assertion_ids |-> fact.assertion_ids]]

\* Mutant: a promoted fact is recorded once per candidate.
PromotedCandidates(assertions, new) ==
    {a \in DOMAIN assertions : new[assertions[a].key] # {}}

\* Keys are visited in the order their first candidates have in the run;
\* these are the first candidates of the keys that get a new version.
PromotedHeads(assertions, new) ==
    {a \in DOMAIN assertions :
        /\ new[assertions[a].key] # {}
        /\ \A b \in Candidates(assertions, assertions[a].key) : a <= b}

FactEntries(assertions, new, heads) ==
    [n \in DOMAIN heads |->
        FactEntry(CHOOSE f \in new[assertions[heads[n]].key] : TRUE)]

-----------------------------------------------------------------------------
(* create_run.                                                             *)

CreatedRun(assertions, conflicts, new, heads) ==
    [assertions |-> assertions,
     conflicts |-> conflicts,
     reviews |-> <<>>,
     facts |-> AddFacts(NoFacts, new),
     audit_events |->
        AppendEvents(<<>>, <<IntakeEntry(assertions, conflicts)>>
                                \o FactEntries(assertions, new, heads))]

CreateRun ==
    /\ row = NoRun
    /\ \E claims \in Intakes :
        LET assertions == Assess(claims)
            new == Promote(assertions, <<>>, NoFacts, 0)
        IN  \E heads \in Ascending(PromotedHeads(assertions, new)) :
                Save(CreatedRun(assertions, ConflictsOf(claims), new, heads))
    /\ UNCHANGED <<pending, ops, clock>>

-----------------------------------------------------------------------------
(* resolve.                                                                *)

Reviewable(run, a) ==
    run.assertions[a].status \in {"conflicted", "review_required"}

\* Mutant: the competitors are approved as well.
DecisionForAll(review, a, created_at) ==
    [op |-> review.op,
     assertion |-> a,
     fingerprint |-> Fingerprint(review.run.assertions[a]),
     outcome |-> IF review.correction # NoValue THEN "correct" ELSE "approve",
     corrected_value |-> review.correction,
     created_at |-> created_at]

\* _decision_for_candidate: the chosen one passes, its competitors do not.
DecisionFor(review, a, created_at) ==
    [op |-> review.op,
     assertion |-> a,
     fingerprint |-> Fingerprint(review.run.assertions[a]),
     outcome |-> CASE a # review.chosen -> "reject"
                   [] a = review.chosen /\ review.correction # NoValue -> "correct"
                   [] OTHER -> "approve",
     corrected_value |-> IF a = review.chosen THEN review.correction ELSE NoValue,
     created_at |-> created_at]

ChosenKey(review) == review.run.assertions[review.chosen].key

\* Mutant: the conflicts of the other keys are RESOLVED as well.
ResolveAllConflicts(conflicts, key) == [k \in DOMAIN conflicts |-> "resolved"]

\* Every conflict of the key is RESOLVED, whatever the promotion came to.
ResolveConflicts(conflicts, key) ==
    [k \in DOMAIN conflicts |-> IF k = key THEN "resolved" ELSE conflicts[k]]

Decisions(review, order, stamps) ==
    [n \in DOMAIN order |-> DecisionFor(review, order[n], stamps[n])]

\* Mutant: promotion sees the reviews of the run that was read.
PromotionOfReadRun(review, decisions) ==
    Promote(review.run.assertions, review.run.reviews, review.run.facts, review.op)

Promotion(review, decisions) ==
    Promote(review.run.assertions, review.run.reviews \o decisions,
            review.run.facts, review.op)

ReviewedRun(review, decisions, new, heads) ==
    LET run == review.run
        key == ChosenKey(review)
    IN  [assertions |-> run.assertions,
         conflicts |-> ResolveConflicts(run.conflicts, key),
         reviews |-> run.reviews \o decisions,
         facts |-> AddFacts(run.facts, new),
         audit_events |->
            AppendEvents(run.audit_events,
                [n \in DOMAIN decisions |-> ReviewEntry(decisions[n], key)]
                    \o FactEntries(run.assertions, new, heads))]

\* The request arrives: get_run, and the checks that raise before anything
\* is changed.
ReadRun(w) ==
    /\ pending[w] = Idle
    /\ row # NoRun
    /\ ops < MaxOps
    /\ \E chosen \in DOMAIN row.assertions, correction \in Corrections \cup {NoValue} :
        /\ Reviewable(row, chosen)
        /\ pending' = [pending EXCEPT ![w] =
                        [op |-> ops + 1, run |-> row, chosen |-> chosen,
                         correction |-> correction]]
    /\ ops' = ops + 1
    /\ UNCHANGED <<row, review_rows, fact_rows, audit_rows, clock>>

\* created_at of the decisions, made one after the other.
ClockReadings(n) ==
    {stamps \in [1 .. n -> Times] :
        MonotoneClock => \A i \in 1 .. n :
            /\ clock <= stamps[i]
            /\ \A j \in i .. n : stamps[i] <= stamps[j]}

\* The rest of resolve: decisions, promotion, ledger and save, all from the
\* run that was read.
SaveReview(w) ==
    /\ pending[w] # Idle
    /\ LET review == pending[w]
           cs == Candidates(review.run.assertions, ChosenKey(review))
       IN  \E order \in Ascending(cs), stamps \in ClockReadings(Cardinality(cs)) :
            LET decisions == Decisions(review, order, stamps)
                new == Promotion(review, decisions)
            IN  /\ \E heads \in Ascending(PromotedHeads(review.run.assertions, new)) :
                        Save(ReviewedRun(review, decisions, new, heads))
                /\ clock' = stamps[Cardinality(cs)]
    /\ pending' = [pending EXCEPT ![w] = Idle]
    /\ UNCHANGED ops

\* The transaction is rolled back: the database stays locked for the five
\* seconds sqlite3 waits, and the request ends in an error.
SaveFails(w) ==
    /\ pending[w] # Idle
    /\ pending' = [pending EXCEPT ![w] = Idle]
    /\ UNCHANGED <<row, review_rows, fact_rows, audit_rows, ops, clock>>

\* The process dies and starts again: only the database is left.
Restart ==
    /\ \E w \in Workers : pending[w] # Idle
    /\ pending' = [w \in Workers |-> Idle]
    /\ UNCHANGED <<row, review_rows, fact_rows, audit_rows, ops, clock>>

-----------------------------------------------------------------------------

Init ==
    /\ RepositoryInit
    /\ pending = [w \in Workers |-> Idle]
    /\ ops = 0
    /\ clock = 1

Resolve(w) ==
    \/ ReadRun(w)
    \/ SaveReview(w)
    \/ SaveFails(w)

Next ==
    \/ CreateRun
    \/ \E w \in Workers : Resolve(w)
    \/ Restart

Spec == Init /\ [][Next]_vars
=============================================================================
