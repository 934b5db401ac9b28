----------------------------- MODULE Benchmark ------------------------------
(***************************************************************************)
(* application/benchmark.py: variations of the synthetic documents go      *)
(* through the compiler and the policies one after the other, are reviewed *)
(* by the book, and are scored beside a selector that goes by confidence.  *)
(*                                                                         *)
(* A document is a sequence of blocks, each with its block_id.             *)
(***************************************************************************)
EXTENDS Compiler, FiniteSets

CONSTANTS
    FixtureInputs,      \* the documents there may be in the fixture directory
    GoldenAssertions,   \* the golden file: rows [key, value, expected_status]
    GoldenFacts,        \* and the facts expected after review, by key
    CreateText,         \* what the guide says of a method,
    ApprovalText,       \* of a number of approvals,
    RetentionText,      \* and of a number of days
    CaseCounts          \* bound: the case_count asked for

VARIABLES
    fixtures,
    case_count,
    index,      \* cases scored
    tally,
    report      \* "running", "raised" or "reported"

benchmark_vars == <<fixtures, case_count, index, tally, report>>

-----------------------------------------------------------------------------
(* Oracle and variations.                                                  *)

Equal(value, other) == PyClass[value] = PyClass[other]

RowsOf(status) == {row \in GoldenAssertions : row.expected_status = status}

ExpectedConflictKeys == {row.key : row \in RowsOf("conflicted")}

ExpectedKeys == DOMAIN GoldenFacts \cup {row.key : row \in RowsOf("accepted")}

ExpectedValue(key) ==
    IF key \in DOMAIN GoldenFacts
    THEN GoldenFacts[key]
    ELSE (CHOOSE row \in RowsOf("accepted") : row.key = key).value

MethodVariants == <<"PUT", "PATCH", "DELETE", "GET", "MERGE">>

ApprovalVariants == <<"one", "three", "four", "five">>
RetentionVariants == <<30, 60, 90, 120, 365>>
NormativeConfidences == <<99, 94, 89>>

Nth(variants, n) == variants[1 + (n % Len(variants))]

NewTexts(n) ==
    [ops_create |-> CreateText[Nth(MethodVariants, n)],
     ops_approval |-> ApprovalText[Nth(ApprovalVariants, n)],
     ops_retention |-> RetentionText[Nth(RetentionVariants, n)]]

NewConfidences(n) ==
    LET normative == Nth(NormativeConfidences, n)
    IN  [ops_create |-> 97, ops_approval |-> 97, ops_retention |-> 97,
         api_create |-> normative, policy_approval |-> normative,
         policy_retention |-> normative]

ReplaceBlock(block, texts, confidences) ==
    LET id == block.block_id
    IN  [block EXCEPT
            !.text = IF id \in DOMAIN texts THEN texts[id] ELSE @,
            !.confidence = IF id \in DOMAIN confidences THEN confidences[id] ELSE @]

VariantDocuments(n) ==
    [source \in DOMAIN fixtures |->
        [i \in DOMAIN fixtures[source] |->
            ReplaceBlock(fixtures[source][i], NewTexts(n), NewConfidences(n))]]

\* The wordings of the blocks that the variations put in their words.
Wordings ==
    [ops_create |-> {CreateText[MethodVariants[i]] : i \in DOMAIN MethodVariants},
     ops_approval |-> {ApprovalText[ApprovalVariants[i]] : i \in DOMAIN ApprovalVariants},
     ops_retention |-> {RetentionText[RetentionVariants[i]] : i \in DOMAIN RetentionVariants}]

TextsOf(block) ==
    IF block.block_id \in DOMAIN Wordings THEN Wordings[block.block_id] ELSE {block.text}

\* What a rule can read in a document, as it is and in its variations.
Readable(rule, document) ==
    UNION {Coerce(raw, rule.value_type) :
            raw \in UNION {Captures[rule.pattern][text] :
                text \in UNION {TextsOf(document[i]) : i \in DOMAIN document}}}

\* There is a document for each source.
ASSUME FixtureAssumption ==
    \A docs \in FixtureInputs : \A source \in Artifacts :
        /\ source \in DOMAIN docs
        /\ \A i \in DOMAIN docs[source] :
                DOMAIN docs[source][i] = {"block_id", "page", "text", "confidence"}

\* The golden file is right about the profile and the fixtures: of the rules
\* for a key one reads the value that is expected and the others read different
\* ones, in all wordings, and the conflicts are where there are several rules.
ASSUME OracleAssumption ==
    /\ ExpectedKeys = {Rules[n].key : n \in DOMAIN Rules}
    /\ ExpectedConflictKeys =
            {key \in ExpectedKeys : \E m, n \in DOMAIN Rules :
                m # n /\ Rules[m].key = key /\ Rules[n].key = key}
    /\ \A key \in ExpectedKeys : \E n \in DOMAIN Rules :
        /\ Rules[n].key = key
        /\ \A m \in DOMAIN Rules, docs \in FixtureInputs :
            Rules[m].key = key =>
                \A value \in Readable(Rules[m], docs[Rules[m].source]) :
                    Equal(value, ExpectedValue(key)) <=> m = n

-----------------------------------------------------------------------------
(* One case.                                                               *)

BaselineOutranks(assertions, a, b) ==
    \/ assertions[a].confidence > assertions[b].confidence
    \/ /\ assertions[a].confidence = assertions[b].confidence
       /\ assertions[a].authority > assertions[b].authority
    \/ /\ assertions[a].confidence = assertions[b].confidence
       /\ assertions[a].authority = assertions[b].authority
       /\ a < b

BaselineWrong(assertions) ==
    {key \in ExpectedConflictKeys :
        \E a \in Candidates(assertions, key) :
            /\ \A b \in Candidates(assertions, key) \ {a} : BaselineOutranks(assertions, a, b)
            /\ ~Equal(assertions[a].value, ExpectedValue(key))}

ReviewFactKeys(assertions) ==
    {assertions[a].key : a \in {b \in DOMAIN assertions :
        assertions[b].status \in {"conflicted", "review_required"}}}

\* Mutant: only the first candidate can be the expected one.
FirstWinners(assertions, key) ==
    {a \in Candidates(assertions, key) :
        /\ \A b \in Candidates(assertions, key) : a <= b
        /\ Equal(assertions[a].value, ExpectedValue(key))}

Winners(assertions, key) ==
    {a \in Candidates(assertions, key) : Equal(assertions[a].value, ExpectedValue(key))}

\* Mutant: the winner is approved and nothing is said of the others.
ReviewedWinners(assertions, keys) ==
    UNION {Winners(assertions, key) : key \in keys}

ReviewedAssertions(assertions, keys) ==
    UNION {Candidates(assertions, key) : key \in keys}

\* One decision per assertion under review, so that the order in which they are
\* made does not matter.
BuildReviews(assertions, keys) ==
    [a \in ReviewedAssertions(assertions, keys) |->
        [op |-> 0, assertion |-> a,
         fingerprint |-> Fingerprint(assertions[a]),
         outcome |-> IF a \in Winners(assertions, assertions[a].key)
                     THEN "approve" ELSE "reject",
         corrected_value |-> NoValue,
         created_at |-> a]]

FactsIn(new) == UNION {new[key] : key \in Keys}

Score(assertions) ==
    LET keys == ReviewFactKeys(assertions)
        automatic == FactsIn(Promote(assertions, <<>>, NoFacts, 0))
        final == FactsIn(Promote(assertions, BuildReviews(assertions, keys), NoFacts, 0))
        detected == DOMAIN ConflictsOf(assertions)
    IN  [expected_conflicts |-> Cardinality(ExpectedConflictKeys),
         detected_conflicts |-> Cardinality(detected \cap ExpectedConflictKeys),
         baseline_choices |-> Cardinality(ExpectedConflictKeys),
         wrong_baseline_values |-> Cardinality(BaselineWrong(assertions)),
         safe_auto_promotions |-> Cardinality(automatic),
         unsafe_auto_promotions |->
            Cardinality({f \in automatic : f.key \in ExpectedConflictKeys}),
         human_review_tasks |-> Cardinality(keys),
         expected_final_facts |-> Cardinality(ExpectedKeys),
         correct_final_facts |->
            Cardinality({key \in ExpectedKeys : \E f \in final :
                            f.key = key /\ Equal(f.value, ExpectedValue(key))}),
         total_final_facts |-> Cardinality(final),
         facts_with_evidence |->
            Cardinality({f \in final : \A a \in f.assertion_ids :
                            assertions[a].evidence \in Artifacts})]

\* What is under review must have one expected assertion.
Reviewable(assertions) ==
    \A key \in ReviewFactKeys(assertions) :
        key \in ExpectedKeys /\ Cardinality(Winners(assertions, key)) = 1

-----------------------------------------------------------------------------

NoTally ==
    [measure \in {"expected_conflicts", "detected_conflicts", "baseline_choices",
                  "wrong_baseline_values", "safe_auto_promotions",
                  "unsafe_auto_promotions", "human_review_tasks",
                  "expected_final_facts", "correct_final_facts",
                  "total_final_facts", "facts_with_evidence"} |-> 0]

BenchmarkInit ==
    /\ fixtures \in FixtureInputs
    /\ case_count \in CaseCounts
    /\ index = 0
    /\ tally = NoTally
    /\ report = "running"

RunCase ==
    /\ report = "running"
    /\ index < case_count
    /\ \E claims \in Compile(VariantDocuments(index)) :
        LET assertions == Assess(claims)
            score == Score(assertions)
        IN  /\ Reviewable(assertions)
            /\ tally' = [measure \in DOMAIN tally |-> tally[measure] + score[measure]]
    /\ index' = index + 1
    /\ UNCHANGED <<fixtures, case_count, report>>

\* No case asked for, a case that does not compile, or one whose expected
\* value no source, or more than one, gives.
Raise ==
    /\ report = "running"
    /\ \/ case_count < 1
       \/ /\ index < case_count
          /\ \A claims \in Compile(VariantDocuments(index)) : ~Reviewable(Assess(claims))
    /\ report' = "raised"
    /\ UNCHANGED <<fixtures, case_count, index, tally>>

\* The report is the tally, and three ratios of it.
Report ==
    /\ report = "running"
    /\ 1 <= case_count /\ index = case_count
    /\ report' = "reported"
    /\ UNCHANGED <<fixtures, case_count, index, tally>>

BenchmarkNext == RunCase \/ Raise \/ Report

BenchmarkSpec == BenchmarkInit /\ [][BenchmarkNext]_benchmark_vars

-----------------------------------------------------------------------------

\* Nothing contested is ever promoted before it is reviewed, whichever of the
\* variations come together (docs/BENCHMARK.md:24).
NoUnsafePromotion == tally.unsafe_auto_promotions = 0

\* Conflict recall is whole after any number of cases, not of thirty alone
\* (docs/BENCHMARK.md:26).
EveryConflictDetected == tally.detected_conflicts = tally.expected_conflicts

\* Review by the book leads to the expected facts, and to no others
\* (docs/BENCHMARK.md:27), and each of them was either promoted at once or is
\* one task for a reviewer: no key is counted twice or left out.
ReviewLeadsToTruth ==
    /\ tally.correct_final_facts = tally.expected_final_facts
    /\ tally.total_final_facts = tally.expected_final_facts
    /\ tally.safe_auto_promotions + tally.human_review_tasks = tally.expected_final_facts

\* No combination of variations leaves a reviewer without a choice, or with
\* two: the benchmark fails only on documents that do not compile
\* (benchmark.py _build_reviews).
FailsOnlyWithoutEvidence ==
    report = "raised" => case_count < 1 \/ Compile(VariantDocuments(index)) = {}
=============================================================================
