---------------------------- MODULE TrustKernel ----------------------------
(***************************************************************************)
(* The deterministic trust kernel: domain/models.py, domain/policies.py    *)
(* and domain/promotion.py.  Pure operators, no state.                     *)
(*                                                                         *)
(* An assertion is named by its position in the run's tuple of assertions  *)
(* (the code gives each a UUID).  A review decision and an effective fact  *)
(* carry op, the number of the call that made them, which stands for the   *)
(* UUID the code draws: <<op, assertion>> names a decision and <<op, key>> *)
(* names a fact.                                                           *)
(***************************************************************************)
EXTENDS Integers, Sequences

CONSTANTS
    Keys,       \* fact keys, "subject_id::predicate"
    Values,     \* JSON values, one per canonical JSON text
    PyClass,    \* PyClass[v] represents the values Python's == takes for v
    NoValue,    \* Python's None, in a decision without a correction
    Artifacts,  \* source documents an assertion can quote
    AutoAcceptConfidence,   \* in percent: 98 in the code
    AutoAcceptAuthority     \* 90 in the code

\* JSON text is finer than Python's ==: true, 1 and 1.0 are three texts and
\* one Python value.  None is never a value.
ASSUME KernelAssumption ==
    /\ PyClass \in [Values -> Values]
    /\ NoValue \notin Values
    /\ AutoAcceptConfidence \in Nat
    /\ AutoAcceptAuthority \in Nat

Percent == 0 .. 100

AssertionStatus == {"accepted", "review_required", "conflicted"}
ConflictStatus == {"open", "resolved"}
ReviewOutcome == {"approve", "reject", "correct"}

\* What the compiler hands to the policy: an assertion still a CANDIDATE.
Claim == [key : Keys, value : Values, evidence : Artifacts,
          confidence : Percent, authority : Percent]

Assertion == [key : Keys, value : Values, evidence : Artifacts,
              confidence : Percent, authority : Percent,
              status : AssertionStatus]

Fingerprints == Keys \X Values \X Artifacts

\* A correction carries a value and nothing else does, or the decision is
\* never constructed (correction_requires_value).
ReviewDecision ==
    {d \in [op : Nat, assertion : Nat, fingerprint : Fingerprints,
            outcome : ReviewOutcome, corrected_value : Values \cup {NoValue},
            created_at : Nat] :
        d.outcome = "correct" <=> d.corrected_value # NoValue}

EffectiveFact ==
    [op : Nat, key : Keys, value : Values, assertion_ids : SUBSET Nat,
     version : Nat]

-----------------------------------------------------------------------------
(* Assessment at intake (TrustPolicy).                                     *)

\* The assertions that compete for a fact key.
Candidates(assertions, key) ==
    {a \in DOMAIN assertions : assertions[a].key = key}

\* Mutant: only sources of standing can contradict each other.
InConflictOfStanding(claims, key) ==
    \E a, b \in {c \in Candidates(claims, key) : claims[c].authority >= AutoAcceptAuthority} :
        claims[a].value # claims[b].value

\* Two candidates disagree, as canonical JSON.
InConflict(claims, key) ==
    \E a, b \in Candidates(claims, key) : claims[a].value # claims[b].value

MeetsAutoAcceptance(claim) ==
    /\ claim.confidence >= AutoAcceptConfidence
    /\ claim.authority >= AutoAcceptAuthority

AssessedStatus(claims, a) ==
    CASE InConflict(claims, claims[a].key) -> "conflicted"
      [] /\ ~InConflict(claims, claims[a].key)
         /\ MeetsAutoAcceptance(claims[a]) -> "accepted"
      [] OTHER -> "review_required"

Assess(claims) ==
    [a \in DOMAIN claims |->
        [key |-> claims[a].key,
         value |-> claims[a].value,
         evidence |-> claims[a].evidence,
         confidence |-> claims[a].confidence,
         authority |-> claims[a].authority,
         status |-> AssessedStatus(claims, a)]]

\* One OPEN conflict record per key in conflict.
ConflictsOf(claims) ==
    [key \in {k \in Keys : InConflict(claims, k)} |-> "open"]

-----------------------------------------------------------------------------
(* Promotion (PromotionPolicy).                                            *)

Fingerprint(assertion) ==
    <<assertion.key, assertion.value, assertion.evidence>>

\* Mutant: fingerprints are not compared.
IsReviewOfAnyState(assertions, decision, a) == decision.assertion = a

\* The decision targets assertion a, in the state it was reviewed in.
IsReviewOf(assertions, decision, a) ==
    /\ decision.assertion = a
    /\ decision.fingerprint = Fingerprint(assertions[a])

\* Mutant: of two decisions made at the same time the first one counts.
SortedAfterUnstable(reviews, i, j) ==
    \/ reviews[i].created_at > reviews[j].created_at
    \/ /\ reviews[i].created_at = reviews[j].created_at
       /\ i < j

\* Mutant: decisions count in the order they arrive.
SortedAfterArrival(reviews, i, j) == i > j

\* sorted(reviews, key=created_at) puts j before i; the sort is stable.
SortedAfter(reviews, i, j) ==
    \/ reviews[i].created_at > reviews[j].created_at
    \/ /\ reviews[i].created_at = reviews[j].created_at
       /\ i > j

\* The decision that counts for assertion a: none or one.
LatestReview(assertions, reviews, a) ==
    LET valid == {i \in DOMAIN reviews : IsReviewOf(assertions, reviews[i], a)}
    IN  {reviews[i] : i \in {i \in valid :
            \A j \in valid \ {i} : SortedAfter(reviews, i, j)}}

\* The decisions that let an assertion through.
Approvals(assertions, reviews, a) ==
    {d \in LatestReview(assertions, reviews, a) : d.outcome # "reject"}

\* Mutant: the correction is taken whatever the outcome.
ApprovedValueCorrection(assertion, decision) == decision.corrected_value

ApprovedValue(assertion, decision) ==
    IF decision.outcome = "correct"
    THEN decision.corrected_value
    ELSE assertion.value

\* Mutant: the candidates that passed need not be one.
AnyApproval(assertions, reviews, key) ==
    UNION {{[value |-> ApprovedValue(assertions[a], d), assertion_ids |-> {a}]
                : d \in Approvals(assertions, reviews, a)}
            : a \in Candidates(assertions, key)}

\* What the review of a key selects: one candidate, when exactly one passed.
SoleApproval(assertions, reviews, key) ==
    LET cs == Candidates(assertions, key)
        approved == {a \in cs : Approvals(assertions, reviews, a) # {}}
    IN  UNION {{[value |-> ApprovedValue(assertions[a], d),
                 assertion_ids |-> {a}]
                    : d \in Approvals(assertions, reviews, a)}
                : a \in {b \in approved : approved = {b}}}

Accepted(assertions, key) ==
    {a \in Candidates(assertions, key) : assertions[a].status = "accepted"}

\* Mutant: no order between equally strong assertions.
OutranksStrictly(assertions, a, b) ==
    \/ assertions[a].authority > assertions[b].authority
    \/ /\ assertions[a].authority = assertions[b].authority
       /\ assertions[a].confidence > assertions[b].confidence

\* max(accepted, key=(authority, confidence)): the first of the strongest.
Outranks(assertions, a, b) ==
    \/ assertions[a].authority > assertions[b].authority
    \/ /\ assertions[a].authority = assertions[b].authority
       /\ assertions[a].confidence > assertions[b].confidence
    \/ /\ assertions[a].authority = assertions[b].authority
       /\ assertions[a].confidence = assertions[b].confidence
       /\ a < b

\* Mutant: the fact cites every candidate, accepted or not.
AutoAcceptanceCitingAll(assertions, key) ==
    LET accepted == Accepted(assertions, key)
    IN  {[value |-> assertions[a].value,
          assertion_ids |-> Candidates(assertions, key)]
            : a \in {b \in accepted :
                        \A c \in accepted \ {b} : Outranks(assertions, b, c)}}

AutoAcceptance(assertions, key) ==
    LET accepted == Accepted(assertions, key)
    IN  {[value |-> assertions[a].value, assertion_ids |-> accepted]
            : a \in {b \in accepted :
                        \A c \in accepted \ {b} : Outranks(assertions, b, c)}}

IsConflicted(assertions, key) ==
    \E a \in Candidates(assertions, key) : assertions[a].status = "conflicted"

FullyReviewed(assertions, reviews, key) ==
    \A a \in Candidates(assertions, key) :
        LatestReview(assertions, reviews, a) # {}

\* Mutant: where nobody has decided, the strongest source does.
SelectStrongest(assertions, reviews, key) ==
    LET reviewed == SoleApproval(assertions, reviews, key)
        cs == Candidates(assertions, key)
    IN  IF reviewed # {} THEN reviewed
        ELSE {[value |-> assertions[a].value, assertion_ids |-> {a}]
                : a \in {b \in cs : \A c \in cs \ {b} : Outranks(assertions, b, c)}}

\* The value a key's candidates and reviews support: none or one.
Select(assertions, reviews, key) ==
    CASE IsConflicted(assertions, key) ->
            IF FullyReviewed(assertions, reviews, key)
            THEN SoleApproval(assertions, reviews, key)
            ELSE {}
      [] ~IsConflicted(assertions, key) /\ Accepted(assertions, key) # {} ->
            AutoAcceptance(assertions, key)
      [] OTHER -> SoleApproval(assertions, reviews, key)

\* Mutant: the first version is counted from.
NextVersionOfFirst(history) ==
    IF history = <<>> THEN 1 ELSE history[1].version + 1

\* max over the versions so far, plus one.
NextVersion(history) ==
    1 + CHOOSE n \in {0} \cup {history[i].version : i \in DOMAIN history} :
            \A i \in DOMAIN history : history[i].version <= n

\* prior[-1].value == value, in Python.
AlreadyEffective(history, value) ==
    /\ history # <<>>
    /\ PyClass[history[Len(history)].value] = PyClass[value]

\* The new version of a key's fact that call op promotes: none or one.
NewFact(assertions, reviews, facts, op, key) ==
    {[op |-> op, key |-> key, value |-> s.value,
      assertion_ids |-> s.assertion_ids, version |-> NextVersion(facts[key])]
        : s \in {t \in Select(assertions, reviews, key) :
                    ~AlreadyEffective(facts[key], t.value)}}

\* new_facts: facts holds, per key, the versions so far in order.
Promote(assertions, reviews, facts, op) ==
    [key \in Keys |-> NewFact(assertions, reviews, facts, op, key)]

\* Mutant: a new version takes the place of the older ones.
AddFactsReplacing(facts, new) ==
    [key \in Keys |-> IF new[key] = {}
                      THEN facts[key]
                      ELSE <<CHOOSE f \in new[key] : TRUE>>]

AddFacts(facts, new) ==
    [key \in Keys |-> IF new[key] = {}
                      THEN facts[key]
                      ELSE Append(facts[key], CHOOSE f \in new[key] : TRUE)]

NoFacts == [key \in Keys |-> <<>>]

\* open_review_count counts these keys: any decision on the assertion, valid
\* or not, takes it out of the queue.
OpenReviewKeys(assertions, reviews) ==
    {assertions[a].key :
        a \in {b \in DOMAIN assertions :
                /\ assertions[b].status \in {"review_required", "conflicted"}
                /\ \A i \in DOMAIN reviews : reviews[i].assertion # b}}
=============================================================================
