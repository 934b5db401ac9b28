-------------------------- MODULE PromotionInputs --------------------------
(***************************************************************************)
(* PromotionPolicy called on its own, as its port allows: any decisions,   *)
(* in any order, with any timestamps, for assertions that may have changed *)
(* since.  The tuple of reviews grows one decision at a time.              *)
(* LoopReviews is the loop of promotion.py, statement by statement: the    *)
(* operators of TrustKernel are checked against it.                        *)
(***************************************************************************)
EXTENDS TrustKernel, SequencesExt

CONSTANTS
    AssertionInputs,    \* assessed assertions, as sequences
    DecisionInputs,     \* decisions that may be in the tuple
    MaxReviews          \* bound: length of the tuple

ASSUME InputsAssumption ==
    /\ AssertionInputs \subseteq Seq(Assertion)
    /\ DecisionInputs \subseteq ReviewDecision
    /\ MaxReviews \in Nat

VARIABLES assertions, reviews

vars == <<assertions, reviews>>

Init ==
    /\ assertions \in AssertionInputs
    /\ reviews = <<>>

AddReview ==
    /\ Len(reviews) < MaxReviews
    /\ \E d \in DecisionInputs : reviews' = Append(reviews, d)
    /\ UNCHANGED assertions

Next == AddReview

Spec == Init /\ [][Next]_vars

-----------------------------------------------------------------------------
(* The code's loop: a stable sort by created_at, then a dictionary that    *)
(* each valid decision overwrites.                                         *)

\* Insertion after every element that is not later keeps equals in order.
InsertSorted(sorted, d) ==
    LET before == {i \in DOMAIN sorted : sorted[i].created_at <= d.created_at}
        n == Cardinality(before)
    IN  SubSeq(sorted, 1, n) \o <<d>> \o SubSeq(sorted, n + 1, Len(sorted))

Sorted(seq) == FoldLeft(InsertSorted, <<>>, seq)

\* The decision is on an assertion of the run, in its present state.
Counts(d) ==
    /\ d.assertion \in DOMAIN assertions
    /\ d.fingerprint = Fingerprint(assertions[d.assertion])

RecordLatest(latest, d) ==
    IF Counts(d)
    THEN [a \in DOMAIN latest \cup {d.assertion} |->
            IF a = d.assertion THEN d ELSE latest[a]]
    ELSE latest

LoopReviews == FoldLeft(RecordLatest, [a \in {} |-> {}], Sorted(reviews))

-----------------------------------------------------------------------------
(* Properties.                                                             *)

\* The operators keep the decision the loop keeps, for every assertion and
\* every order and timing of the decisions (_latest_valid_reviews).
LatestReviewIsLoop ==
    \A a \in DOMAIN assertions :
        LatestReview(assertions, reviews, a) =
            IF a \in DOMAIN LoopReviews THEN {LoopReviews[a]} ELSE {}

\* The tuple without the decisions that do not count.
KeepCounting(kept, d) == IF Counts(d) THEN Append(kept, d) ELSE kept

ValidOnly == FoldLeft(KeepCounting, <<>>, reviews)

\* A decision on an assertion that has changed since, or on one of another
\* run, has no effect on any key (CONTRIBUTING.md:15, "stale fingerprints").
StaleReviewsInert ==
    \A key \in Keys :
        Select(assertions, reviews, key) = Select(assertions, ValidOnly, key)

\* Decisions made at different times may arrive in any order: exchanging two
\* neighbours of the tuple changes no selection.
ArrivalOrderInert ==
    \A i \in 1 .. Len(reviews) - 1 :
        reviews[i].created_at # reviews[i + 1].created_at =>
            LET exchanged == [reviews EXCEPT ![i] = reviews[i + 1],
                                             ![i + 1] = reviews[i]]
            IN  \A key \in Keys :
                    Select(assertions, reviews, key) =
                        Select(assertions, exchanged, key)

\* What contradicting sources are resolved to is one candidate, and the
\* reviewers' last word rejects every other (_select).
ConflictHasOneSurvivor ==
    \A key \in Keys : \A s \in Select(assertions, reviews, key) :
        IsConflicted(assertions, key) =>
            \E a \in Candidates(assertions, key) :
                /\ s.assertion_ids = {a}
                /\ LoopReviews[a].outcome # "reject"
                /\ s.value = ApprovedValue(assertions[a], LoopReviews[a])
                /\ \A b \in Candidates(assertions, key) \ {a} :
                        LoopReviews[b].outcome = "reject"

\* A key gets at most one value, and one for certain when the policy
\* accepted a candidate and no source contradicts it.
SelectionDetermined ==
    \A key \in Keys :
        /\ Cardinality(Select(assertions, reviews, key)) <= 1
        /\ Accepted(assertions, key) # {} /\ ~IsConflicted(assertions, key) =>
            Select(assertions, reviews, key) # {}
=============================================================================
