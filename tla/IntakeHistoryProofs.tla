------------------------ MODULE IntakeHistoryProofs -------------------------
(***************************************************************************)
(* What a run and its tables remember, for any number of overlapping       *)
(* reviews: conflicts read what was decided, the ledger records the run    *)
(* and nothing else, and no row rests on a decision that is lost.  When    *)
(* reviews do not overlap, tables and run hold the same for good.          *)
(***************************************************************************)
EXTENDS IntakeServiceProofs

\* The reviews of the key come to this: decision d on candidate a lets it
\* through, and no other candidate.
ComesTo(assertions, reviews, key, a, d) ==
    /\ SoleApproval(assertions, reviews, key) =
        {[value |-> ApprovedValue(assertions[a], d), assertion_ids |-> {a}]}
    /\ FullyReviewed(assertions, reviews, key)

\* Each candidate of the key has its last word, and that lets the chosen one
\* through and no other.
LastWords(assertions, reviews, key, chosen, last) ==
    \A a \in Candidates(assertions, key) :
        /\ LatestReview(assertions, reviews, a) = {last[a]}
        /\ last[a].outcome # "reject" <=> a = chosen

LEMMA LastWordsSelect ==
    ASSUME NEW assertions, NEW reviews, NEW key,
           NEW chosen \in Candidates(assertions, key), NEW last,
           LastWords(assertions, reviews, key, chosen, last)
    PROVE  ComesTo(assertions, reviews, key, chosen, last[chosen])
<1> DEFINE cs == Candidates(assertions, key)
           approved == {a \in cs : Approvals(assertions, reviews, a) # {}}
           passed(a) == {[value |-> ApprovedValue(assertions[a], d),
                          assertion_ids |-> {a}]
                            : d \in Approvals(assertions, reviews, a)}
<1>1. /\ Approvals(assertions, reviews, chosen) = {last[chosen]}
      /\ \A a \in cs : Approvals(assertions, reviews, a) # {} <=> a = chosen
  BY DEF Approvals, LastWords
<1>2. approved = {chosen}
  BY <1>1
<1>3. {b \in approved : approved = {b}} = {chosen}
  BY <1>2
<1>4. SoleApproval(assertions, reviews, key) =
        UNION {passed(a) : a \in {b \in approved : approved = {b}}}
  BY DEF SoleApproval
<1>5. passed(chosen) = {[value |-> ApprovedValue(assertions[chosen], last[chosen]),
                         assertion_ids |-> {chosen}]}
  BY <1>1
<1> HIDE DEF approved, passed
<1>6. SoleApproval(assertions, reviews, key) = passed(chosen)
  BY <1>3, <1>4
<1>7. FullyReviewed(assertions, reviews, key)
  BY DEF FullyReviewed, LastWords
<1>8. QED
  BY <1>5, <1>6, <1>7 DEF ComesTo

-----------------------------------------------------------------------------
(* Sequences.                                                              *)
LEMMA ConcatElements ==
    ASSUME NEW S, NEW r \in Seq(S), NEW m \in Seq(S)
    PROVE  Elements(r \o m) = Elements(r) \cup Elements(m)
<1> DEFINE all == r \o m
<1>1. /\ \A i \in DOMAIN r : i \in DOMAIN all /\ all[i] = r[i]
      /\ \A n \in DOMAIN m : Len(r) + n \in DOMAIN all /\ all[Len(r) + n] = m[n]
      /\ \A i \in DOMAIN all : i \in DOMAIN r \/ \E n \in DOMAIN m : i = Len(r) + n
  BY ConcatParts
<1> HIDE DEF all
<1>2. Elements(all) \subseteq Elements(r) \cup Elements(m)
  BY <1>1 DEF Elements
<1>3. Elements(r) \subseteq Elements(all)
  BY <1>1 DEF Elements
<1>4. Elements(m) \subseteq Elements(all)
  BY <1>1 DEF Elements
<1>5. QED
  BY <1>2, <1>3, <1>4 DEF all

\* A rising enumeration names each element, and names it once.
LEMMA AscendingCovers ==
    ASSUME NEW n \in Nat, NEW S \in SUBSET (1 .. n), NEW f \in Ascending(S)
    PROVE  /\ \A a \in S : \E m \in DOMAIN f : f[m] = a
           /\ \A m, k \in DOMAIN f : f[m] = f[k] => m = k
<1> DEFINE c == Cardinality(S)
<1>1. /\ c \in Nat /\ f \in [1 .. c -> S] /\ DOMAIN f = 1 .. c
      /\ \A m, k \in DOMAIN f : m < k => f[m] < f[k]
  BY AscendingType DEF Ascending
<1>2. IsFiniteSet(S)
  <2>1. IsFiniteSet(1 .. n)
    BY FS_Interval
  <2>2. QED
    BY <2>1, FS_Subset
<1>3. ASSUME NEW m \in DOMAIN f, NEW k \in DOMAIN f, f[m] = f[k]
      PROVE  m = k
  <2>1. m \in Int /\ k \in Int /\ f[m] \in Int /\ f[k] \in Int
    <3>1. f[m] \in S /\ f[k] \in S
      BY <1>1
    <3>2. m \in Int /\ k \in Int
      BY <1>1
    <3>3. \A a \in S : a \in Int
      OBVIOUS
    <3>4. QED
      BY <3>1, <3>2, <3>3
  <2>2. ~(m < k) /\ ~(k < m)
    BY <1>1, <1>3, <2>1
  <2>3. QED
    BY <2>1, <2>2
<1>4. Cardinality(1 .. c) = c
  <2> HIDE DEF c
  <2>1. QED
    BY <1>1, FS_Interval
<1> HIDE DEF c
<1>5. f \in Injection(1 .. c, S)
  BY <1>1, <1>3, Fun_IsInj
<1>6. f \in Surjection(1 .. c, S)
  BY <1>2, <1>4, <1>5, FS_Injection DEF c
<1>7. \A a \in S : \E m \in DOMAIN f : f[m] = a
  BY <1>1, <1>6 DEF Surjection
<1>8. QED
  BY <1>3, <1>7

-----------------------------------------------------------------------------
(* The decisions of a run.                                                 *)
\* The key that the i-th decision is about.
DecidedKey(run, i) == run.assertions[run.reviews[i].assertion].key

\* Decisions are on assertions of the run, as they are.
ReviewsOnTarget(run) ==
    \A i \in DOMAIN run.reviews :
        /\ run.reviews[i].assertion \in DOMAIN run.assertions
        /\ IsReviewOf(run.assertions, run.reviews[i], run.reviews[i].assertion)

\* A review decides on every candidate of its key.
ReviewsWhole(run) ==
    \A i \in DOMAIN run.reviews :
        \A a \in Candidates(run.assertions, DecidedKey(run, i)) :
            \E j \in DOMAIN run.reviews :
                /\ run.reviews[j].op = run.reviews[i].op
                /\ run.reviews[j].assertion = a

\* It decides on each once, and lets one through.
ReviewsSingle(run) ==
    \A i, j \in DOMAIN run.reviews :
        run.reviews[i].op = run.reviews[j].op =>
            /\ run.reviews[i].assertion = run.reviews[j].assertion => i = j
            /\ run.reviews[i].outcome # "reject" /\ run.reviews[j].outcome # "reject"
                => i = j

\* Reviews are kept in the order they were started, and where the clock never
\* steps back their times rise.
ReviewsInOrder(run) ==
    \A i, j \in DOMAIN run.reviews :
        i < j => /\ run.reviews[i].op <= run.reviews[j].op
                 /\ MonotoneClock =>
                        run.reviews[i].created_at <= run.reviews[j].created_at

ReviewsOK(run) ==
    /\ ReviewsOnTarget(run)
    /\ ReviewsWhole(run)
    /\ ReviewsSingle(run)
    /\ ReviewsInOrder(run)

\* What was decided before the review, by when and by whom.
Before(d, op, time) == d.op < op /\ (MonotoneClock => d.created_at <= time)

Precedes(run, op, time) ==
    \A i \in DOMAIN run.reviews : Before(run.reviews[i], op, time)

\* The decisions of a review: one on each candidate of the chosen key, all
\* but the chosen one rejected, made one after the other from time on.
DecidesAll(review, decisions, time) ==
    LET assertions == review.run.assertions
        cs == Candidates(assertions, ChosenKey(review))
    IN  /\ decisions \in Seq(ReviewDecision)
        /\ \A n \in DOMAIN decisions :
            /\ decisions[n].op = review.op
            /\ decisions[n].assertion \in cs
            /\ IsReviewOf(assertions, decisions[n], decisions[n].assertion)
            /\ decisions[n].outcome # "reject"
                <=> decisions[n].assertion = review.chosen
            /\ MonotoneClock => time <= decisions[n].created_at
        /\ \A m, n \in DOMAIN decisions :
            /\ decisions[m].assertion = decisions[n].assertion => m = n
            /\ m < n /\ MonotoneClock =>
                decisions[m].created_at <= decisions[n].created_at
        /\ \A a \in cs : \E n \in DOMAIN decisions : decisions[n].assertion = a

\* The candidates of the chosen key.
LEMMA ChosenCandidates ==
    ASSUME NEW review, ReviewOK(review)
    PROVE  /\ review.run.assertions \in Seq(Assertion)
           /\ Len(review.run.assertions) \in Nat
           /\ ChosenKey(review) \in Keys
           /\ Candidates(review.run.assertions, ChosenKey(review))
                \in SUBSET (1 .. Len(review.run.assertions))
           /\ review.chosen \in Candidates(review.run.assertions, ChosenKey(review))
<1>1. /\ review.run.assertions \in Seq(Assertion)
      /\ review.chosen \in DOMAIN review.run.assertions
  BY DEF ReviewOK, RunOK, IntakeRun
<1>2. review.run.assertions[review.chosen] \in Assertion
  BY <1>1
<1>3. QED
  BY <1>1, <1>2 DEF ChosenKey, Candidates, Assertion

\* The decisions that resolve makes are such.
LEMMA ReviewDecidesAll ==
    ASSUME NEW review, ReviewOK(review), clock \in Times,
           NEW order \in Ascending(Candidates(review.run.assertions, ChosenKey(review))),
           NEW stamps \in ClockReadings(Cardinality(Candidates(review.run.assertions,
                                                ChosenKey(review))))
    PROVE  DecidesAll(review, Decisions(review, order, stamps), clock)
<1> DEFINE assertions == review.run.assertions
           cs == Candidates(assertions, ChosenKey(review))
           c == Cardinality(cs)
           decisions == Decisions(review, order, stamps)
<1>1. cs \in SUBSET (1 .. Len(assertions)) /\ Len(assertions) \in Nat
  BY ChosenCandidates
<1>2. /\ c \in Nat /\ order \in [1 .. c -> cs] /\ DOMAIN order = 1 .. c
      /\ \A a \in cs : \E m \in DOMAIN order : order[m] = a
      /\ \A m, k \in DOMAIN order : order[m] = order[k] => m = k
  <2>1. order \in Ascending(cs)
    OBVIOUS
  <2> HIDE DEF cs, assertions
  <2>2. c \in Nat /\ DOMAIN order = 1 .. c /\ order \in [1 .. c -> cs]
    BY <1>1, <2>1, AscendingType DEF Ascending
  <2>3. QED
    BY ZenonT(30), <1>1, <2>1, <2>2, AscendingCovers
<1>3. /\ stamps \in [1 .. c -> Times]
      /\ MonotoneClock => \A i \in 1 .. c :
            clock <= stamps[i] /\ \A j \in i .. c : stamps[i] <= stamps[j]
  BY DEF ClockReadings
<1>4. decisions \in Seq(ReviewDecision)
  BY <1>3, DecisionsType
<1>5. /\ DOMAIN decisions = 1 .. c
      /\ \A n \in 1 .. c : decisions[n] = DecisionFor(review, order[n], stamps[n])
  BY <1>2 DEF Decisions
<1>6. ASSUME NEW a, NEW t
      PROVE  LET d == DecisionFor(review, a, t)
             IN  /\ d.op = review.op /\ d.assertion = a /\ d.created_at = t
                 /\ IsReviewOf(assertions, d, a)
                 /\ d.outcome # "reject" <=> a = review.chosen
  <2>1. /\ DecisionFor(review, a, t).op = review.op
        /\ DecisionFor(review, a, t).assertion = a
        /\ DecisionFor(review, a, t).created_at = t
        /\ DecisionFor(review, a, t).fingerprint = Fingerprint(assertions[a])
    BY DEF DecisionFor
  <2>2. DecisionFor(review, a, t).outcome # "reject" <=> a = review.chosen
    <3>1. CASE a # review.chosen
      BY <3>1 DEF DecisionFor
    <3>2. CASE a = review.chosen /\ review.correction # NoValue
      BY <3>2 DEF DecisionFor
    <3>3. CASE a = review.chosen /\ review.correction = NoValue
      BY <3>3 DEF DecisionFor
    <3>4. QED
      BY <3>1, <3>2, <3>3
  <2>3. QED
    BY <2>1, <2>2 DEF IsReviewOf
<1> HIDE DEF decisions, c
<1>7. ASSUME NEW n \in DOMAIN decisions
      PROVE  /\ decisions[n].op = review.op
             /\ decisions[n].assertion = order[n]
             /\ decisions[n].assertion \in cs
             /\ decisions[n].created_at = stamps[n]
             /\ IsReviewOf(assertions, decisions[n], decisions[n].assertion)
             /\ decisions[n].outcome # "reject"
                    <=> decisions[n].assertion = review.chosen
  <2>1. decisions[n] = DecisionFor(review, order[n], stamps[n]) /\ order[n] \in cs
    BY <1>2, <1>5
  <2> HIDE DEF cs, assertions
  <2>2. QED
    BY <1>6, <2>1
<1>8. \A a \in cs : \E n \in DOMAIN decisions : decisions[n].assertion = a
  BY SMTT(30), <1>2, <1>5, <1>7
<1>9. ASSUME NEW m \in DOMAIN decisions, NEW n \in DOMAIN decisions
      PROVE  /\ decisions[m].assertion = decisions[n].assertion => m = n
             /\ m < n /\ MonotoneClock =>
                    decisions[m].created_at <= decisions[n].created_at
  <2>1. decisions[m].assertion = decisions[n].assertion => m = n
    BY SMTT(30), <1>2, <1>5, <1>7
  <2>2. ASSUME m < n, MonotoneClock
        PROVE  decisions[m].created_at <= decisions[n].created_at
    <3>1. n \in m .. c /\ m \in 1 .. c
      BY <1>2, <1>5, <2>2
    <3>2. stamps[m] <= stamps[n]
      BY <1>3, <2>2, <3>1 DEF c
    <3>3. QED
      BY <1>7, <3>2
  <2>3. QED
    BY <2>1, <2>2
<1>10. \A n \in DOMAIN decisions : MonotoneClock => clock <= decisions[n].created_at
  BY <1>3, <1>5, <1>7 DEF c
<1>11. QED
  BY <1>4, <1>7, <1>8, <1>9, <1>10 DEF DecidesAll, decisions

\* The decisions of the next run, all, are those of the run, r, and after
\* them the ones the review makes, and each is still about the same key.
Follow(all, r, decisions) ==
    /\ r \in Seq(ReviewDecision) /\ decisions \in Seq(ReviewDecision)
    /\ all \in Seq(ReviewDecision)
    /\ Len(r) \in Nat /\ DOMAIN r = 1 .. Len(r)
    /\ DOMAIN decisions \subseteq Nat \ {0}
    /\ \A i \in DOMAIN r : i \in DOMAIN all /\ all[i] = r[i]
    /\ \A n \in DOMAIN decisions : /\ Len(r) + n \in DOMAIN all
                                  /\ all[Len(r) + n] = decisions[n]
    /\ \A i \in DOMAIN all :
        i \in DOMAIN r \/ \E n \in DOMAIN decisions : i = Len(r) + n

LEMMA ConcatFollows ==
    ASSUME NEW r \in Seq(ReviewDecision), NEW decisions \in Seq(ReviewDecision)
    PROVE  Follow(r \o decisions, r, decisions)
<1>1. /\ r \o decisions \in Seq(ReviewDecision)
      /\ \A i \in DOMAIN r : i \in DOMAIN (r \o decisions) /\ (r \o decisions)[i] = r[i]
      /\ \A n \in DOMAIN decisions : /\ Len(r) + n \in DOMAIN (r \o decisions)
                                    /\ (r \o decisions)[Len(r) + n] = decisions[n]
      /\ \A i \in DOMAIN (r \o decisions) :
            i \in DOMAIN r \/ \E n \in DOMAIN decisions : i = Len(r) + n
  BY ConcatParts
<1>2. Len(r) \in Nat /\ DOMAIN r = 1 .. Len(r) /\ DOMAIN decisions \subseteq Nat \ {0}
  OBVIOUS
<1>3. QED
  BY <1>1, <1>2 DEF Follow

\* A review keeps the decisions of a run in order.
LEMMA ReviewKeepsReviewsOK ==
    ASSUME NEW review, ReviewOK(review), ReviewsOK(review.run),
           NEW time \in Nat, Precedes(review.run, review.op, time),
           NEW decisions, DecidesAll(review, decisions, time),
           NEW new, new.assertions = review.run.assertions,
           new.reviews = review.run.reviews \o decisions
    PROVE  ReviewsOK(new)
<1> DEFINE old == review.run
           r == old.reviews
           before == Len(r)
           all == new.reviews
           cs == Candidates(old.assertions, ChosenKey(review))
<1>1. Follow(all, r, decisions)
  <2>1. r \in Seq(ReviewDecision) /\ decisions \in Seq(ReviewDecision)
    BY DEF ReviewOK, RunOK, IntakeRun, DecidesAll
  <2> HIDE DEF r
  <2>2. all = r \o decisions
    BY DEF r
  <2>3. QED
    BY <2>1, <2>2, ConcatFollows
<1>2. /\ r \in Seq(ReviewDecision) /\ before \in Nat
      /\ DOMAIN r = 1 .. before
      /\ DOMAIN decisions \subseteq Nat \ {0}
  BY <1>1 DEF Follow
<1>3. \A i \in DOMAIN r : i \in DOMAIN all /\ all[i] = r[i]
  BY <1>1 DEF Follow
<1>4. \A n \in DOMAIN decisions : before + n \in DOMAIN all
                                 /\ all[before + n] = decisions[n]
  BY <1>1 DEF Follow
<1>5. \A i \in DOMAIN all : i \in DOMAIN r \/ \E n \in DOMAIN decisions : i = before + n
  BY <1>1 DEF Follow
<1>6. \A i \in DOMAIN r : Before(r[i], review.op, time)
  BY DEF Precedes
<1>7. \A n \in DOMAIN decisions :
        /\ decisions[n].op = review.op
        /\ decisions[n].assertion \in cs
        /\ IsReviewOf(old.assertions, decisions[n], decisions[n].assertion)
        /\ decisions[n].outcome # "reject"
                <=> decisions[n].assertion = review.chosen
        /\ MonotoneClock => time <= decisions[n].created_at
  BY DEF DecidesAll
<1>8. \A m, n \in DOMAIN decisions :
        /\ decisions[m].assertion = decisions[n].assertion => m = n
        /\ m < n /\ MonotoneClock =>
                decisions[m].created_at <= decisions[n].created_at
  BY DEF DecidesAll
<1>9. \A a \in cs : \E n \in DOMAIN decisions : decisions[n].assertion = a
  BY DEF DecidesAll
<1>10. /\ \A i \in DOMAIN r : DecidedKey(new, i) = DecidedKey(old, i)
      /\ \A n \in DOMAIN decisions : DecidedKey(new, before + n) = ChosenKey(review)
  <2>1. \A n \in DOMAIN decisions : decisions[n].assertion \in cs
    BY <1>7
  <2>2. new.assertions = old.assertions
    OBVIOUS
  <2> HIDE DEF before, old
  <2>3. \A n \in DOMAIN decisions : DecidedKey(new, before + n) = ChosenKey(review)
    BY <1>4, <2>1, <2>2 DEF DecidedKey, Candidates
  <2>4. \A i \in DOMAIN r : DecidedKey(new, i) = DecidedKey(old, i)
    BY <1>3, <2>2 DEF DecidedKey
  <2>5. QED
    BY <2>3, <2>4
<1>11. /\ \A i \in DOMAIN r : r[i].op \in Nat /\ r[i].created_at \in Nat
      /\ \A n \in DOMAIN decisions : decisions[n].created_at \in Nat
      /\ review.op \in Nat
  <2>1. ASSUME NEW s \in Seq(ReviewDecision), NEW i \in DOMAIN s
        PROVE  s[i].op \in Nat /\ s[i].created_at \in Nat
    <3>1. s[i] \in ReviewDecision
      OBVIOUS
    <3>2. QED
      BY <3>1 DEF ReviewDecision
  <2>2. review.op \in Nat
    BY DEF ReviewOK, Review
  <2>3. r \in Seq(ReviewDecision) /\ decisions \in Seq(ReviewDecision)
    BY <1>1 DEF Follow
  <2> HIDE DEF r, before, old, all
  <2>4. QED
    BY <2>1, <2>2, <2>3
<1> HIDE DEF old, r, before, all
<1>12. ReviewsOnTarget(new)
  <2>1. \A i \in DOMAIN r : /\ r[i].assertion \in DOMAIN old.assertions
                           /\ IsReviewOf(old.assertions, r[i], r[i].assertion)
    BY DEF ReviewsOK, ReviewsOnTarget, r, old
  <2>2. \A a \in cs : a \in DOMAIN old.assertions
    BY DEF Candidates
  <2>3. new.assertions = old.assertions
    BY DEF old
  <2> HIDE DEF cs
  <2>4. \A i \in DOMAIN all : /\ all[i].assertion \in DOMAIN new.assertions
                             /\ IsReviewOf(new.assertions, all[i], all[i].assertion)
    <3>1. ASSUME NEW n \in DOMAIN decisions, NEW i, i = before + n
          PROVE  /\ all[i].assertion \in DOMAIN new.assertions
                 /\ IsReviewOf(new.assertions, all[i], all[i].assertion)
      BY <1>4, <1>7, <2>2, <2>3, <3>1
    <3>2. ASSUME NEW i \in DOMAIN r
          PROVE  /\ all[i].assertion \in DOMAIN new.assertions
                 /\ IsReviewOf(new.assertions, all[i], all[i].assertion)
      BY <1>3, <2>1, <2>3
    <3>3. QED
      BY <1>5, <3>1, <3>2
  <2>5. QED
    BY <2>4 DEF ReviewsOnTarget, all
<1>13. ReviewsWhole(new)
  <2>1. ASSUME NEW i \in DOMAIN all,
               NEW a \in Candidates(new.assertions, DecidedKey(new, i))
        PROVE  \E j \in DOMAIN all : all[j].op = all[i].op /\ all[j].assertion = a
    <3>1. CASE i \in DOMAIN r
      <4>1. PICK j \in DOMAIN r : r[j].op = r[i].op /\ r[j].assertion = a
        BY <1>3, <1>10, <2>1, <3>1 DEF ReviewsOK, ReviewsWhole, r, old
      <4>2. QED
        BY <1>3, <3>1, <4>1
    <3>2. ASSUME NEW n \in DOMAIN decisions, i = before + n
          PROVE  \E j \in DOMAIN all : all[j].op = all[i].op /\ all[j].assertion = a
      <4>1. a \in cs
        BY <1>10, <2>1, <3>2 DEF old
      <4>2. PICK m \in DOMAIN decisions : decisions[m].assertion = a
        BY <1>9, <4>1
      <4>3. QED
        BY <1>4, <1>7, <3>2, <4>2
    <3>3. QED
      BY <1>5, <2>1, <3>1, <3>2
  <2>2. QED
    BY <2>1 DEF ReviewsWhole, all
<1>14. ReviewsSingle(new)
  <2>1. ASSUME NEW i \in DOMAIN all, NEW j \in DOMAIN all, all[i].op = all[j].op
        PROVE  /\ all[i].assertion = all[j].assertion => i = j
               /\ all[i].outcome # "reject" /\ all[j].outcome # "reject" => i = j
    <3>1. CASE i \in DOMAIN r /\ j \in DOMAIN r
      BY <1>3, <2>1, <3>1 DEF ReviewsOK, ReviewsSingle, r, old
    <3>2. ASSUME NEW m \in DOMAIN decisions, i = before + m,
                 NEW n \in DOMAIN decisions, j = before + n
          PROVE  /\ all[i].assertion = all[j].assertion => i = j
                 /\ all[i].outcome # "reject" /\ all[j].outcome # "reject" => i = j
      <4>1. all[i] = decisions[m] /\ all[j] = decisions[n]
        BY <1>4, <3>2
      <4>2. decisions[m].assertion = decisions[n].assertion => m = n
        BY <1>8
      <4>3. decisions[m].outcome # "reject" /\ decisions[n].outcome # "reject" => m = n
        BY <1>7, <4>2
      <4>4. QED
        BY <3>2, <4>1, <4>2, <4>3
    <3>3. ASSUME NEW k \in DOMAIN r, NEW n \in DOMAIN decisions
          PROVE  all[k].op # all[before + n].op
      <4>1. all[k].op < review.op /\ all[before + n].op = review.op
        <5>1. r[k].op < review.op /\ decisions[n].op = review.op
          BY <1>6, <1>7 DEF Before
        <5>2. all[k] = r[k] /\ all[before + n] = decisions[n]
          BY <1>3, <1>4
        <5>3. QED
          BY <5>1, <5>2
      <4>2. all[k].op \in Nat /\ review.op \in Nat
        BY <1>3, <1>11
      <4>3. QED
        BY <4>1, <4>2
    <3>4. QED
      BY <1>5, <2>1, <3>1, <3>2, <3>3
  <2>2. QED
    BY <2>1 DEF ReviewsSingle, all
<1>15. ReviewsInOrder(new)
  <2>1. ASSUME NEW i \in DOMAIN all, NEW j \in DOMAIN all, i < j
        PROVE  /\ all[i].op <= all[j].op
               /\ MonotoneClock => all[i].created_at <= all[j].created_at
    <3>1. CASE i \in DOMAIN r /\ j \in DOMAIN r
      BY <1>3, <2>1, <3>1 DEF ReviewsOK, ReviewsInOrder, r, old
    <3>2. ASSUME i \in DOMAIN r, NEW n \in DOMAIN decisions, j = before + n
          PROVE  /\ all[i].op <= all[j].op
                 /\ MonotoneClock => all[i].created_at <= all[j].created_at
      <4>1. /\ all[i] = r[i] /\ all[j] = decisions[n]
            /\ r[i].op < review.op /\ decisions[n].op = review.op
            /\ MonotoneClock => r[i].created_at <= time /\ time <= decisions[n].created_at
        <5>1. r[i].op < review.op /\ (MonotoneClock => r[i].created_at <= time)
          BY <1>6, <3>2 DEF Before
        <5>2. /\ decisions[n].op = review.op
              /\ MonotoneClock => time <= decisions[n].created_at
          BY <1>7
        <5>3. all[i] = r[i] /\ all[j] = decisions[n]
          BY <1>3, <1>4, <3>2
        <5>4. QED
          BY <5>1, <5>2, <5>3
      <4>2. /\ r[i].op \in Nat /\ review.op \in Nat
            /\ r[i].created_at \in Nat /\ decisions[n].created_at \in Nat
        BY <1>11, <3>2
      <4>3. QED
        BY <4>1, <4>2
    <3>3. ASSUME NEW m \in DOMAIN decisions, i = before + m,
                 NEW n \in DOMAIN decisions, j = before + n
          PROVE  /\ all[i].op <= all[j].op
                 /\ MonotoneClock => all[i].created_at <= all[j].created_at
      <4>1. m \in Nat /\ n \in Nat /\ m < n
        BY <1>2, <2>1, <3>3
      <4>2. /\ all[i] = decisions[m] /\ all[j] = decisions[n]
            /\ decisions[m].op = review.op /\ decisions[n].op = review.op
        BY <1>4, <1>7, <3>3
      <4>3. MonotoneClock => decisions[m].created_at <= decisions[n].created_at
        BY <1>8, <4>1
      <4>4. review.op <= review.op
        BY <1>11
      <4>5. QED
        BY <4>2, <4>3, <4>4
    <3>4. ASSUME NEW m \in DOMAIN decisions, i = before + m, j \in DOMAIN r
          PROVE  FALSE
      <4>1. m \in Nat /\ before \in Nat /\ j \in 1 .. before /\ before + m < j
        BY <1>2, <2>1, <3>4
      <4>2. QED
        BY <4>1
    <3>5. QED
      BY <1>5, <2>1, <3>1, <3>2, <3>3, <3>4
  <2>2. QED
    BY <2>1 DEF ReviewsInOrder, all
<1>16. QED
  BY <1>12, <1>13, <1>14, <1>15 DEF ReviewsOK

-----------------------------------------------------------------------------
(* What the decisions of a run come to.                                    *)
\* The i-th decision belongs to the last review of its key.  Where the clock
\* may step back, that says so only if it is also the first.
LastOnItsKey(run, i) ==
    \A j \in DOMAIN run.reviews :
        DecidedKey(run, j) = DecidedKey(run, i) =>
            /\ run.reviews[j].op <= run.reviews[i].op
            /\ MonotoneClock \/ run.reviews[j].op = run.reviews[i].op

\* A decision made in the same review, or in an earlier one, is not after it
\* in the order promotion reads them.
LEMMA LastIsSortedAfter ==
    ASSUME NEW run, run.reviews \in Seq(ReviewDecision), ReviewsOK(run),
           NEW i \in DOMAIN run.reviews, LastOnItsKey(run, i),
           NEW j \in DOMAIN run.reviews, run.reviews[j].op = run.reviews[i].op,
           NEW k \in DOMAIN run.reviews, k # j,
           DecidedKey(run, k) = DecidedKey(run, i),
           run.reviews[k].assertion = run.reviews[j].assertion
    PROVE  SortedAfter(run.reviews, j, k)
<1> DEFINE r == run.reviews
<1>1. /\ j \in Nat /\ k \in Nat
      /\ r[k].op \in Nat /\ r[j].op \in Nat
      /\ r[k].created_at \in Nat /\ r[j].created_at \in Nat
  <2>1. r[k] \in ReviewDecision /\ r[j] \in ReviewDecision /\ j \in Nat /\ k \in Nat
    OBVIOUS
  <2>2. QED
    BY <2>1 DEF ReviewDecision
<1>2. r[k].op # r[j].op
  BY DEF ReviewsOK, ReviewsSingle
<1>3. r[k].op <= r[j].op /\ MonotoneClock
  BY <1>2 DEF LastOnItsKey
<1>4. ~(j < k)
  <2>1. j < k => r[j].op <= r[k].op
    BY DEF ReviewsOK, ReviewsInOrder
  <2> HIDE DEF r
  <2>2. QED
    BY <1>1, <1>2, <1>3, <2>1
<1>5. k < j
  BY <1>1, <1>4
<1>6. r[k].created_at <= r[j].created_at
  BY <1>3, <1>5 DEF ReviewsOK, ReviewsInOrder
<1> HIDE DEF r
<1>7. QED
  BY <1>1, <1>5, <1>6 DEF SortedAfter, r

\* The last review of a key selects what it let through.
LEMMA LastReviewSelects ==
    ASSUME NEW run, run.reviews \in Seq(ReviewDecision), ReviewsOK(run),
           NEW i \in DOMAIN run.reviews, LastOnItsKey(run, i),
           run.reviews[i].outcome # "reject"
    PROVE  ComesTo(run.assertions, run.reviews, DecidedKey(run, i),
                   run.reviews[i].assertion, run.reviews[i])
<1> DEFINE r == run.reviews
           key == DecidedKey(run, i)
           cs == Candidates(run.assertions, key)
           chosen == r[i].assertion
           at == [a \in cs |-> CHOOSE j \in DOMAIN r :
                                    r[j].op = r[i].op /\ r[j].assertion = a]
           last == [a \in cs |-> r[at[a]]]
<1>1. \A a \in cs : /\ at[a] \in DOMAIN r
                    /\ r[at[a]].op = r[i].op /\ r[at[a]].assertion = a
  <2>1. \A a \in cs : \E j \in DOMAIN r : r[j].op = r[i].op /\ r[j].assertion = a
    BY DEF ReviewsOK, ReviewsWhole
  <2> HIDE DEF cs, r
  <2>2. QED
    BY <2>1
<1>2. \A j \in DOMAIN r : /\ r[j].assertion \in DOMAIN run.assertions
                          /\ IsReviewOf(run.assertions, r[j], r[j].assertion)
  BY DEF ReviewsOK, ReviewsOnTarget
<1>3. chosen \in cs
  BY <1>2 DEF Candidates, DecidedKey
<1>4. \A a \in cs : last[a].outcome # "reject" <=> a = chosen
  <2>1. ASSUME NEW j \in DOMAIN r, r[j].op = r[i].op
        PROVE  /\ r[j].assertion = r[i].assertion => j = i
               /\ r[j].outcome # "reject" => j = i
    BY <2>1 DEF ReviewsOK, ReviewsSingle
  <2>2. r[i].outcome # "reject"
    OBVIOUS
  <2>3. \A a \in cs : last[a] = r[at[a]]
    OBVIOUS
  <2> HIDE DEF cs, r, at, last
  <2>4. QED
    BY <1>1, <2>1, <2>2, <2>3
<1>5. ASSUME NEW a \in cs
      PROVE  LatestReview(run.assertions, r, a) = {last[a]}
  <2>1. ASSUME NEW k \in DOMAIN r, k # at[a], IsReviewOf(run.assertions, r[k], a)
        PROVE  SortedAfter(r, at[a], k)
    <3>1. r[k].assertion = a /\ DecidedKey(run, k) = key
      BY <2>1 DEF IsReviewOf, Candidates, DecidedKey
    <3>2. /\ at[a] \in DOMAIN r /\ r[at[a]].op = r[i].op
          /\ r[at[a]].assertion = a
      BY <1>1
    <3> DEFINE j == at[a]
    <3>3. j \in DOMAIN r /\ r[j].op = r[i].op /\ r[j].assertion = a /\ k # j
      BY <2>1, <3>2
    <3> HIDE DEF j, cs, at
    <3>4. SortedAfter(r, j, k)
      BY <2>1, <3>1, <3>3, LastIsSortedAfter
    <3>5. QED
      BY <3>4 DEF j
  <2>2. at[a] \in DOMAIN r /\ IsReviewOf(run.assertions, r[at[a]], a)
    BY <1>1, <1>2
  <2>3. r[at[a]] \in LatestReview(run.assertions, r, a)
    <3> HIDE DEF at
    <3>1. QED
      BY <2>1, <2>2 DEF LatestReview
  <2>4. r \in Seq(ReviewDecision) /\ last[a] = r[at[a]]
    OBVIOUS
  <2> HIDE DEF r, at, last, cs
  <2>5. QED
    BY <2>3, <2>4, LatestReviewUnique
<1> HIDE DEF last, at, cs, chosen, key
<1>6. ComesTo(run.assertions, r, key, chosen, last[chosen])
  <2> DEFINE assertions == run.assertions
  <2>1. LastWords(assertions, r, key, chosen, last)
    BY <1>4, <1>5 DEF cs, LastWords
  <2>2. chosen \in Candidates(assertions, key)
    BY <1>3 DEF cs
  <2> HIDE DEF r, assertions
  <2>3. ComesTo(assertions, r, key, chosen, last[chosen])
    BY <2>1, <2>2, LastWordsSelect
  <2>4. QED
    BY <2>3 DEF assertions
<1>7. last[chosen] = r[i]
  <2>1. at[chosen] = i
    <3>1. at[chosen] \in DOMAIN r /\ r[at[chosen]].op = r[i].op
          /\ r[at[chosen]].assertion = r[i].assertion
      BY <1>1, <1>3 DEF chosen
    <3>2. QED
      BY <3>1 DEF ReviewsOK, ReviewsSingle
  <2>2. QED
    BY <1>3, <2>1 DEF last
<1>8. QED
  BY <1>6, <1>7 DEF key, chosen

\* What a review lets through, if every candidate has been decided on, is
\* selected, or the policy's own choice is: something is.
LEMMA SomethingSelected ==
    ASSUME NEW assertions \in Seq(Assertion), NEW reviews, NEW key,
           SoleApproval(assertions, reviews, key) # {},
           FullyReviewed(assertions, reviews, key)
    PROVE  Select(assertions, reviews, key) # {}
<1>1. CASE IsConflicted(assertions, key)
  BY <1>1 DEF Select
<1>2. CASE ~IsConflicted(assertions, key) /\ Accepted(assertions, key) # {}
  BY <1>2, StrongestExists DEF Select
<1>3. CASE ~IsConflicted(assertions, key) /\ Accepted(assertions, key) = {}
  BY <1>3 DEF Select
<1>4. QED
  BY <1>1, <1>2, <1>3

\* Every key that was decided on has a fact.
DecidedHaveFacts(run) == \A key \in DecidedKeys(run) : run.facts[key] # <<>>

\* A review keeps the facts there are, and brings one to the key it is about.
LEMMA ReviewBringsFact ==
    ASSUME NEW review, ReviewOK(review), ReviewsOK(review.run),
           DecidedHaveFacts(review.run),
           NEW decisions, NEW time, DecidesAll(review, decisions, time),
           NEW new, new.assertions = review.run.assertions,
           new.reviews = review.run.reviews \o decisions,
           ReviewsOK(new), Settled(new),
           NEW added, new.facts = AddFacts(review.run.facts, added)
    PROVE  DecidedHaveFacts(new)
<1> DEFINE old == review.run
           r == old.reviews
           before == Len(r)
           all == new.reviews
           key == ChosenKey(review)
<1>1. Follow(all, r, decisions)
  <2>1. r \in Seq(ReviewDecision) /\ decisions \in Seq(ReviewDecision)
    BY DEF ReviewOK, RunOK, IntakeRun, DecidesAll
  <2> HIDE DEF r
  <2>2. all = r \o decisions
    BY DEF r
  <2>3. QED
    BY <2>1, <2>2, ConcatFollows
<1>2. /\ old.assertions \in Seq(Assertion) /\ key \in Keys
      /\ review.chosen \in Candidates(old.assertions, key)
  BY ChosenCandidates
<1>3. \A n \in DOMAIN decisions :
        /\ decisions[n].op = review.op
        /\ decisions[n].assertion \in Candidates(old.assertions, key)
        /\ decisions[n].outcome # "reject"
                <=> decisions[n].assertion = review.chosen
  BY DEF DecidesAll
<1>4. PICK m \in DOMAIN decisions : decisions[m].assertion = review.chosen
  BY <1>2 DEF DecidesAll
<1>5. /\ \A i \in DOMAIN r : /\ i \in DOMAIN all /\ all[i] = r[i]
                             /\ DecidedKey(new, i) = DecidedKey(old, i)
      /\ \A n \in DOMAIN decisions : /\ before + n \in DOMAIN all
                                     /\ all[before + n] = decisions[n]
                                     /\ DecidedKey(new, before + n) = key
      /\ \A i \in DOMAIN all :
            i \in DOMAIN r \/ \E n \in DOMAIN decisions : i = before + n
  <2>1. new.assertions = old.assertions
    OBVIOUS
  <2> HIDE DEF before, old, key
  <2>2. \A n \in DOMAIN decisions : /\ before + n \in DOMAIN all
                                    /\ all[before + n] = decisions[n]
    BY <1>1 DEF Follow, before
  <2>3. \A i \in DOMAIN r : i \in DOMAIN all /\ all[i] = r[i]
    BY <1>1 DEF Follow
  <2>4. \A n \in DOMAIN decisions : DecidedKey(new, before + n) = key
    BY <1>3, <2>1, <2>2 DEF DecidedKey, Candidates
  <2>5. \A i \in DOMAIN r : DecidedKey(new, i) = DecidedKey(old, i)
    BY <2>1, <2>3 DEF DecidedKey
  <2>6. QED
    BY <1>1, <2>2, <2>3, <2>4, <2>5 DEF Follow, before
<1>6. DecidedKeys(new) \subseteq DecidedKeys(old) \cup {key}
  <2>1. DecidedKeys(new) = {DecidedKey(new, i) : i \in DOMAIN all}
        /\ DecidedKeys(old) = {DecidedKey(old, i) : i \in DOMAIN r}
    BY DEF DecidedKeys, DecidedKey
  <2> HIDE DEF key, old, r, before, all
  <2>2. QED
    BY <1>5, <2>1
<1>7. \A k \in Keys : old.facts[k] # <<>> => new.facts[k] # <<>>
  <2>1. \A k \in Keys : old.facts[k] \in Seq(EffectiveFact)
    BY DEF ReviewOK, RunOK, FactsOK
  <2>2. ASSUME NEW k \in Keys
        PROVE  \/ new.facts[k] = old.facts[k]
               \/ \E f : new.facts[k] = Append(old.facts[k], f)
    <3> DEFINE facts == old.facts
    <3>1. new.facts = AddFacts(facts, added)
      OBVIOUS
    <3> HIDE DEF facts
    <3>2. \/ AddFacts(facts, added)[k] = facts[k]
          \/ \E f \in added[k] : AddFacts(facts, added)[k] = Append(facts[k], f)
      BY AddFactsGrows
    <3>3. QED
      BY <3>1, <3>2 DEF facts
  <2>3. ASSUME NEW s \in Seq(EffectiveFact), NEW f
        PROVE  Append(s, f) # <<>>
    BY AppendedIsLast
  <2>4. QED
    BY <2>1, <2>2, <2>3
<1>8. DecidedKeys(old) \subseteq Keys
  <2>1. \A i \in DOMAIN r : old.assertions[r[i].assertion] \in Assertion
    BY <1>2 DEF ReviewsOK, ReviewsOnTarget
  <2>2. QED
    BY <2>1 DEF DecidedKeys, Assertion
<1>9. ASSUME key \notin DecidedKeys(old)
      PROVE  new.facts[key] # <<>>
  <2> DEFINE i == before + m
  <2>1. i \in DOMAIN all /\ all[i] = decisions[m] /\ DecidedKey(new, i) = key
    BY <1>4, <1>5
  <2>2. all[i].op = review.op /\ all[i].outcome # "reject"
    BY <1>3, <1>4, <2>1
  <2>3. \A j \in DOMAIN r : DecidedKey(old, j) # key
    BY <1>9 DEF DecidedKeys, DecidedKey
  <2>4. review.op \in Nat
    BY DEF ReviewOK, Review
  <2> HIDE DEF i, key, before, r, old, all
  <2>5. ASSUME NEW j \in DOMAIN all, DecidedKey(new, j) = key
        PROVE  all[j].op = review.op
    <3>1. j \notin DOMAIN r
      BY <1>5, <2>3, <2>5
    <3>2. PICK n \in DOMAIN decisions : j = before + n
      BY <1>5, <3>1
    <3>3. QED
      BY <1>3, <1>5, <3>2
  <2>6. LastOnItsKey(new, i)
    BY <2>1, <2>2, <2>4, <2>5 DEF LastOnItsKey, all
  <2>7. all \in Seq(ReviewDecision)
    BY <1>1 DEF Follow
  <2>8. ComesTo(new.assertions, all, key, all[i].assertion, all[i])
    BY <2>1, <2>2, <2>6, <2>7, LastReviewSelects DEF all
  <2>9. Select(new.assertions, all, key) # {}
    <3> DEFINE assertions == new.assertions
    <3>1. assertions \in Seq(Assertion) /\ ComesTo(assertions, all, key, all[i].assertion, all[i])
      BY <1>2, <2>8 DEF old
    <3> HIDE DEF assertions
    <3>2. Select(assertions, all, key) # {}
      BY <3>1, SomethingSelected DEF ComesTo
    <3>3. QED
      BY <3>2 DEF assertions
  <2>10. QED
    BY <1>2, <2>9 DEF Settled, KeySettled, AlreadyEffective, all
<1>10. QED
  BY <1>2, <1>6, <1>7, <1>8, <1>9 DEF DecidedHaveFacts

-----------------------------------------------------------------------------
(* Conflicts.                                                              *)
\* There is a conflict record for each key whose sources disagree, and it
\* reads resolved exactly when the key has been decided on.
ConflictsOK(run) ==
    /\ DOMAIN run.conflicts = {key \in Keys : IsConflicted(run.assertions, key)}
    /\ \A key \in DOMAIN run.conflicts :
            run.conflicts[key] = "resolved" <=> key \in DecidedKeys(run)

\* A new run has a conflict for each contradiction, all of them open.
LEMMA CreatedConflictsOK ==
    ASSUME NEW claims \in Seq(Claim), NEW new, NEW heads
    PROVE  ConflictsOK(CreatedRun(Assess(claims), ConflictsOf(claims), new, heads))
<1> DEFINE run == CreatedRun(Assess(claims), ConflictsOf(claims), new, heads)
           ks == {k \in Keys : InConflict(claims, k)}
<1>1. /\ run.assertions = Assess(claims) /\ run.conflicts = ConflictsOf(claims)
      /\ run.reviews = <<>>
  BY DEF CreatedRun
<1> HIDE DEF run
<1>2. DecidedKeys(run) = {}
  BY <1>1 DEF DecidedKeys
<1>3. run.conflicts = [key \in ks |-> "open"]
  BY <1>1 DEF ConflictsOf
<1>4. ks = {key \in Keys : IsConflicted(run.assertions, key)}
  BY <1>1, ConflictedIsInConflict
<1> HIDE DEF ks
<1>5. DOMAIN run.conflicts = ks /\ \A key \in ks : run.conflicts[key] = "open"
  BY <1>3
<1>6. ConflictsOK(run)
  BY <1>2, <1>4, <1>5 DEF ConflictsOK
<1>7. QED
  BY <1>6 DEF run

\* A review resolves the conflict of the key it is about, and no other.
LEMMA ReviewKeepsConflictsOK ==
    ASSUME NEW old, ConflictsOK(old), NEW key,
           NEW new, new.assertions = old.assertions,
           new.conflicts = ResolveConflicts(old.conflicts, key),
           DecidedKeys(new) = DecidedKeys(old) \cup {key}
    PROVE  ConflictsOK(new)
<1> DEFINE before == old.conflicts
           after == new.conflicts
<1>1. after = [k \in DOMAIN before |-> IF k = key THEN "resolved" ELSE before[k]]
  BY DEF ResolveConflicts
<1>2. /\ DOMAIN before = {k \in Keys : IsConflicted(new.assertions, k)}
      /\ \A k \in DOMAIN before : before[k] = "resolved" <=> k \in DecidedKeys(old)
  BY DEF ConflictsOK
<1> HIDE DEF before, after
<1>3. /\ DOMAIN after = DOMAIN before
      /\ \A k \in DOMAIN before :
            after[k] = IF k = key THEN "resolved" ELSE before[k]
  BY <1>1
<1>4. \A k \in DOMAIN after : after[k] = "resolved" <=> k \in DecidedKeys(new)
  BY <1>2, <1>3
<1>5. QED
  BY <1>2, <1>3, <1>4 DEF ConflictsOK, after

-----------------------------------------------------------------------------
(* The ledger of a run.                                                    *)
\* What entries, or events, of a type say.
Recorded(entries, type) ==
    {e.payload : e \in {f \in Elements(entries) : f.type = type}}

DecisionPayloads(assertions, decisions) ==
    {ReviewEntry(d, assertions[d.assertion].key).payload : d \in decisions}

FactPayloads(facts) == {FactEntry(f).payload : f \in facts}

\* The ledger records the decisions and the facts of the run, and is no
\* longer than that takes.
LedgerOK(run) ==
    /\ IsFiniteSet(AllFacts(run.facts))
    /\ Len(run.audit_events) =
            1 + Len(run.reviews) + Cardinality(AllFacts(run.facts))
    /\ Recorded(run.audit_events, "review_recorded") =
            DecisionPayloads(run.assertions, Elements(run.reviews))
    /\ Recorded(run.audit_events, "fact_promoted") = FactPayloads(AllFacts(run.facts))

LEMMA ConcatRecorded ==
    ASSUME NEW S, NEW r \in Seq(S), NEW m \in Seq(S), NEW type
    PROVE  Recorded(r \o m, type) = Recorded(r, type) \cup Recorded(m, type)
<1>1. Elements(r \o m) = Elements(r) \cup Elements(m)
  BY ConcatElements
<1>2. QED
  BY <1>1 DEF Recorded

\* The ledger then says what it said and what the entries say.
LEMMA AppendedRecorded ==
    ASSUME NEW P, NEW events \in Seq(Event(P)), NEW entries \in Seq(Entry(P)),
           NEW type
    PROVE  Recorded(AppendEvents(events, entries), type)
            = Recorded(events, type) \cup Recorded(entries, type)
<1> DEFINE all == AppendEvents(events, entries)
           n == Len(events)
           m == Len(entries)
<1>1. /\ all \in Seq(Event(P)) /\ Len(all) = n + m
      /\ \A i \in 1 .. n : all[i] = events[i]
      /\ \A j \in 1 .. m : all[n + j] = AddedEvent(events, entries, j)
      /\ n \in Nat /\ m \in Nat
      /\ DOMAIN events = 1 .. n /\ DOMAIN entries = 1 .. m
  BY AppendEventsType, AppendEventsElements
<1> HIDE DEF all, n, m
<1>2. DOMAIN all = 1 .. n + m
  BY <1>1
<1>3. \A j \in 1 .. m : /\ n + j \in DOMAIN all
                        /\ all[n + j].type = entries[j].type
                        /\ all[n + j].payload = entries[j].payload
  <2>1. ASSUME NEW j \in 1 .. m
        PROVE  n + j \in 1 .. n + m
    BY <1>1
  <2>2. \A j \in 1 .. m : /\ AddedEvent(events, entries, j).type = entries[j].type
                          /\ AddedEvent(events, entries, j).payload = entries[j].payload
    BY DEF AddedEvent
  <2>3. QED
    BY <1>1, <1>2, <2>1, <2>2
<1>4. \A i \in 1 .. n : i \in DOMAIN all /\ all[i] = events[i]
  BY <1>1, <1>2
<1>5. ASSUME NEW i \in DOMAIN all, i \notin 1 .. n
      PROVE  \E j \in 1 .. m : i = n + j
  <2>1. i - n \in 1 .. m /\ i = n + (i - n)
    BY <1>1, <1>2, <1>5
  <2>2. QED
    BY <2>1
<1>6. \A seq : Recorded(seq, type) =
                {seq[i].payload : i \in {k \in DOMAIN seq : seq[k].type = type}}
  BY DEF Recorded, Elements
<1>7. Recorded(all, type) \subseteq Recorded(events, type) \cup Recorded(entries, type)
  <2>1. ASSUME NEW i \in DOMAIN all, all[i].type = type
        PROVE  all[i].payload \in Recorded(events, type) \cup Recorded(entries, type)
    <3>1. CASE i \in 1 .. n
      <4>1. all[i] = events[i] /\ i \in DOMAIN events
        BY <1>1, <3>1
      <4>2. events[i].payload \in Recorded(events, type)
        BY <1>6, <2>1, <4>1
      <4>3. QED
        BY <4>1, <4>2
    <3>2. CASE i \notin 1 .. n
      <4>1. PICK j \in 1 .. m : i = n + j
        BY <1>5, <3>2
      <4>2. entries[j].type = type /\ all[i].payload = entries[j].payload
        BY <1>3, <2>1, <4>1
      <4>3. entries[j].payload \in Recorded(entries, type)
        BY ZenonT(30), <1>1, <1>6, <4>2
      <4>4. QED
        BY <4>2, <4>3
    <3>3. QED
      BY <3>1, <3>2
  <2>2. QED
    BY <1>6, <2>1
<1>8. Recorded(events, type) \subseteq Recorded(all, type)
  <2>1. ASSUME NEW i \in DOMAIN events, events[i].type = type
        PROVE  events[i].payload \in Recorded(all, type)
    <3>1. i \in DOMAIN all /\ all[i] = events[i]
      BY <1>1, <1>4
    <3>2. QED
      BY <1>6, <2>1, <3>1
  <2>2. QED
    BY <1>6, <2>1
<1>9. Recorded(entries, type) \subseteq Recorded(all, type)
  <2>1. ASSUME NEW j \in DOMAIN entries, entries[j].type = type
        PROVE  entries[j].payload \in Recorded(all, type)
    <3>1. n + j \in DOMAIN all /\ all[n + j].type = type
          /\ all[n + j].payload = entries[j].payload
      BY <1>1, <1>3, <2>1
    <3>2. all[n + j].payload \in Recorded(all, type)
      BY <1>6, <3>1
    <3>3. QED
      BY <3>1, <3>2
  <2>2. QED
    BY <1>6, <2>1
<1>10. QED
  BY <1>7, <1>8, <1>9 DEF all

\* The entries of a review's decisions say what was decided.
LEMMA ReviewEntriesRecord ==
    ASSUME NEW assertions, NEW key \in Keys, NEW decisions \in Seq(ReviewDecision),
           \A n \in DOMAIN decisions : decisions[n].assertion \in Candidates(assertions, key),
           NEW entries,
           entries = [n \in DOMAIN decisions |-> ReviewEntry(decisions[n], key)]
    PROVE  /\ entries \in Seq(Entry(Payload)) /\ Len(entries) = Len(decisions)
           /\ Recorded(entries, "review_recorded") =
                DecisionPayloads(assertions, Elements(decisions))
           /\ Recorded(entries, "fact_promoted") = {}
<1>1. Len(decisions) \in Nat /\ DOMAIN decisions = 1 .. Len(decisions)
  OBVIOUS
<1>2. ASSUME NEW n \in DOMAIN decisions
      PROVE  ReviewEntry(decisions[n], key) \in Entry(Payload)
  <2>1. decisions[n] \in ReviewDecision
    OBVIOUS
  <2>2. QED
    BY <2>1 DEF ReviewEntry, Entry, Payload, ReviewPayload, ReviewDecision,
                AuditEventType
<1>3. entries \in Seq(Entry(Payload)) /\ Len(entries) = Len(decisions)
  <2>1. entries \in [1 .. Len(decisions) -> Entry(Payload)]
    BY <1>1, <1>2
  <2>2. QED
    BY <1>1, <2>1, IntervalFunctionIsSeq
<1>4. /\ DOMAIN entries = DOMAIN decisions
      /\ \A n \in DOMAIN decisions :
            /\ entries[n].type = "review_recorded"
            /\ entries[n].payload =
                ReviewEntry(decisions[n], assertions[decisions[n].assertion].key).payload
  BY DEF ReviewEntry, Candidates
<1>5. Recorded(entries, "fact_promoted") = {}
  BY <1>4 DEF Recorded, Elements
<1>6. Recorded(entries, "review_recorded") = {entries[n].payload : n \in DOMAIN entries}
  BY <1>4 DEF Recorded, Elements
<1>7. DecisionPayloads(assertions, Elements(decisions)) =
        {ReviewEntry(decisions[n], assertions[decisions[n].assertion].key).payload :
            n \in DOMAIN decisions}
  BY DEF DecisionPayloads, Elements
<1>8. QED
  BY <1>3, <1>4, <1>5, <1>6, <1>7

\* What promotion proposes continues the facts: the next version of its key,
\* and only for a key that has candidates.
Continues(assertions, facts, new) ==
    \A key \in Keys : \A f \in new[key] :
        /\ f \in EffectiveFact /\ f.key = key /\ f.version = Len(facts[key]) + 1
        /\ Candidates(assertions, key) # {}

\* Facts are filed under their keys in the order of their versions.
Filed(facts) ==
    \A key \in Keys : \A i \in DOMAIN facts[key] :
        facts[key][i].key = key /\ facts[key][i].version = i

\* The keys that get a new version, and the facts they get.
AddedKeys(new) == {key \in Keys : new[key] # {}}

AddedFact(new, key) == CHOOSE f \in new[key] : TRUE

AddedFacts(new) == {AddedFact(new, key) : key \in AddedKeys(new)}

\* Each key that gets a new version has one head, its first candidate.
LEMMA HeadsCoverKeys ==
    ASSUME NEW assertions \in Seq(Assertion), NEW facts, NEW new,
           Continues(assertions, facts, new)
    PROVE  /\ \A h \in PromotedHeads(assertions, new) :
                assertions[h].key \in AddedKeys(new)
           /\ \A key \in AddedKeys(new) :
                \E h \in PromotedHeads(assertions, new) : assertions[h].key = key
           /\ \A g, h \in PromotedHeads(assertions, new) :
                assertions[g].key = assertions[h].key => g = h
<1>1. ASSUME NEW a \in DOMAIN assertions
      PROVE  a \in Nat /\ assertions[a].key \in Keys
  <2>1. assertions[a] \in Assertion /\ a \in Nat
    OBVIOUS
  <2>2. QED
    BY <2>1 DEF Assertion
<1>2. \A h \in PromotedHeads(assertions, new) : assertions[h].key \in AddedKeys(new)
  BY <1>1 DEF PromotedHeads, AddedKeys
<1>3. ASSUME NEW key \in AddedKeys(new)
      PROVE  \E h \in PromotedHeads(assertions, new) : assertions[h].key = key
  <2> DEFINE cs == Candidates(assertions, key)
  <2>1. cs \in SUBSET Nat /\ cs # {}
    BY <1>1 DEF AddedKeys, Continues, Candidates
  <2> HIDE DEF cs
  <2>2. PICK h \in cs : \A a \in cs : h <= a
    BY <2>1, LeastNumber
  <2>3. h \in DOMAIN assertions /\ assertions[h].key = key
    BY DEF cs, Candidates
  <2>4. h \in PromotedHeads(assertions, new)
    BY <2>2, <2>3 DEF cs, PromotedHeads, AddedKeys
  <2>5. QED
    BY <2>3, <2>4
<1>4. ASSUME NEW g \in PromotedHeads(assertions, new),
             NEW h \in PromotedHeads(assertions, new),
             assertions[g].key = assertions[h].key
      PROVE  g = h
  <2>1. g <= h /\ h <= g /\ g \in DOMAIN assertions /\ h \in DOMAIN assertions
    BY <1>4 DEF PromotedHeads, Candidates
  <2>2. QED
    BY <1>1, <2>1
<1>5. QED
  BY <1>2, <1>3, <1>4

\* There is one new fact for each head.
LEMMA AddedFactsCounted ==
    ASSUME NEW assertions \in Seq(Assertion), NEW facts, NEW new,
           Continues(assertions, facts, new)
    PROVE  /\ IsFiniteSet(AddedFacts(new))
           /\ Cardinality(AddedFacts(new)) = Cardinality(PromotedHeads(assertions, new))
<1> DEFINE H == PromotedHeads(assertions, new)
           N == AddedFacts(new)
           F == [h \in H |-> AddedFact(new, assertions[h].key)]
<1>1. /\ \A h \in H : assertions[h].key \in AddedKeys(new)
      /\ \A key \in AddedKeys(new) : \E h \in H : assertions[h].key = key
      /\ \A g, h \in H : assertions[g].key = assertions[h].key => g = h
  BY HeadsCoverKeys
<1>2. \A key \in AddedKeys(new) : AddedFact(new, key).key = key
  BY DEF AddedKeys, AddedFact, Continues
<1>3. IsFiniteSet(H)
  <2>1. Len(assertions) \in Nat /\ H \in SUBSET (1 .. Len(assertions))
    BY DEF PromotedHeads
  <2>2. IsFiniteSet(1 .. Len(assertions))
    BY <2>1, FS_Interval
  <2> HIDE DEF H
  <2>3. QED
    BY <2>1, <2>2, FS_Subset
<1> HIDE DEF H
<1>4. F \in [H -> N]
  BY <1>1 DEF AddedFacts
<1>5. \A g, h \in H : F[g] = F[h] => g = h
  BY <1>1, <1>2
<1>6. \A f \in N : \E h \in H : F[h] = f
  BY <1>1 DEF AddedFacts
<1> HIDE DEF F, N
<1>7. F \in Bijection(H, N)
  BY <1>4, <1>5, <1>6, Fun_IsBij
<1>8. ExistsBijection(H, N)
  BY <1>7 DEF ExistsBijection
<1>9. IsFiniteSet(N) /\ Cardinality(N) = Cardinality(H)
  BY <1>3, <1>8, FS_Bijection
<1>10. QED
  BY <1>9 DEF N, H

\* The facts of the next run: those of the run and, each of them new, those
\* added.
LEMMA FactsAdded ==
    ASSUME NEW assertions, NEW facts \in [Keys -> Seq(EffectiveFact)], Filed(facts),
           NEW new, Continues(assertions, facts, new)
    PROVE  /\ AllFacts(AddFacts(facts, new)) = AllFacts(facts) \cup AddedFacts(new)
           /\ AllFacts(facts) \cap AddedFacts(new) = {}
<1> DEFINE next == AddFacts(facts, new)
<1>1. \A key \in Keys : Elements(next[key]) =
            IF new[key] = {} THEN Elements(facts[key])
            ELSE Elements(facts[key]) \cup {AddedFact(new, key)}
  <2>1. ASSUME NEW s \in Seq(EffectiveFact), NEW f
        PROVE  Elements(Append(s, f)) = Elements(s) \cup {f}
    <3>1. /\ Len(s) \in Nat /\ DOMAIN s = 1 .. Len(s)
          /\ DOMAIN Append(s, f) = 1 .. Len(s) + 1
          /\ \A i \in 1 .. Len(s) : Append(s, f)[i] = s[i]
          /\ Append(s, f)[Len(s) + 1] = f
      OBVIOUS
    <3>2. \A i \in 1 .. Len(s) + 1 : i \in 1 .. Len(s) \/ i = Len(s) + 1
      BY <3>1
    <3>3. Elements(Append(s, f)) \subseteq Elements(s) \cup {f}
      BY <3>1, <3>2 DEF Elements
    <3>4. 1 .. Len(s) \subseteq 1 .. Len(s) + 1 /\ Len(s) + 1 \in 1 .. Len(s) + 1
      BY <3>1
    <3>5. Elements(s) \cup {f} \subseteq Elements(Append(s, f))
      BY <3>1, <3>4 DEF Elements
    <3>6. QED
      BY <3>3, <3>5
  <2>2. \A key \in Keys : next[key] = IF new[key] = {} THEN facts[key]
                                      ELSE Append(facts[key], AddedFact(new, key))
    BY DEF AddFacts, AddedFact
  <2> HIDE DEF next
  <2>3. ASSUME NEW key \in Keys
        PROVE  Elements(next[key]) =
                 IF new[key] = {} THEN Elements(facts[key])
                 ELSE Elements(facts[key]) \cup {AddedFact(new, key)}
    <3>1. facts[key] \in Seq(EffectiveFact)
      OBVIOUS
    <3>2. QED
      BY <2>1, <2>2, <3>1
  <2>4. QED
    BY <2>3
<1> HIDE DEF next
<1>2. AllFacts(next) = AllFacts(facts) \cup AddedFacts(new)
  <2>1. AllFacts(next) \subseteq AllFacts(facts) \cup AddedFacts(new)
    <3>1. ASSUME NEW key \in Keys, NEW f \in Elements(next[key])
          PROVE  f \in Elements(facts[key]) \/ f \in AddedFacts(new)
      <4>1. CASE new[key] = {}
        BY <1>1, <3>1, <4>1
      <4>2. CASE new[key] # {}
        <5>1. AddedFact(new, key) \in AddedFacts(new)
          BY <4>2 DEF AddedFacts, AddedKeys
        <5>2. QED
          BY <1>1, <3>1, <4>2, <5>1
      <4>3. QED
        BY <4>1, <4>2
    <3>2. QED
      BY <3>1 DEF AllFacts
  <2>2. AllFacts(facts) \subseteq AllFacts(next)
    BY <1>1 DEF AllFacts
  <2>3. AddedFacts(new) \subseteq AllFacts(next)
    BY <1>1 DEF AllFacts, AddedFacts, AddedKeys
  <2>4. QED
    BY <2>1, <2>2, <2>3
<1>3. ASSUME NEW f \in AllFacts(facts), f \in AddedFacts(new)
      PROVE  FALSE
  <2>1. PICK key \in AddedKeys(new) : f = AddedFact(new, key)
    BY <1>3 DEF AddedFacts
  <2>2. f.key = key /\ f.version = Len(facts[key]) + 1 /\ key \in Keys
    BY <2>1 DEF AddedKeys, AddedFact, Continues
  <2>3. PICK k \in Keys : f \in Elements(facts[k])
    BY DEF AllFacts
  <2>4. PICK i \in DOMAIN facts[k] : f = facts[k][i]
    BY <2>3 DEF Elements
  <2>5. k = key /\ f.version = i
    BY <2>2, <2>4 DEF Filed
  <2>6. facts[key] \in Seq(EffectiveFact) /\ i \in DOMAIN facts[key]
    BY <2>2, <2>4, <2>5
  <2>7. Len(facts[key]) \in Nat /\ i \in 1 .. Len(facts[key]) /\ i = Len(facts[key]) + 1
    BY <2>2, <2>5, <2>6
  <2>8. QED
    BY <2>7
<1>4. QED
  BY <1>2, <1>3 DEF next

\* The entries of a promotion record the new facts, one entry for each.
LEMMA FactEntriesRecord ==
    ASSUME NEW assertions \in Seq(Assertion), NEW facts, NEW new,
           Continues(assertions, facts, new),
           NEW heads \in Ascending(PromotedHeads(assertions, new))
    PROVE  /\ FactEntries(assertions, new, heads) \in Seq(Entry(Payload))
           /\ Len(FactEntries(assertions, new, heads)) =
                Cardinality(PromotedHeads(assertions, new))
           /\ Recorded(FactEntries(assertions, new, heads), "review_recorded") = {}
           /\ Recorded(FactEntries(assertions, new, heads), "fact_promoted") =
                FactPayloads(AddedFacts(new))
<1> DEFINE H == PromotedHeads(assertions, new)
           entries == FactEntries(assertions, new, heads)
<1>1. Len(assertions) \in Nat /\ H \in SUBSET (1 .. Len(assertions))
  BY DEF PromotedHeads
<1>2. entries \in Seq(Entry(Payload))
  <2>1. \A key \in Keys : new[key] \subseteq EffectiveFact
    BY DEF Continues
  <2>2. QED
    BY <2>1, FactEntriesType
<1>3. /\ \A h \in H : assertions[h].key \in AddedKeys(new)
      /\ \A key \in AddedKeys(new) : \E h \in H : assertions[h].key = key
  BY HeadsCoverKeys
<1>4. heads \in Ascending(H)
  OBVIOUS
<1> HIDE DEF H
<1>5. /\ Cardinality(H) \in Nat /\ DOMAIN heads = 1 .. Cardinality(H)
      /\ heads \in [1 .. Cardinality(H) -> H]
      /\ \A h \in H : \E n \in DOMAIN heads : heads[n] = h
  BY ZenonT(30), <1>1, <1>4, AscendingType, AscendingCovers DEF Ascending
<1>6. /\ DOMAIN entries = DOMAIN heads
      /\ \A n \in DOMAIN heads :
            entries[n] = FactEntry(AddedFact(new, assertions[heads[n]].key))
  BY DEF FactEntries, AddedFact
<1> HIDE DEF entries
<1>7. Len(entries) = Cardinality(H)
  BY <1>2, <1>5, <1>6
<1>8. \A n \in DOMAIN entries : entries[n].type = "fact_promoted"
  BY <1>6 DEF FactEntry
<1>9. Recorded(entries, "review_recorded") = {}
  BY <1>8 DEF Recorded, Elements
<1>10. Recorded(entries, "fact_promoted") = {entries[n].payload : n \in DOMAIN entries}
  BY <1>8 DEF Recorded, Elements
<1>11. \A n \in DOMAIN entries : entries[n].payload \in FactPayloads(AddedFacts(new))
  <2>1. ASSUME NEW n \in DOMAIN entries
        PROVE  entries[n].payload \in FactPayloads(AddedFacts(new))
    <3>1. assertions[heads[n]].key \in AddedKeys(new)
      BY <1>3, <1>5, <1>6
    <3>2. AddedFact(new, assertions[heads[n]].key) \in AddedFacts(new)
      BY <3>1 DEF AddedFacts
    <3>3. QED
      BY <1>6, <3>2 DEF FactPayloads
  <2>2. QED
    BY <2>1
<1>12. ASSUME NEW f \in AddedFacts(new)
       PROVE  FactEntry(f).payload \in {entries[n].payload : n \in DOMAIN entries}
  <2>1. PICK key \in AddedKeys(new) : f = AddedFact(new, key)
    BY DEF AddedFacts
  <2>2. PICK h \in H : assertions[h].key = key
    BY <1>3
  <2>3. PICK n \in DOMAIN heads : heads[n] = h
    BY <1>5
  <2>4. n \in DOMAIN entries /\ entries[n].payload = FactEntry(f).payload
    BY <1>6, <2>1, <2>2, <2>3
  <2>5. QED
    BY <2>4
<1>13. Recorded(entries, "fact_promoted") = FactPayloads(AddedFacts(new))
  BY <1>10, <1>11, <1>12 DEF FactPayloads
<1>14. QED
  BY <1>2, <1>7, <1>9, <1>13 DEF entries, H

\* What promotion finds continues the facts of a sound run.
LEMMA PromotionContinues ==
    ASSUME NEW assertions \in Seq(Assertion), SourcesAgree(assertions),
           NEW reviews \in Seq(ReviewDecision),
           NEW facts \in [Keys -> Seq(EffectiveFact)], Filed(facts),
           NEW op \in Nat
    PROVE  Continues(assertions, facts, Promote(assertions, reviews, facts, op))
<1> DEFINE new == Promote(assertions, reviews, facts, op)
<1> HIDE DEF new
<1>1. ASSUME NEW key \in Keys, NEW f \in NewFact(assertions, reviews, facts, op, key)
      PROVE  /\ f \in EffectiveFact /\ f.key = key
             /\ f.version = Len(facts[key]) + 1
             /\ Candidates(assertions, key) # {}
  <2>1. \A i \in DOMAIN facts[key] : facts[key][i].version = i
    BY DEF Filed
  <2>2. Found(assertions, reviews, facts, op, key, f)
    BY <1>1, <2>1 DEF Found
  <2>3. QED
    BY <2>2, NewFactSound DEF Continuing
<1>2. \A key \in Keys : new[key] = NewFact(assertions, reviews, facts, op, key)
  BY DEF Promote, new
<1>3. Continues(assertions, facts, new)
  BY <1>1, <1>2 DEF Continues
<1>4. QED
  BY <1>3 DEF new

LEMMA FactsOKFiled ==
    ASSUME NEW run, FactsOK(run)
    PROVE  run.facts \in [Keys -> Seq(EffectiveFact)] /\ Filed(run.facts)
BY DEF FactsOK, RunVersionsContiguous, RunFactsJustified, Filed

\* A ledger that has recorded the facts, extended by the entries first, which
\* promote nothing, and those of a promotion.
LedgerStep(after, next, events, first, facts) ==
    /\ IsFiniteSet(AllFacts(next))
    /\ Cardinality(AllFacts(next)) \in Nat
    /\ Len(after) + Cardinality(AllFacts(facts)) =
            Len(events) + Len(first) + Cardinality(AllFacts(next))
    /\ Recorded(after, "review_recorded") =
            Recorded(events, "review_recorded") \cup Recorded(first, "review_recorded")
    /\ Recorded(after, "fact_promoted") = FactPayloads(AllFacts(next))

LEMMA LedgerSteps ==
    ASSUME NEW assertions \in Seq(Assertion),
           NEW facts \in [Keys -> Seq(EffectiveFact)], Filed(facts),
           IsFiniteSet(AllFacts(facts)),
           NEW new, Continues(assertions, facts, new),
           NEW heads \in Ascending(PromotedHeads(assertions, new)),
           NEW events \in Seq(AuditEvent), NEW first \in Seq(Entry(Payload)),
           Recorded(events, "fact_promoted") = FactPayloads(AllFacts(facts)),
           Recorded(first, "fact_promoted") = {}
    PROVE  LedgerStep(AppendEvents(events, first \o FactEntries(assertions, new, heads)),
                      AddFacts(facts, new), events, first, facts)
<1> DEFINE promoted == FactEntries(assertions, new, heads)
           entries == first \o promoted
           after == AppendEvents(events, entries)
           next == AddFacts(facts, new)
           A == AllFacts(facts)
           N == AddedFacts(new)
           B == AllFacts(next)
<1>1. /\ promoted \in Seq(Entry(Payload))
      /\ Len(promoted) = Cardinality(PromotedHeads(assertions, new))
      /\ Recorded(promoted, "review_recorded") = {}
      /\ Recorded(promoted, "fact_promoted") = FactPayloads(N)
  BY FactEntriesRecord
<1>2. IsFiniteSet(N) /\ Cardinality(N) = Cardinality(PromotedHeads(assertions, new))
  BY AddedFactsCounted
<1>3. B = A \cup N /\ A \cap N = {}
  BY FactsAdded
<1> HIDE DEF promoted, A, N, B, next
<1>4. /\ IsFiniteSet(A \cup N) /\ Cardinality(A) \in Nat /\ Cardinality(N) \in Nat
      /\ IsFiniteSet(A \cap N) /\ Cardinality(A \cap N) = 0
      /\ Cardinality(A \cup N) = Cardinality(A) + Cardinality(N) - Cardinality(A \cap N)
  <2>1. IsFiniteSet(A) /\ IsFiniteSet(N)
    BY <1>2 DEF A
  <2>2. Cardinality(A \cap N) = 0 /\ IsFiniteSet(A \cap N)
    BY <1>3, FS_EmptySet
  <2>3. Cardinality(A) \in Nat /\ Cardinality(N) \in Nat
    BY <2>1, FS_CardinalityType
  <2>4. /\ IsFiniteSet(A \cup N)
        /\ Cardinality(A \cup N) = Cardinality(A) + Cardinality(N) - Cardinality(A \cap N)
    BY <2>1, FS_Union
  <2>5. QED
    BY <2>2, <2>3, <2>4
<1>5. /\ entries \in Seq(Entry(Payload))
      /\ Len(entries) = Len(first) + Len(promoted)
      /\ Len(first) \in Nat /\ Len(promoted) \in Nat
  <2> DEFINE S == Entry(Payload)
  <2>1. first \in Seq(S) /\ promoted \in Seq(S)
    BY <1>1
  <2> HIDE DEF S
  <2>2. entries \in Seq(S) /\ Len(entries) = Len(first) + Len(promoted)
    BY <2>1, ConcatProperties
  <2>3. Len(first) \in Nat /\ Len(promoted) \in Nat
    BY <2>1
  <2>4. QED
    BY <2>2, <2>3 DEF S
<1>6. ASSUME NEW type
      PROVE  Recorded(entries, type) = Recorded(first, type) \cup Recorded(promoted, type)
  BY <1>1, ConcatRecorded
<1> HIDE DEF entries
<1>7. events \in Seq(Event(Payload))
  BY DEF AuditEvent
<1>8. ASSUME NEW type
      PROVE  /\ Len(after) = Len(events) + Len(entries)
             /\ Recorded(after, type) = Recorded(events, type) \cup Recorded(entries, type)
  <2> DEFINE P == Payload
  <2>1. events \in Seq(Event(P)) /\ entries \in Seq(Entry(P))
    BY <1>5, <1>7
  <2> HIDE DEF P
  <2>2. Len(after) = Len(events) + Len(entries)
    BY <2>1, AppendEventsType
  <2>3. Recorded(after, type) = Recorded(events, type) \cup Recorded(entries, type)
    BY <2>1, AppendedRecorded
  <2>4. QED
    BY <2>2, <2>3
<1> HIDE DEF after
<1>9. IsFiniteSet(B) /\ Cardinality(B) = Cardinality(A) + Cardinality(N)
  BY <1>3, <1>4
<1>10. Len(events) \in Nat
  BY <1>7
<1>11. Len(after) + Cardinality(A) = Len(events) + Len(first) + Cardinality(B)
  BY <1>1, <1>2, <1>4, <1>5, <1>8, <1>9, <1>10
<1>12. FactPayloads(B) = FactPayloads(A) \cup FactPayloads(N)
  BY <1>3 DEF FactPayloads
<1>13. Recorded(after, "fact_promoted") = FactPayloads(B)
  <2>1. Recorded(events, "fact_promoted") = FactPayloads(A)
    BY DEF A
  <2>2. QED
    BY <1>1, <1>6, <1>8, <1>12, <2>1
<1>14. Recorded(after, "review_recorded") =
            Recorded(events, "review_recorded") \cup Recorded(first, "review_recorded")
  BY <1>1, <1>6, <1>8
<1>15. Cardinality(B) \in Nat
  BY <1>4, <1>9
<1>16. LedgerStep(after, next, events, first, facts)
  BY <1>9, <1>11, <1>13, <1>14, <1>15 DEF LedgerStep, A, B
<1>17. QED
  BY <1>16 DEF after, next, entries, promoted

\* The ledger of a new run records its intake and its first facts.
LEMMA CreatedLedgerOK ==
    ASSUME NEW claims \in Seq(Claim),
           NEW heads \in Ascending(PromotedHeads(Assess(claims),
                            Promote(Assess(claims), <<>>, NoFacts, 0)))
    PROVE  LedgerOK(CreatedRun(Assess(claims), ConflictsOf(claims),
                               Promote(Assess(claims), <<>>, NoFacts, 0), heads))
<1> DEFINE assertions == Assess(claims)
           new == Promote(assertions, <<>>, NoFacts, 0)
           entry == IntakeEntry(assertions, ConflictsOf(claims))
           first == <<entry>>
           run == CreatedRun(assertions, ConflictsOf(claims), new, heads)
<1>1. assertions \in Seq(Assertion) /\ SourcesAgree(assertions)
  BY AssessType, AssessMarksConflicts
<1>2. /\ NoFacts \in [Keys -> Seq(EffectiveFact)] /\ Filed(NoFacts)
      /\ AllFacts(NoFacts) = {}
  BY DEF NoFacts, Filed, AllFacts, Elements
<1>3. <<>> \in Seq(ReviewDecision) /\ <<>> \in Seq(AuditEvent) /\ 0 \in Nat
  OBVIOUS
<1>4. /\ entry.type = "intake_completed" /\ entry \in Entry(Payload)
  <2>1. Len(assertions) \in Nat /\ DOMAIN ConflictsOf(claims) \in SUBSET Keys
    BY <1>1 DEF ConflictsOf
  <2> HIDE DEF assertions
  <2>2. QED
    BY <2>1 DEF IntakeEntry, Entry, Payload, IntakePayload, AuditEventType
<1>5. /\ run.assertions = assertions /\ run.reviews = <<>>
      /\ run.facts = AddFacts(NoFacts, new)
      /\ run.audit_events =
            AppendEvents(<<>>, first \o FactEntries(assertions, new, heads))
  BY DEF CreatedRun
<1> HIDE DEF run, entry
<1>6. /\ first \in Seq(Entry(Payload)) /\ Len(first) = 1
      /\ Recorded(first, "fact_promoted") = {}
      /\ Recorded(first, "review_recorded") = {}
  <2>1. Elements(first) = {entry}
    BY DEF Elements
  <2>2. first \in Seq(Entry(Payload)) /\ Len(first) = 1
    BY <1>4
  <2>3. QED
    BY <1>4, <2>1, <2>2 DEF Recorded
<1>7. heads \in Ascending(PromotedHeads(assertions, new))
  OBVIOUS
<1> HIDE DEF assertions, first
<1>8. Continues(assertions, NoFacts, new)
  BY <1>1, <1>2, <1>3, PromotionContinues
<1> HIDE DEF new
<1>9. LedgerStep(AppendEvents(<<>>, first \o FactEntries(assertions, new, heads)),
                 AddFacts(NoFacts, new), <<>>, first, NoFacts)
  <2>1. IsFiniteSet({})
    BY FS_EmptySet
  <2>2. Recorded(<<>>, "fact_promoted") = FactPayloads(AllFacts(NoFacts))
    BY <1>2 DEF Recorded, Elements, FactPayloads
  <2>3. QED
    BY <1>1, <1>2, <1>3, <1>6, <1>7, <1>8, <2>1, <2>2, LedgerSteps
<1>10. Cardinality(AllFacts(NoFacts)) = 0
  BY <1>2, FS_EmptySet
<1>11. /\ IsFiniteSet(AllFacts(run.facts))
       /\ Cardinality(AllFacts(run.facts)) \in Nat
       /\ Len(run.audit_events) + 0 = Len(<<>>) + 1 + Cardinality(AllFacts(run.facts))
       /\ Recorded(run.audit_events, "review_recorded") =
            Recorded(<<>>, "review_recorded")
       /\ Recorded(run.audit_events, "fact_promoted") = FactPayloads(AllFacts(run.facts))
  BY <1>5, <1>6, <1>9, <1>10 DEF LedgerStep
<1>12. run.audit_events \in Seq(AuditEvent)
  <2>1. RunOK(run)
    BY CreatedRunOK DEF run, new, assertions
  <2>2. QED
    BY <2>1 DEF RunOK, IntakeRun
<1>13. Len(run.audit_events) = 1 + Len(run.reviews) + Cardinality(AllFacts(run.facts))
  <2>1. Len(run.audit_events) \in Nat /\ Len(run.reviews) = 0 /\ Len(<<>>) = 0
    BY <1>5, <1>12
  <2>2. QED
    BY <1>11, <2>1
<1>14. Recorded(<<>>, "review_recorded") = {}
       /\ DecisionPayloads(run.assertions, Elements(run.reviews)) = {}
  BY <1>5 DEF Recorded, Elements, DecisionPayloads
<1>15. LedgerOK(run)
  BY <1>11, <1>13, <1>14 DEF LedgerOK
<1>16. QED
  BY <1>15 DEF run, new, assertions

\* The ledger of a reviewed run records its decisions and facts as well.
LEMMA ReviewKeepsLedgerOK ==
    ASSUME NEW review, ReviewOK(review), LedgerOK(review.run),
           NEW decisions, NEW time, DecidesAll(review, decisions, time),
           NEW heads \in Ascending(PromotedHeads(review.run.assertions,
                                        Promotion(review, decisions)))
    PROVE  LedgerOK(ReviewedRun(review, decisions, Promotion(review, decisions), heads))
<1> DEFINE old == review.run
           assertions == old.assertions
           facts == old.facts
           events == old.audit_events
           r == old.reviews
           key == ChosenKey(review)
           new == Promotion(review, decisions)
           first == [n \in DOMAIN decisions |-> ReviewEntry(decisions[n], key)]
           promoted == FactEntries(assertions, new, heads)
           run == ReviewedRun(review, decisions, new, heads)
<1>1. /\ assertions \in Seq(Assertion) /\ SourcesAgree(assertions)
      /\ r \in Seq(ReviewDecision) /\ decisions \in Seq(ReviewDecision)
      /\ events \in Seq(AuditEvent) /\ review.op \in Nat /\ key \in Keys
      /\ facts \in [Keys -> Seq(EffectiveFact)] /\ Filed(facts)
  <2>1. /\ ReviewOK(review) /\ RunOK(old) /\ FactsOK(old) /\ old \in IntakeRun
    BY DEF ReviewOK, RunOK
  <2>2. key \in Keys
    BY ChosenCandidates
  <2>3. facts \in [Keys -> Seq(EffectiveFact)] /\ Filed(facts)
    BY <2>1, FactsOKFiled
  <2>4. decisions \in Seq(ReviewDecision)
    BY DEF DecidesAll
  <2>5. review.op \in Nat
    BY DEF ReviewOK, Review
  <2>6. SourcesAgree(assertions)
    BY <2>1 DEF RunOK
  <2>7. /\ assertions \in Seq(Assertion) /\ r \in Seq(ReviewDecision)
        /\ events \in Seq(AuditEvent)
    BY <2>1 DEF IntakeRun
  <2>8. QED
    BY <2>2, <2>3, <2>4, <2>5, <2>6, <2>7
<1>2. /\ IsFiniteSet(AllFacts(facts))
      /\ Len(events) = 1 + Len(r) + Cardinality(AllFacts(facts))
      /\ Recorded(events, "review_recorded") = DecisionPayloads(assertions, Elements(r))
      /\ Recorded(events, "fact_promoted") = FactPayloads(AllFacts(facts))
  BY DEF LedgerOK
<1>3. \A n \in DOMAIN decisions : decisions[n].assertion \in Candidates(assertions, key)
  BY DEF DecidesAll
<1>4. /\ run.assertions = assertions /\ run.reviews = r \o decisions
      /\ run.facts = AddFacts(facts, new)
      /\ run.audit_events = AppendEvents(events, first \o promoted)
  BY DEF ReviewedRun
<1>5. new = Promote(assertions, r \o decisions, facts, review.op)
  BY DEF Promotion
<1>6. heads \in Ascending(PromotedHeads(assertions, new))
  OBVIOUS
<1> HIDE DEF old, assertions, facts, events, r, key, new, run
<1>7. /\ first \in Seq(Entry(Payload)) /\ Len(first) = Len(decisions)
      /\ Recorded(first, "review_recorded") = DecisionPayloads(assertions, Elements(decisions))
      /\ Recorded(first, "fact_promoted") = {}
  BY ZenonT(30), <1>1, <1>3, ReviewEntriesRecord
<1> HIDE DEF first
<1>8. Continues(assertions, facts, new)
  <2>1. r \o decisions \in Seq(ReviewDecision)
    BY <1>1, ConcatProperties
  <2>2. QED
    BY <1>1, <1>5, <2>1, PromotionContinues
<1>9. LedgerStep(AppendEvents(events, first \o FactEntries(assertions, new, heads)),
                 AddFacts(facts, new), events, first, facts)
  BY <1>1, <1>2, <1>6, <1>7, <1>8, LedgerSteps
<1>10. /\ IsFiniteSet(AllFacts(run.facts))
       /\ Cardinality(AllFacts(run.facts)) \in Nat
       /\ Len(run.audit_events) + Cardinality(AllFacts(facts)) =
            Len(events) + Len(first) + Cardinality(AllFacts(run.facts))
       /\ Recorded(run.audit_events, "review_recorded") =
            Recorded(events, "review_recorded") \cup Recorded(first, "review_recorded")
       /\ Recorded(run.audit_events, "fact_promoted") = FactPayloads(AllFacts(run.facts))
  BY <1>4, <1>9 DEF LedgerStep
<1>11. /\ Len(run.reviews) = Len(r) + Len(decisions)
       /\ Elements(run.reviews) = Elements(r) \cup Elements(decisions)
       /\ Len(r) \in Nat /\ Len(decisions) \in Nat
  BY <1>1, <1>4, ConcatProperties, ConcatElements
<1>12. Len(run.audit_events) \in Nat
  <2>1. RunOK(run)
    BY <1>1, ReviewedRunOK DEF run, new
  <2>2. run.audit_events \in Seq(AuditEvent)
    BY <2>1 DEF RunOK, IntakeRun
  <2>3. QED
    BY <2>2
<1>13. Cardinality(AllFacts(facts)) \in Nat
  BY <1>2, FS_CardinalityType
<1>14. Len(run.audit_events) = 1 + Len(run.reviews) + Cardinality(AllFacts(run.facts))
  <2> DEFINE c == Cardinality(AllFacts(facts))
             d == Cardinality(AllFacts(run.facts))
             l == Len(run.audit_events)
  <2>1. /\ c \in Nat /\ d \in Nat /\ l \in Nat
        /\ Len(r) \in Nat /\ Len(decisions) \in Nat
    BY <1>10, <1>11, <1>12, <1>13
  <2>2. /\ l + c = Len(events) + Len(first) + d
        /\ Len(events) = 1 + Len(r) + c /\ Len(first) = Len(decisions)
        /\ Len(run.reviews) = Len(r) + Len(decisions)
    BY <1>2, <1>7, <1>10, <1>11
  <2> HIDE DEF c, d, l
  <2>3. l = 1 + Len(run.reviews) + d
    BY SMTT(30), <2>1, <2>2
  <2>4. QED
    BY <2>3 DEF c, d, l
<1>15. DecisionPayloads(assertions, Elements(run.reviews)) =
            DecisionPayloads(assertions, Elements(r))
                \cup DecisionPayloads(assertions, Elements(decisions))
  BY <1>11 DEF DecisionPayloads
<1>16. LedgerOK(run)
  BY <1>2, <1>4, <1>7, <1>10, <1>14, <1>15 DEF LedgerOK
<1>17. QED
  BY <1>16 DEF run, new

-----------------------------------------------------------------------------
(* What is true of every run, and of the tables beside it.                 *)

HistoryOK(run) ==
    /\ ReviewsOK(run)
    /\ LedgerOK(run)
    /\ ConflictsOK(run)
    /\ DecidedHaveFacts(run)

LEMMA CreatedHistoryOK ==
    ASSUME NEW claims \in Seq(Claim),
           NEW heads \in Ascending(PromotedHeads(Assess(claims),
                            Promote(Assess(claims), <<>>, NoFacts, 0)))
    PROVE  HistoryOK(CreatedRun(Assess(claims), ConflictsOf(claims),
                                Promote(Assess(claims), <<>>, NoFacts, 0), heads))
<1> DEFINE run == CreatedRun(Assess(claims), ConflictsOf(claims),
                             Promote(Assess(claims), <<>>, NoFacts, 0), heads)
<1>1. LedgerOK(run)
  BY CreatedLedgerOK
<1>2. ConflictsOK(run)
  BY CreatedConflictsOK
<1>3. run.reviews = <<>>
  BY DEF CreatedRun
<1> HIDE DEF run
<1>4. ReviewsOK(run)
  BY <1>3 DEF ReviewsOK, ReviewsOnTarget, ReviewsWhole, ReviewsSingle, ReviewsInOrder
<1>5. DecidedHaveFacts(run)
  BY <1>3 DEF DecidedHaveFacts, DecidedKeys
<1>6. HistoryOK(run)
  BY <1>1, <1>2, <1>4, <1>5 DEF HistoryOK
<1>7. QED
  BY <1>6 DEF run

LEMMA ReviewedHistoryOK ==
    ASSUME NEW review, ReviewOK(review), Settled(review.run), HistoryOK(review.run),
           clock \in Times, Precedes(review.run, review.op, clock),
           NEW order \in Ascending(Candidates(review.run.assertions, ChosenKey(review))),
           NEW stamps \in ClockReadings(Cardinality(Candidates(review.run.assertions,
                                                ChosenKey(review)))),
           NEW heads \in Ascending(PromotedHeads(review.run.assertions,
                            Promotion(review, Decisions(review, order, stamps))))
    PROVE  HistoryOK(ReviewedRun(review, Decisions(review, order, stamps),
                        Promotion(review, Decisions(review, order, stamps)), heads))
<1> DEFINE decisions == Decisions(review, order, stamps)
           added == Promotion(review, decisions)
           new == ReviewedRun(review, decisions, added, heads)
<1>1. /\ ReviewsOK(review.run) /\ LedgerOK(review.run)
      /\ ConflictsOK(review.run) /\ DecidedHaveFacts(review.run)
  BY DEF HistoryOK
<1>2. DecidesAll(review, decisions, clock) /\ clock \in Nat
  BY ReviewDecidesAll DEF Times
<1>3. decisions \in Seq(ReviewDecision)
  BY <1>2 DEF DecidesAll
<1>4. stamps \in [1 .. Cardinality(Candidates(review.run.assertions,
                                        ChosenKey(review))) -> Times]
  BY DEF ClockReadings
<1>5. /\ new.assertions = review.run.assertions
      /\ new.conflicts = ResolveConflicts(review.run.conflicts, ChosenKey(review))
      /\ new.reviews = review.run.reviews \o decisions
      /\ new.facts = AddFacts(review.run.facts, added)
  BY DEF ReviewedRun
<1>6. TouchesOneKey(new, review)
  BY <1>4, ReviewTouchesOneKey
<1>7. heads \in Ascending(PromotedHeads(review.run.assertions, added))
  OBVIOUS
<1> HIDE DEF decisions
<1>8. LedgerOK(new)
  BY <1>1, <1>2, <1>7, ReviewKeepsLedgerOK
<1>9. Settled(new)
  BY <1>3, ReviewedRunSettled
<1> HIDE DEF added, new
<1>10. DecidedKeys(new) = DecidedKeys(review.run) \cup {ChosenKey(review)}
  BY <1>6 DEF TouchesOneKey
<1>11. ConflictsOK(new)
  BY <1>1, <1>5, <1>10, ReviewKeepsConflictsOK
<1>12. ReviewsOK(new)
  BY <1>1, <1>2, <1>5, ReviewKeepsReviewsOK
<1>13. DecidedHaveFacts(new)
  BY <1>1, <1>2, <1>5, <1>9, <1>12, ReviewBringsFact
<1>14. HistoryOK(new)
  BY <1>8, <1>11, <1>12, <1>13 DEF HistoryOK
<1>15. QED
  BY <1>14 DEF new, added, decisions

\* A review under way was read from this run, some time ago: what it read is
\* in the review table for good, and the table has nothing of the review yet.
UnderWay(review) ==
    /\ row # NoRun /\ review.run.assertions = row.assertions
    /\ Elements(review.run.reviews) \subseteq review_rows
    /\ \A d \in Elements(review.run.reviews) : d.op < review.op
    /\ review.op \in 1 .. ops
    /\ \A d \in review_rows : d.op # review.op

TablesInv ==
    /\ row = NoRun => review_rows = {} /\ fact_rows = {} /\ audit_rows = {}
    /\ row # NoRun => Elements(row.reviews) \subseteq review_rows
    /\ \A d \in review_rows : Before(d, ops + 1, clock)
    /\ \A w \in Workers : pending[w] # Idle => UnderWay(pending[w])
    /\ \A v, w \in Workers :
        v # w /\ pending[v] # Idle /\ pending[w] # Idle => pending[v].op # pending[w].op

\* The inductive invariant.
HistoryInv ==
    /\ SettledInv
    /\ row # NoRun => HistoryOK(row)
    /\ \A w \in Workers : pending[w] # Idle => HistoryOK(pending[w].run)
    /\ TablesInv

\* What a review comes to when it is saved.
Completes(review, order, stamps, heads) ==
    LET cs == Candidates(review.run.assertions, ChosenKey(review))
        decisions == Decisions(review, order, stamps)
        new == Promotion(review, decisions)
    IN  /\ order \in Ascending(cs)
        /\ stamps \in ClockReadings(Cardinality(cs))
        /\ heads \in Ascending(PromotedHeads(review.run.assertions, new))
        /\ Save(ReviewedRun(review, decisions, new, heads))
        /\ clock' = stamps[Cardinality(cs)]

LEMMA SaveReviewCompletes ==
    ASSUME NEW w \in Workers, SaveReview(w)
    PROVE  \E order, stamps, heads : Completes(pending[w], order, stamps, heads)
<1> DEFINE review == pending[w]
           cs == Candidates(review.run.assertions, ChosenKey(review))
<1>1. PICK order \in Ascending(cs) :
        \E stamps \in ClockReadings(Cardinality(cs)) :
            \E heads : Completes(review, order, stamps, heads)
  BY DEF SaveReview, Completes
<1>2. QED
  BY <1>1

\* The rows of the review table after a save: those there were, and the
\* decisions of the review.  None is dropped.
SavedRows(review, decisions) ==
    /\ review_rows' = review_rows \cup Elements(decisions)
    /\ Elements(row'.reviews) \subseteq review_rows'
    /\ \A d \in Elements(decisions) :
        /\ d.op = review.op
        /\ MonotoneClock => d.created_at <= clock'
    /\ MonotoneClock => clock <= clock'

LEMMA SaveKeepsRows ==
    ASSUME NEW review, ReviewOK(review), UnderWay(review), clock \in Times,
           NEW order, NEW stamps, NEW heads, Completes(review, order, stamps, heads)
    PROVE  SavedRows(review, Decisions(review, order, stamps))
<1> DEFINE cs == Candidates(review.run.assertions, ChosenKey(review))
           c == Cardinality(cs)
           decisions == Decisions(review, order, stamps)
           r == review.run.reviews
           run == ReviewedRun(review, decisions, Promotion(review, decisions), heads)
<1>1. /\ order \in Ascending(cs) /\ stamps \in ClockReadings(c)
      /\ Save(run) /\ clock' = stamps[c]
  BY DEF Completes
<1>2. DecidesAll(review, decisions, clock)
  BY <1>1, ReviewDecidesAll
<1>3. decisions \in Seq(ReviewDecision) /\ r \in Seq(ReviewDecision)
  BY <1>2 DEF DecidesAll, ReviewOK, RunOK, IntakeRun
<1>4. Len(review.run.assertions) \in Nat
      /\ cs \in SUBSET (1 .. Len(review.run.assertions)) /\ review.chosen \in cs
  BY ChosenCandidates
<1>5. /\ c \in Nat /\ c \in 1 .. c /\ DOMAIN order = 1 .. c
  <2> DEFINE n == Len(review.run.assertions)
  <2> HIDE DEF cs, n
  <2>1. QED
    BY <1>1, <1>4, AscendingType DEF n
<1>6. /\ stamps \in [1 .. c -> Times]
      /\ MonotoneClock => \A i \in 1 .. c :
            clock <= stamps[i] /\ \A j \in i .. c : stamps[i] <= stamps[j]
  BY <1>1 DEF ClockReadings
<1>7. DOMAIN decisions = 1 .. c
      /\ \A n \in 1 .. c : decisions[n].created_at = stamps[n]
  <2>1. DOMAIN decisions = DOMAIN order
    BY DEF Decisions
  <2>2. \A n \in DOMAIN order : decisions[n].created_at = stamps[n]
    BY DEF Decisions, DecisionFor
  <2>3. QED
    BY <1>5, <2>1, <2>2
<1>8. run.reviews = r \o decisions
  BY DEF ReviewedRun
<1>9. row' = run /\ review_rows' = InsertDecisions(review_rows, Elements(run.reviews))
  BY <1>1 DEF Save
<1> HIDE DEF run, decisions, r, cs, c
<1>10. \A d \in Elements(decisions) : d.op = review.op
  BY <1>2 DEF DecidesAll, Elements
<1>11. ASSUME MonotoneClock
       PROVE  /\ clock <= clock'
              /\ \A d \in Elements(decisions) : d.created_at <= clock'
  <2>1. clock <= stamps[c]
    BY <1>5, <1>6, <1>11
  <2>2. ASSUME NEW n \in 1 .. c
        PROVE  decisions[n].created_at <= stamps[c]
    <3>1. c \in n .. c
      BY <1>5
    <3>2. QED
      BY <1>6, <1>7, <1>11, <3>1
  <2>3. QED
    BY <1>1, <1>7, <2>1, <2>2 DEF Elements
<1>12. Elements(run.reviews) = Elements(r) \cup Elements(decisions)
  BY <1>3, <1>8, ConcatElements
<1>13. Elements(r) \subseteq review_rows /\ \A d \in review_rows : d.op # review.op
  BY DEF UnderWay, r
<1>14. review_rows' = review_rows \cup Elements(decisions)
  BY <1>9, <1>10, <1>12, <1>13 DEF InsertDecisions, SameDecisionRow
<1>15. Elements(row'.reviews) \subseteq review_rows'
  BY <1>9, <1>12, <1>13, <1>14
<1>16. SavedRows(review, decisions)
  BY <1>10, <1>11, <1>14, <1>15 DEF SavedRows
<1>17. QED
  BY <1>16 DEF decisions

\* What is saved is in order.
LEMMA SaveKeepsHistory ==
    ASSUME HistoryInv, NEW w \in Workers, pending[w] # Idle,
           NEW order, NEW stamps, NEW heads,
           Completes(pending[w], order, stamps, heads)
    PROVE  /\ ReviewOK(pending[w]) /\ UnderWay(pending[w]) /\ clock \in Times
           /\ HistoryOK(row') /\ RunOK(row') /\ row' # NoRun
           /\ row'.assertions = row.assertions
           /\ SavedRows(pending[w], Decisions(pending[w], order, stamps))
<1> DEFINE review == pending[w]
           cs == Candidates(review.run.assertions, ChosenKey(review))
           decisions == Decisions(review, order, stamps)
           run == ReviewedRun(review, decisions, Promotion(review, decisions), heads)
<1>1. /\ ReviewOK(review) /\ Settled(review.run) /\ HistoryOK(review.run)
      /\ UnderWay(review) /\ clock \in Times
      /\ \A d \in review_rows : Before(d, ops + 1, clock)
  BY DEF HistoryInv, SettledInv, IInv, TypeOK, TablesInv
<1>2. Precedes(review.run, review.op, clock)
  BY <1>1 DEF UnderWay, Precedes, Before, Elements
<1>3. /\ order \in Ascending(cs) /\ stamps \in ClockReadings(Cardinality(cs))
      /\ heads \in Ascending(PromotedHeads(review.run.assertions,
                                Promotion(review, decisions)))
      /\ Save(run)
  BY DEF Completes
<1>4. row' = run /\ run.assertions = review.run.assertions
  BY <1>3 DEF Save, ReviewedRun
<1>5. decisions \in Seq(ReviewDecision)
  BY <1>1, <1>3, ReviewDecidesAll DEF DecidesAll
<1> HIDE DEF review
<1>6. HistoryOK(run)
  BY <1>1, <1>2, <1>3, ReviewedHistoryOK
<1> HIDE DEF decisions
<1>7. RunOK(run)
  BY <1>1, <1>3, <1>5, ReviewedRunOK
<1> HIDE DEF run
<1>8. run # NoRun
  BY <1>7, AbsenceAssumption DEF RunOK
<1>9. SavedRows(review, decisions)
  BY <1>1, SaveKeepsRows DEF decisions, review
<1>10. QED
  BY <1>1, <1>4, <1>6, <1>7, <1>8, <1>9 DEF decisions, review, UnderWay

-----------------------------------------------------------------------------
(* Each step.                                                              *)
\* A new run is sound and in order.
LEMMA CreateRunSaves ==
    ASSUME CreateRun
    PROVE  /\ row = NoRun /\ UNCHANGED <<pending, ops, clock>>
           /\ row' # NoRun /\ RunOK(row') /\ HistoryOK(row') /\ row'.reviews = <<>>
           /\ Save(row')
<1>1. PICK claims \in Intakes :
        \E heads \in Ascending(PromotedHeads(Assess(claims),
                        Promote(Assess(claims), <<>>, NoFacts, 0))) :
            Save(CreatedRun(Assess(claims), ConflictsOf(claims),
                            Promote(Assess(claims), <<>>, NoFacts, 0), heads))
  BY DEF CreateRun
<1>2. PICK heads \in Ascending(PromotedHeads(Assess(claims),
                        Promote(Assess(claims), <<>>, NoFacts, 0))) :
            Save(CreatedRun(Assess(claims), ConflictsOf(claims),
                            Promote(Assess(claims), <<>>, NoFacts, 0), heads))
  BY <1>1
<1> DEFINE run == CreatedRun(Assess(claims), ConflictsOf(claims),
                             Promote(Assess(claims), <<>>, NoFacts, 0), heads)
<1>3. claims \in Seq(Claim)
  BY ServiceAssumption
<1>4. HistoryOK(run) /\ RunOK(run) /\ run.reviews = <<>> /\ Save(run)
  BY <1>2, <1>3, CreatedHistoryOK, CreatedRunOK DEF CreatedRun
<1> HIDE DEF run
<1>5. row' = run /\ run # NoRun
  BY <1>4, AbsenceAssumption DEF RunOK, Save
<1>6. row = NoRun /\ UNCHANGED <<pending, ops, clock>>
  BY DEF CreateRun
<1>7. QED
  BY <1>4, <1>5, <1>6

LEMMA CreateRunHistory ==
    ASSUME HistoryInv, SettledInv', CreateRun
    PROVE  HistoryInv'
<1>1. /\ row = NoRun /\ UNCHANGED <<pending, ops, clock>>
      /\ row' # NoRun /\ HistoryOK(row') /\ row'.reviews = <<>>
      /\ review_rows' = InsertDecisions(review_rows, Elements(row'.reviews))
  BY CreateRunSaves DEF Save
<1>2. /\ review_rows = {} /\ Elements(row'.reviews) = {}
      /\ \A w \in Workers : pending[w] = Idle
  BY <1>1 DEF HistoryInv, TablesInv, UnderWay, Elements
<1>3. review_rows' = {}
  BY <1>1, <1>2 DEF InsertDecisions
<1>4. TablesInv'
  BY <1>1, <1>2, <1>3 DEF TablesInv
<1>5. QED
  BY <1>1, <1>2, <1>4 DEF HistoryInv

\* A request starts from the row.
LEMMA ReadRunIsUnderWay ==
    ASSUME HistoryInv, NEW w \in Workers, ReadRun(w)
    PROVE  \E review \in Review :
            /\ pending' = [pending EXCEPT ![w] = review]
            /\ review.run = row /\ review.op = ops + 1
<1>1. PICK chosen \in DOMAIN row.assertions :
        \E correction \in Corrections \cup {NoValue} :
            pending' = [pending EXCEPT ![w] =
                        [op |-> ops + 1, run |-> row, chosen |-> chosen,
                         correction |-> correction]]
  BY DEF ReadRun
<1>2. PICK correction \in Corrections \cup {NoValue} :
            pending' = [pending EXCEPT ![w] =
                        [op |-> ops + 1, run |-> row, chosen |-> chosen,
                         correction |-> correction]]
  BY <1>1
<1> DEFINE review == [op |-> ops + 1, run |-> row, chosen |-> chosen,
                      correction |-> correction]
<1>3. row # NoRun
  BY DEF ReadRun
<1>4. row \in IntakeRun /\ ops + 1 \in Nat
  BY <1>3 DEF HistoryInv, SettledInv, IInv, TypeOK, RunOK
<1>5. chosen \in Nat
  <2>1. row.assertions \in Seq(Assertion)
    BY <1>4 DEF IntakeRun
  <2>2. QED
    BY <2>1
<1>6. review \in Review /\ review.run = row /\ review.op = ops + 1
  BY <1>4, <1>5 DEF Review
<1> HIDE DEF review
<1>7. pending' = [pending EXCEPT ![w] = review]
  BY <1>2 DEF review
<1>8. QED
  BY <1>6, <1>7

LEMMA ReadRunHistory ==
    ASSUME HistoryInv, SettledInv', NEW w \in Workers, ReadRun(w)
    PROVE  HistoryInv'
<1>1. PICK review \in Review :
            /\ pending' = [pending EXCEPT ![w] = review]
            /\ review.run = row /\ review.op = ops + 1
  BY ReadRunIsUnderWay
<1>2. /\ row # NoRun /\ ops' = ops + 1
      /\ UNCHANGED <<row, review_rows, fact_rows, audit_rows, clock>>
  BY DEF ReadRun
<1>3. /\ HistoryOK(row) /\ TablesInv /\ ops \in Nat
      /\ pending \in [Workers -> Review \cup {Idle}]
      /\ review_rows \in SUBSET ReviewDecision
  BY <1>2 DEF HistoryInv, SettledInv, IInv, TypeOK
<1>4. \A v \in Workers : pending'[v] = IF v = w THEN review ELSE pending[v]
  BY <1>1, <1>3
<1>5. \A d \in review_rows : d.op \in Nat /\ d.op < ops + 1
  BY <1>3 DEF TablesInv, Before, ReviewDecision
<1>6. /\ Elements(review.run.reviews) \subseteq review_rows
      /\ \A d \in Elements(review.run.reviews) : d.op < review.op
      /\ \A d \in review_rows : d.op # review.op
  <2>1. Elements(row.reviews) \subseteq review_rows
    BY <1>2, <1>3 DEF TablesInv
  <2>2. \A d \in review_rows : d.op # review.op
    BY <1>1, <1>3, <1>5
  <2>3. QED
    BY <1>1, <1>5, <2>1, <2>2
<1>7. UnderWay(review)'
  BY <1>1, <1>2, <1>3, <1>6 DEF UnderWay
<1>8. ASSUME NEW v \in Workers, v # w, pending[v] # Idle
      PROVE  UnderWay(pending[v])' /\ pending[v].op # review.op
  <2>1. UnderWay(pending[v])
    BY <1>3, <1>8 DEF TablesInv
  <2>2. pending[v].op \in 1 .. ops
    BY <2>1 DEF UnderWay
  <2>3. pending[v].op \in 1 .. ops + 1 /\ pending[v].op # ops + 1
    BY <1>3, <2>2
  <2>4. pending'[v] = pending[v]
    BY <1>4, <1>8
  <2>5. QED
    BY <1>1, <1>2, <2>1, <2>3, <2>4 DEF UnderWay
<1>9. \A d \in review_rows : Before(d, ops + 1 + 1, clock)
  <2>1. \A d \in review_rows : d.op < ops + 1 + 1
    BY <1>3, <1>5
  <2>2. QED
    BY <1>3, <2>1 DEF TablesInv, Before
<1>10. \A v \in Workers : pending'[v] # Idle => UnderWay(pending[v])'
  BY <1>4, <1>7, <1>8
<1>11. \A u, v \in Workers :
        u # v /\ pending'[u] # Idle /\ pending'[v] # Idle =>
            pending'[u].op # pending'[v].op
  BY <1>3, <1>4, <1>8 DEF TablesInv
<1>12. TablesInv'
  BY <1>2, <1>3, <1>9, <1>10, <1>11 DEF TablesInv
<1>13. \A v \in Workers : pending'[v] # Idle => HistoryOK(pending'[v].run)
  BY <1>1, <1>3, <1>4 DEF HistoryInv
<1>14. QED
  BY <1>2, <1>3, <1>12, <1>13 DEF HistoryInv

LEMMA SaveReviewHistory ==
    ASSUME HistoryInv, SettledInv', NEW w \in Workers, SaveReview(w)
    PROVE  HistoryInv'
<1> DEFINE review == pending[w]
<1>1. PICK order, stamps, heads : Completes(review, order, stamps, heads)
  BY SaveReviewCompletes
<1>2. /\ review # Idle /\ pending' = [pending EXCEPT ![w] = Idle]
      /\ ops' = ops
  BY DEF SaveReview
<1>3. /\ pending \in [Workers -> Review \cup {Idle}] /\ TablesInv
      /\ review_rows \in SUBSET ReviewDecision /\ ops \in Nat
      /\ clock \in Times /\ clock' \in Times
      /\ review_rows' \in SUBSET ReviewDecision
  BY DEF HistoryInv, SettledInv, IInv, TypeOK
<1> DEFINE decisions == Decisions(review, order, stamps)
<1>4. /\ ReviewOK(review) /\ UnderWay(review)
      /\ HistoryOK(row') /\ RunOK(row') /\ row' # NoRun
      /\ row'.assertions = row.assertions
      /\ SavedRows(review, decisions)
  BY <1>1, <1>2, SaveKeepsHistory
<1> HIDE DEF decisions
<1>5. \A v \in Workers : pending'[v] = IF v = w THEN Idle ELSE pending[v]
  BY <1>2, <1>3
<1>6. /\ review_rows' = review_rows \cup Elements(decisions)
      /\ Elements(row'.reviews) \subseteq review_rows'
      /\ \A d \in Elements(decisions) : /\ d.op = review.op
                                        /\ MonotoneClock => d.created_at <= clock'
      /\ MonotoneClock => clock <= clock'
  BY <1>4 DEF SavedRows
<1>7. \A d \in review_rows' : Before(d, ops + 1, clock')
  <2>1. ASSUME NEW d \in review_rows, MonotoneClock
        PROVE  d.created_at <= clock'
    <3>1. d.created_at <= clock /\ clock <= clock'
      BY <1>3, <1>6, <2>1 DEF TablesInv, Before
    <3>2. d.created_at \in Nat /\ clock \in Nat /\ clock' \in Nat
      BY <1>3 DEF ReviewDecision, Times
    <3>3. QED
      BY <3>1, <3>2
  <2>2. \A d \in review_rows : d.op < ops + 1
    BY <1>3 DEF TablesInv, Before
  <2>3. review.op < ops + 1
    <3>1. review.op \in 1 .. ops
      BY <1>4 DEF UnderWay
    <3>2. QED
      BY <1>3, <3>1
  <2>4. \A d \in review_rows' : d.op < ops + 1
    BY <1>6, <2>2, <2>3
  <2>5. \A d \in review_rows' : MonotoneClock => d.created_at <= clock'
    BY <1>6, <2>1
  <2>6. QED
    BY <2>4, <2>5 DEF Before
<1>8. ASSUME NEW v \in Workers, v # w, pending[v] # Idle
      PROVE  UnderWay(pending[v])'
  <2>1. UnderWay(pending[v]) /\ pending[v].op # review.op /\ pending'[v] = pending[v]
    BY <1>2, <1>3, <1>5, <1>8 DEF TablesInv
  <2> DEFINE other == pending[v]
  <2> HIDE DEF other
  <2>2. \A d \in review_rows' : d.op # other.op
    BY <1>6, <2>1 DEF UnderWay, other
  <2>3. /\ other.run.assertions = row'.assertions
        /\ Elements(other.run.reviews) \subseteq review_rows'
        /\ \A d \in Elements(other.run.reviews) : d.op < other.op
        /\ other.op \in 1 .. ops
    BY <1>4, <1>6, <2>1 DEF UnderWay, other
  <2>4. pending'[v] = other
    BY <2>1 DEF other
  <2>5. QED
    BY <1>2, <1>4, <2>2, <2>3, <2>4 DEF UnderWay
<1>9. \A v \in Workers : pending'[v] # Idle => UnderWay(pending[v])'
  BY <1>5, <1>8
<1>10. \A u, v \in Workers :
        u # v /\ pending'[u] # Idle /\ pending'[v] # Idle =>
            pending'[u].op # pending'[v].op
  BY <1>3, <1>5 DEF TablesInv
<1>11. TablesInv'
  BY <1>2, <1>4, <1>6, <1>7, <1>9, <1>10 DEF TablesInv
<1>12. \A v \in Workers : pending'[v] # Idle => HistoryOK(pending'[v].run)
  BY <1>5 DEF HistoryInv
<1>13. QED
  BY <1>4, <1>11, <1>12 DEF HistoryInv

LEMMA AbandonHistory ==
    ASSUME HistoryInv, SettledInv', Restart \/ \E w \in Workers : SaveFails(w)
    PROVE  HistoryInv'
<1>1. UNCHANGED <<row, review_rows, fact_rows, audit_rows, ops, clock>>
  BY DEF Restart, SaveFails
<1>2. \A v \in Workers : pending'[v] \in {Idle, pending[v]}
  BY DEF Restart, SaveFails, HistoryInv, SettledInv, IInv, TypeOK
<1>3. \A v \in Workers : pending'[v] # Idle =>
        UnderWay(pending[v])' /\ HistoryOK(pending'[v].run)
  BY <1>1, <1>2 DEF HistoryInv, TablesInv, UnderWay
<1>4. \A u, v \in Workers :
        u # v /\ pending'[u] # Idle /\ pending'[v] # Idle =>
            pending'[u].op # pending'[v].op
  BY <1>2 DEF HistoryInv, TablesInv
<1>5. TablesInv'
  BY <1>1, <1>3, <1>4 DEF HistoryInv, TablesInv
<1>6. QED
  BY <1>1, <1>3, <1>5 DEF HistoryInv

LEMMA HistoryInit ==
    ASSUME Init, SettledInv
    PROVE  HistoryInv
BY DEF Init, RepositoryInit, HistoryInv, TablesInv

LEMMA HistoryNext ==
    ASSUME HistoryInv, SettledInv', [Next]_vars
    PROVE  HistoryInv'
<1>1. CASE CreateRun
  BY <1>1, CreateRunHistory
<1>2. ASSUME NEW w \in Workers, Resolve(w) PROVE HistoryInv'
  BY <1>2, ReadRunHistory, SaveReviewHistory, AbandonHistory DEF Resolve
<1>3. CASE Restart
  BY <1>3, AbandonHistory
<1>4. CASE UNCHANGED vars
  BY <1>4 DEF vars, HistoryInv, TablesInv, UnderWay
<1>5. QED
  BY <1>1, <1>2, <1>3, <1>4 DEF Next

\* HistoryInv is inductive, given what is known of every step already.
THEOREM HistoryInvariance == Spec => []HistoryInv
<1>1. Init /\ SettledInv => HistoryInv
  BY HistoryInit
<1>2. HistoryInv /\ SettledInv' /\ [Next]_vars => HistoryInv'
  BY HistoryNext
<1>3. QED
  BY <1>1, <1>2, SettledInvariance, PTL DEF Spec

-----------------------------------------------------------------------------
(* What it comes to.                                                       *)
\* The ledger of the saved run replays, and records each decision and each
\* fact of the run once and nothing else (service.py resolve, audit.py).
THEOREM LedgerRecordsTheRun == Spec => []LedgerMatchesRun
<1>1. HistoryInv => LedgerMatchesRun
  <2>1. SUFFICES ASSUME HistoryInv, row # NoRun
                 PROVE  LedgerMatchesRun
    BY DEF LedgerMatchesRun
  <2>2. LedgerOK(row) /\ VerifyAuditChain(row.audit_events)
    BY <2>1 DEF HistoryInv, HistoryOK, SettledInv, IInv, RunOK
  <2>3. QED
    BY <2>2 DEF LedgerMatchesRun, LedgerOK, Recorded, DecisionPayloads, FactPayloads
<1>2. QED
  BY <1>1, HistoryInvariance, PTL

\* A key in conflict that has a fact has been decided on.
LEMMA ConflictsRead ==
    ASSUME HistoryInv, row # NoRun, NEW key \in DOMAIN row.conflicts
    PROVE  /\ row.conflicts[key] = "resolved" <=> key \in DecidedKeys(row)
           /\ key \in DecidedKeys(row) <=> row.facts[key] # <<>>
<1>1. /\ ConflictsOK(row) /\ DecidedHaveFacts(row) /\ RunConflictsReviewed(row)
  BY DEF HistoryInv, HistoryOK, SettledInv, IInv, RunOK, FactsOK
<1>2. key \in Keys /\ IsConflicted(row.assertions, key)
  BY <1>1 DEF ConflictsOK
<1>3. ASSUME row.facts[key] # <<>>
      PROVE  key \in DecidedKeys(row)
  <2>1. PICK a \in Candidates(row.assertions, key) :
            \E d \in Elements(row.reviews) : IsReviewOf(row.assertions, d, a)
    BY <1>1, <1>2, <1>3 DEF RunConflictsReviewed, IsConflicted
  <2>2. PICK i \in DOMAIN row.reviews : IsReviewOf(row.assertions, row.reviews[i], a)
    BY <2>1 DEF Elements
  <2>3. row.assertions[row.reviews[i].assertion].key = key
    BY <2>1, <2>2 DEF IsReviewOf, Candidates
  <2>4. QED
    BY <2>3 DEF DecidedKeys
<1>4. key \in DecidedKeys(row) => row.facts[key] # <<>>
  BY <1>1 DEF DecidedHaveFacts
<1>5. QED
  BY <1>1, <1>3, <1>4 DEF ConflictsOK

\* A conflict reads resolved exactly when its key has been decided on, and
\* that is exactly when it has a fact, though the code that resolves it never
\* looks at what the promotion came to (service.py resolved_conflicts).
THEOREM ConflictStatusIsTruthful == Spec => []ConflictStatusTruthful
<1>1. HistoryInv => ConflictStatusTruthful
  <2>1. SUFFICES ASSUME HistoryInv, row # NoRun, NEW key \in DOMAIN row.conflicts
                 PROVE  LET reviewed == \E d \in Elements(row.reviews) :
                                            row.assertions[d.assertion].key = key
                        IN  /\ row.conflicts[key] = "resolved" <=> reviewed
                            /\ reviewed <=> row.facts[key] # <<>>
    BY DEF ConflictStatusTruthful
  <2>2. (\E d \in Elements(row.reviews) : row.assertions[d.assertion].key = key)
            <=> key \in DecidedKeys(row)
    BY DEF Elements, DecidedKeys
  <2>3. QED
    BY <2>1, <2>2, ConflictsRead
<1>2. QED
  BY <1>1, HistoryInvariance, PTL

\* When the queue is empty every key has a fact: what the policy did not
\* accept by itself has been decided on, and every decision has brought one
\* (run.py open_review_count, docs/DEMO.md:39).
THEOREM EmptyQueueMeansPromoted == Spec => []QueueClearedMeansPromoted
<1>1. HistoryInv => QueueClearedMeansPromoted
  <2>1. SUFFICES ASSUME HistoryInv, row # NoRun,
                        OpenReviewKeys(row.assertions, row.reviews) = {},
                        NEW key \in Keys, NEW a \in Candidates(row.assertions, key)
                 PROVE  row.facts[key] # <<>>
    BY DEF QueueClearedMeansPromoted
  <2> DEFINE assertions == row.assertions
             reviews == row.reviews
  <2>2. /\ assertions \in Seq(Assertion)
        /\ DecidedHaveFacts(row) /\ Settled(row)
    BY <2>1 DEF HistoryInv, HistoryOK, SettledInv, IInv, RunOK, IntakeRun
  <2>3. ASSUME NEW b \in Candidates(assertions, key), assertions[b].status # "accepted"
        PROVE  key \in DecidedKeys(row)
    <3>1. b \in DOMAIN assertions /\ assertions[b].key = key
      BY DEF Candidates
    <3>2. assertions[b] \in Assertion
      BY <2>2, <3>1
    <3>3. assertions[b].status \in {"review_required", "conflicted"}
      BY <2>3, <3>2 DEF Assertion, AssertionStatus
    <3>4. PICK i \in DOMAIN reviews : reviews[i].assertion = b
      BY <2>1, <3>1, <3>3 DEF OpenReviewKeys
    <3>5. QED
      BY <3>1, <3>4 DEF DecidedKeys
  <2>4. ASSUME \A b \in Candidates(assertions, key) : assertions[b].status = "accepted"
        PROVE  row.facts[key] # <<>>
    <3>1. Accepted(assertions, key) # {} /\ ~IsConflicted(assertions, key)
      BY <2>1, <2>4 DEF Accepted, IsConflicted
    <3> HIDE DEF assertions
    <3>2. AutoAcceptance(assertions, key) # {}
      BY <2>2, <3>1, StrongestExists
    <3>3. Select(assertions, reviews, key) # {}
      BY <3>1, <3>2 DEF Select
    <3>4. QED
      BY <2>1, <2>2, <3>3 DEF Settled, KeySettled, AlreadyEffective, assertions
  <2>5. QED
    BY <2>2, <2>3, <2>4 DEF DecidedHaveFacts
<1>2. QED
  BY <1>1, HistoryInvariance, PTL

\* Where the clock never steps back, the last word on a key that the policy
\* did not accept is what is effective, whatever reviews overlapped
\* (promotion.py _latest_valid_reviews).
THEOREM LastWordIsEffective ==
    MonotoneClock => (Spec => []LatestChoiceEffective)
<1>1. SUFFICES ASSUME MonotoneClock
               PROVE  Spec => []LatestChoiceEffective
  OBVIOUS
<1>2. HistoryInv => LatestChoiceEffective
  <2> DEFINE about(i) == row.assertions[row.reviews[i].assertion].key
  <2>1. SUFFICES ASSUME HistoryInv, row # NoRun, NEW i \in DOMAIN row.reviews,
                        row.reviews[i].outcome # "reject",
                        \A j \in DOMAIN row.reviews :
                            ~(row.reviews[j].op > row.reviews[i].op /\ about(j) = about(i)),
                        Accepted(row.assertions, about(i)) = {}
                 PROVE  AlreadyEffective(row.facts[about(i)],
                            ApprovedValue(row.assertions[row.reviews[i].assertion],
                                          row.reviews[i]))
    BY DEF LatestChoiceEffective
  <2>2. /\ row.assertions \in Seq(Assertion) /\ row.reviews \in Seq(ReviewDecision)
        /\ ReviewsOK(row) /\ Settled(row)
    BY <2>1 DEF HistoryInv, HistoryOK, SettledInv, IInv, RunOK, IntakeRun
  <2>3. \A j \in DOMAIN row.reviews : DecidedKey(row, j) = about(j)
    BY DEF DecidedKey
  <2>4. ASSUME NEW j \in DOMAIN row.reviews
        PROVE  row.reviews[j].op \in Nat
    <3>1. row.reviews[j] \in ReviewDecision
      BY <2>2
    <3>2. QED
      BY <3>1 DEF ReviewDecision
  <2>5. LastOnItsKey(row, i)
    <3>1. ASSUME NEW j \in DOMAIN row.reviews, DecidedKey(row, j) = DecidedKey(row, i)
          PROVE  row.reviews[j].op <= row.reviews[i].op
      <4>1. ~(row.reviews[j].op > row.reviews[i].op)
        BY <2>1, <2>3, <3>1
      <4>2. row.reviews[j].op \in Nat /\ row.reviews[i].op \in Nat
        BY <2>4
      <4>3. QED
        BY <4>1, <4>2
    <3>2. QED
      BY <1>1, <3>1 DEF LastOnItsKey
  <2> DEFINE key == DecidedKey(row, i)
             a == row.reviews[i].assertion
             s == [value |-> ApprovedValue(row.assertions[a], row.reviews[i]),
                   assertion_ids |-> {a}]
  <2>6. ComesTo(row.assertions, row.reviews, key, a, row.reviews[i])
    BY <2>1, <2>2, <2>5, LastReviewSelects
  <2>7. s \in Select(row.assertions, row.reviews, key)
    <3>1. Accepted(row.assertions, key) = {}
      BY <2>1, <2>3
    <3>2. CASE IsConflicted(row.assertions, key)
      BY <2>6, <3>2 DEF Select, ComesTo
    <3>3. CASE ~IsConflicted(row.assertions, key)
      BY <2>6, <3>1, <3>3 DEF Select, ComesTo
    <3>4. QED
      BY <3>2, <3>3
  <2>8. key \in Keys
    <3>1. a \in DOMAIN row.assertions
      BY <2>2 DEF ReviewsOK, ReviewsOnTarget
    <3>2. row.assertions[a] \in Assertion
      BY <2>2, <3>1
    <3>3. QED
      BY <3>2 DEF DecidedKey, Assertion
  <2>9. AlreadyEffective(row.facts[key], s.value)
    BY <2>2, <2>7, <2>8 DEF Settled, KeySettled
  <2>10. key = about(i) /\ s.value = ApprovedValue(row.assertions[a], row.reviews[i])
    BY <2>3
  <2>11. QED
    BY <2>9, <2>10
<1>3. QED
  BY <1>2, HistoryInvariance, PTL

\* The highest version is the last one.
LEMMA LatestIsLast ==
    ASSUME NEW S, NEW history \in Seq(S), history # <<>>,
           \A i \in DOMAIN history : history[i].version = i
    PROVE  LatestFact(history) = history[Len(history)]
<1> DEFINE n == Len(history)
           latest(f) == \E i \in DOMAIN history :
                            /\ f = history[i]
                            /\ \A j \in DOMAIN history \ {i} :
                                \/ history[i].version > history[j].version
                                \/ history[i].version = history[j].version /\ i < j
           fs == {history[i] : i \in DOMAIN history}
<1>1. n \in Nat /\ n \in DOMAIN history /\ DOMAIN history = 1 .. n
  OBVIOUS
<1> HIDE DEF n
<1>2. \A j \in DOMAIN history \ {n} : history[n].version > history[j].version
  BY <1>1
<1>3. history[n] \in fs /\ latest(history[n])
  BY <1>1, <1>2
<1>4. ASSUME NEW f \in fs, latest(f)
      PROVE  f = history[n]
  <2>1. PICK i \in DOMAIN history :
            /\ f = history[i]
            /\ \A j \in DOMAIN history \ {i} :
                \/ history[i].version > history[j].version
                \/ history[i].version = history[j].version /\ i < j
    BY <1>4
  <2>2. i = n
    <3>1. ASSUME i # n
          PROVE  FALSE
      <4>1. i > n \/ (i = n /\ i < n)
        BY <1>1, <2>1, <3>1
      <4>2. QED
        BY <1>1, <4>1
    <3>2. QED
      BY <3>1
  <2>3. QED
    BY <2>1, <2>2
<1>5. LatestFact(history) = CHOOSE f \in fs : latest(f)
  BY DEF LatestFact
<1> HIDE DEF fs, latest
<1>6. (CHOOSE f \in fs : latest(f)) = history[n]
  BY <1>3, <1>4
<1>7. QED
  BY <1>5, <1>6 DEF n

\* A contract is issued over no open conflict, and holds the last version of
\* each fact it needs, of the right type (agent_gate.py).
THEOREM GateHonoursOpenConflicts == Spec => []GateHonoursConflicts
<1>1. HistoryInv => GateHonoursConflicts
  <2> DEFINE gate == BuildGate(row.facts)
  <2>1. SUFFICES ASSUME HistoryInv, row # NoRun, gate.status = "ready",
                        NEW key \in RequiredFactKeys
                 PROVE  /\ key \in DOMAIN row.conflicts => row.conflicts[key] = "resolved"
                        /\ gate.contract[key].value \in ContractValues[key]
                        /\ gate.contract[key] = row.facts[key][Len(row.facts[key])]
    BY DEF GateHonoursConflicts
  <2> DEFINE missing == MissingFactKeys(row.facts)
             invalid == IF missing = {} THEN InvalidFactKeys(row.facts) ELSE {}
  <2>2. gate = [status |-> IF missing = {} /\ invalid = {} THEN "ready" ELSE "blocked",
                missing |-> missing,
                invalid |-> invalid,
                contract |-> [k \in IF missing = {} /\ invalid = {}
                                    THEN RequiredFactKeys ELSE {} |->
                                LatestFact(row.facts[k])]]
    BY DEF BuildGate
  <2> HIDE DEF gate, missing
  <2>3. missing = {} /\ invalid = {}
    BY <2>1, <2>2
  <2>4. gate.contract[key] = LatestFact(row.facts[key])
    BY <2>1, <2>2, <2>3
  <2>5. row.facts[key] # <<>>
    BY <2>1, <2>3 DEF missing, MissingFactKeys
  <2>6. LatestFact(row.facts[key]).value \in ContractValues[key]
    BY <2>1, <2>3 DEF missing, InvalidFactKeys
  <2>7. /\ key \in Keys /\ row.facts[key] \in Seq(EffectiveFact)
        /\ \A i \in DOMAIN row.facts[key] : row.facts[key][i].version = i
    BY <2>1, ServiceAssumption
       DEF HistoryInv, SettledInv, IInv, RunOK, FactsOK, RunVersionsContiguous
  <2>8. LatestFact(row.facts[key]) = row.facts[key][Len(row.facts[key])]
    BY <2>5, <2>7, LatestIsLast
  <2>9. key \in DOMAIN row.conflicts => row.conflicts[key] = "resolved"
    BY <2>1, <2>5, ConflictsRead
  <2>10. QED
    BY <2>4, <2>6, <2>8, <2>9
<1>2. QED
  BY <1>1, HistoryInvariance, PTL

-----------------------------------------------------------------------------
(* The tables, however reviews overlap.                                    *)
\* A save adds rows that are backed, and takes no backing away.
LEMMA SaveIsBacked ==
    ASSUME TableRowsBacked, RunOK(row'), LedgerOK(row'), row' # NoRun,
           \/ row = NoRun /\ fact_rows = {}
           \/ row # NoRun /\ row'.assertions = row.assertions,
           review_rows \subseteq review_rows', Elements(row'.reviews) \subseteq review_rows',
           fact_rows' = InsertFacts(fact_rows, AllFacts(row'.facts)),
           audit_rows' = InsertEvents(audit_rows, Elements(row'.audit_events))
    PROVE  TableRowsBacked'
<1> DEFINE run == row'
           assertions == run.assertions
           rows == review_rows'
<1>1. RunFactsJustified(run) /\ LedgerOK(run) /\ Elements(run.reviews) \subseteq rows
  BY DEF RunOK, FactsOK
<1>2. \A f, rs, ss : BackedByReview(assertions, rs, f) /\ rs \subseteq ss =>
            BackedByReview(assertions, ss, f)
  BY DEF BackedByReview
<1>3. \A f \in fact_rows :
            AutoAccepted(assertions, f) \/ BackedByReview(assertions, review_rows, f)
  BY DEF TableRowsBacked
<1>4. \A f \in AllFacts(run.facts) :
            AutoAccepted(assertions, f)
                \/ BackedByReview(assertions, Elements(run.reviews), f)
  BY <1>1 DEF RunFactsJustified, AllFacts, Elements
<1>5. /\ fact_rows' \subseteq fact_rows \cup AllFacts(run.facts)
      /\ audit_rows' \subseteq audit_rows \cup Elements(run.audit_events)
  BY DEF InsertFacts, InsertEvents
<1>6. review_rows \subseteq rows
  OBVIOUS
<1>7. \A e \in audit_rows : e.type = "review_recorded" =>
            \E d \in rows : d.op = e.payload.op /\ d.assertion = e.payload.assertion
  BY <1>6 DEF TableRowsBacked
<1> HIDE DEF run, assertions, rows
<1>8. ASSUME NEW e \in Elements(run.audit_events), e.type = "review_recorded"
      PROVE  \E d \in rows : d.op = e.payload.op /\ d.assertion = e.payload.assertion
  <2>1. e.payload \in Recorded(run.audit_events, "review_recorded")
    BY <1>8 DEF Recorded
  <2>2. e.payload \in DecisionPayloads(run.assertions, Elements(run.reviews))
    BY <1>1, <2>1 DEF LedgerOK
  <2>3. PICK d \in Elements(run.reviews) :
            e.payload = ReviewEntry(d, run.assertions[d.assertion].key).payload
    BY <2>2 DEF DecisionPayloads
  <2>4. d.op = e.payload.op /\ d.assertion = e.payload.assertion
    BY <2>3 DEF ReviewEntry
  <2>5. QED
    BY <1>1, <2>4
<1>9. \A f \in fact_rows' :
            AutoAccepted(assertions, f) \/ BackedByReview(assertions, rows, f)
  BY <1>1, <1>2, <1>3, <1>4, <1>5, <1>6
<1>10. \A e \in audit_rows' : e.type = "review_recorded" =>
            \E d \in rows : d.op = e.payload.op /\ d.assertion = e.payload.assertion
  BY <1>5, <1>7, <1>8
<1>11. QED
  BY <1>9, <1>10 DEF TableRowsBacked, rows, assertions, run

LEMMA BackedNext ==
    ASSUME HistoryInv, TableRowsBacked, [Next]_vars
    PROVE  TableRowsBacked'
<1>1. CASE CreateRun
  <2>1. /\ row = NoRun /\ row' # NoRun /\ RunOK(row') /\ HistoryOK(row')
        /\ row'.reviews = <<>> /\ Save(row')
    BY <1>1, CreateRunSaves
  <2>2. review_rows = {} /\ fact_rows = {}
    BY <2>1 DEF HistoryInv, TablesInv
  <2>3. Elements(row'.reviews) = {}
    BY <2>1 DEF Elements
  <2>4. LedgerOK(row') /\ fact_rows' = InsertFacts(fact_rows, AllFacts(row'.facts))
        /\ audit_rows' = InsertEvents(audit_rows, Elements(row'.audit_events))
    BY <2>1 DEF HistoryOK, Save
  <2>5. review_rows \subseteq review_rows' /\ Elements(row'.reviews) \subseteq review_rows'
    BY <2>2, <2>3
  <2>6. RunOK(row') /\ row' # NoRun
    BY <2>1
  <2>7. QED
    BY <2>1, <2>2, <2>4, <2>5, <2>6, SaveIsBacked
<1>2. ASSUME NEW w \in Workers, SaveReview(w)
      PROVE  TableRowsBacked'
  <2>1. PICK order, stamps, heads : Completes(pending[w], order, stamps, heads)
    BY <1>2, SaveReviewCompletes
  <2> DEFINE decisions == Decisions(pending[w], order, stamps)
  <2>2. pending[w] # Idle
    BY <1>2 DEF SaveReview
  <2>3. /\ UnderWay(pending[w]) /\ HistoryOK(row') /\ RunOK(row') /\ row' # NoRun
        /\ row'.assertions = row.assertions
        /\ SavedRows(pending[w], decisions)
    BY <2>1, <2>2, SaveKeepsHistory
  <2>4. fact_rows' = InsertFacts(fact_rows, AllFacts(row'.facts))
        /\ audit_rows' = InsertEvents(audit_rows, Elements(row'.audit_events))
    BY <2>1 DEF Completes, Save
  <2>5. row # NoRun /\ LedgerOK(row')
    BY <2>3 DEF UnderWay, HistoryOK
  <2> HIDE DEF decisions
  <2>6. review_rows \subseteq review_rows' /\ Elements(row'.reviews) \subseteq review_rows'
    BY <2>3 DEF SavedRows
  <2>7. QED
    BY <2>3, <2>4, <2>5, <2>6, SaveIsBacked
<1>3. CASE UNCHANGED <<row, review_rows, fact_rows, audit_rows>>
  BY <1>3 DEF TableRowsBacked
<1>4. QED
  BY <1>1, <1>2, <1>3 DEF Next, Resolve, ReadRun, SaveFails, Restart, vars

\* Whatever reviews overlap, a fact row rests on decisions that are in the
\* review table for good, and an event about a review on its decision
\* (sqlite_repository.py save).
THEOREM RowsAreBacked == Spec => []TableRowsBacked
<1>1. Init => TableRowsBacked
  BY DEF Init, RepositoryInit, TableRowsBacked
<1>2. HistoryInv /\ TableRowsBacked /\ [Next]_vars => TableRowsBacked'
  BY BackedNext
<1>3. QED
  BY <1>1, <1>2, HistoryInvariance, PTL DEF Spec

-----------------------------------------------------------------------------
(* What a run records is only ever added to.                               *)

LEMMA PrefixExtends ==
    ASSUME NEW S, NEW old \in Seq(S), NEW new \in Seq(S), Len(old) <= Len(new),
           \A i \in 1 .. Len(old) : new[i] = old[i]
    PROVE  Extends(new, old) /\ Elements(old) \subseteq Elements(new)
<1>1. /\ Len(old) \in Nat /\ Len(new) \in Nat
      /\ DOMAIN old = 1 .. Len(old) /\ DOMAIN new = 1 .. Len(new)
  OBVIOUS
<1>2. 1 .. Len(old) \subseteq 1 .. Len(new)
  BY <1>1
<1> DEFINE head == SubSeq(new, 1, Len(old))
<1>3. head \in Seq(S) /\ Len(head) = Len(old) /\ \A i \in 1 .. Len(old) : head[i] = new[i]
  BY <1>1, <1>2
<1> HIDE DEF head
<1>4. head = old
  BY <1>3, SeqEqual
<1>5. QED
  BY <1>1, <1>2, <1>4 DEF Extends, Elements, head

\* The facts after a promotion are those there were and those of the call.
LEMMA PromotionAdds ==
    ASSUME NEW facts \in [Keys -> Seq(EffectiveFact)], NEW op, NEW new,
           \A key \in Keys : \A f \in new[key] : f \in EffectiveFact /\ f.op = op
    PROVE  /\ \A key \in Keys : Extends(AddFacts(facts, new)[key], facts[key])
           /\ AllFacts(facts) \subseteq AllFacts(AddFacts(facts, new))
           /\ \A f \in AllFacts(AddFacts(facts, new)) : f \in AllFacts(facts) \/ f.op = op
<1> DEFINE next == AddFacts(facts, new)
<1>1. ASSUME NEW key \in Keys
      PROVE  /\ Extends(next[key], facts[key])
             /\ Elements(facts[key]) \subseteq Elements(next[key])
             /\ \A f \in Elements(next[key]) : f \in Elements(facts[key]) \/ f.op = op
  <2> DEFINE s == facts[key]
             t == next[key]
  <2>1. s \in Seq(EffectiveFact)
    OBVIOUS
  <2>2. t = s \/ \E f \in new[key] : t = Append(s, f)
    BY AddFactsGrows
  <2> HIDE DEF s, t
  <2>3. ASSUME t = s
        PROVE  /\ Extends(t, s) /\ Elements(s) \subseteq Elements(t)
               /\ \A g \in Elements(t) : g \in Elements(s) \/ g.op = op
    <3>1. Len(s) <= Len(s) /\ \A i \in 1 .. Len(s) : s[i] = s[i]
      BY <2>1
    <3>2. Extends(s, s)
      BY <2>1, <3>1, PrefixExtends
    <3>3. QED
      BY <2>3, <3>2
  <2>4. ASSUME NEW f \in new[key], t = Append(s, f)
        PROVE  /\ Extends(t, s) /\ Elements(s) \subseteq Elements(t)
               /\ \A g \in Elements(t) : g \in Elements(s) \/ g.op = op
    <3>1. f \in EffectiveFact /\ f.op = op
      OBVIOUS
    <3>2. /\ t \in Seq(EffectiveFact) /\ Len(s) \in Nat /\ Len(t) = Len(s) + 1
          /\ \A i \in 1 .. Len(s) : t[i] = s[i]
          /\ t[Len(s) + 1] = f
      BY <2>1, <2>4, <3>1
    <3>3. \A i \in DOMAIN t : i \in DOMAIN s \/ i = Len(s) + 1
      BY <2>1, <3>2
    <3>4. Extends(t, s) /\ Elements(s) \subseteq Elements(t)
      BY <2>1, <3>2, PrefixExtends
    <3>5. \A g \in Elements(t) : g \in Elements(s) \/ g.op = op
      BY SMTT(30), <2>1, <3>1, <3>2, <3>3 DEF Elements
    <3>6. QED
      BY <3>4, <3>5
  <2>5. QED
    BY <2>2, <2>3, <2>4 DEF s, t
<1> HIDE DEF next
<1>2. QED
  BY <1>1 DEF next, AllFacts

\* The next run adds to this one; the facts it adds are of call op.
Grows(run, next, op) ==
    /\ next.assertions = run.assertions
    /\ Extends(next.reviews, run.reviews)
    /\ Extends(next.audit_events, run.audit_events)
    /\ \A key \in Keys : Extends(next.facts[key], run.facts[key])
    /\ AllFacts(run.facts) \subseteq AllFacts(next.facts)
    /\ Elements(run.audit_events) \subseteq Elements(next.audit_events)
    /\ \A f \in AllFacts(next.facts) : f \in AllFacts(run.facts) \/ f.op = op

LEMMA ReviewGrows ==
    ASSUME NEW review, ReviewOK(review),
           NEW decisions, NEW time, DecidesAll(review, decisions, time),
           NEW heads \in Ascending(PromotedHeads(review.run.assertions,
                                        Promotion(review, decisions)))
    PROVE  Grows(review.run,
                 ReviewedRun(review, decisions, Promotion(review, decisions), heads),
                 review.op)
<1> DEFINE old == review.run
           assertions == old.assertions
           facts == old.facts
           events == old.audit_events
           r == old.reviews
           key == ChosenKey(review)
           new == Promotion(review, decisions)
           first == [n \in DOMAIN decisions |-> ReviewEntry(decisions[n], key)]
           promoted == FactEntries(assertions, new, heads)
           run == ReviewedRun(review, decisions, new, heads)
<1>1. /\ assertions \in Seq(Assertion) /\ SourcesAgree(assertions)
      /\ FactsOK(old) /\ r \in Seq(ReviewDecision)
      /\ events \in Seq(AuditEvent) /\ review.op \in Nat
  BY DEF ReviewOK, RunOK, Review, IntakeRun
<1>2. /\ facts \in [Keys -> Seq(EffectiveFact)] /\ Filed(facts)
  <2>1. old.facts \in [Keys -> Seq(EffectiveFact)] /\ Filed(old.facts)
    BY <1>1, FactsOKFiled
  <2>2. QED
    BY <2>1
<1>3. decisions \in Seq(ReviewDecision)
  BY DEF DecidesAll
<1>4. r \o decisions \in Seq(ReviewDecision)
  BY <1>1, <1>3
<1>5. /\ run.assertions = assertions
      /\ run.reviews = r \o decisions
      /\ run.facts = AddFacts(facts, new)
      /\ run.audit_events = AppendEvents(events, first \o promoted)
  BY DEF ReviewedRun
<1>6. /\ new = Promote(assertions, r \o decisions, facts, review.op)
      /\ heads \in Ascending(PromotedHeads(assertions, new))
  BY DEF Promotion
<1>7. /\ key \in Keys
      /\ \A n \in DOMAIN decisions : decisions[n].assertion \in Candidates(assertions, key)
  <2>1. key \in Keys
    BY ChosenCandidates
  <2>2. QED
    BY <2>1 DEF DecidesAll
<1> HIDE DEF old, assertions, facts, events, r, key, new, promoted, run
<1>8. Continues(assertions, facts, new)
  BY <1>1, <1>2, <1>4, <1>6, PromotionContinues
<1>9. first \in Seq(Entry(Payload)) /\ promoted \in Seq(Entry(Payload))
  <2>1. first \in Seq(Entry(Payload))
    BY ZenonT(30), <1>1, <1>3, <1>7, ReviewEntriesRecord
  <2> HIDE DEF first
  <2>2. promoted \in Seq(Entry(Payload))
    BY <1>1, <1>6, <1>8, FactEntriesRecord DEF promoted
  <2>3. QED
    BY <2>1, <2>2
<1> HIDE DEF first
<1>10. first \o promoted \in Seq(Entry(Payload))
  BY <1>9
<1>11. Extends(r \o decisions, r)
  <2>1. /\ Len(r) <= Len(r \o decisions)
        /\ \A i \in 1 .. Len(r) : (r \o decisions)[i] = r[i]
    BY <1>1, <1>3
  <2>2. QED
    BY <1>1, <1>4, <2>1, PrefixExtends
<1>12. Extends(run.audit_events, events) /\ Elements(events) \subseteq Elements(run.audit_events)
  <2> DEFINE entries == first \o promoted
             after == AppendEvents(events, entries)
  <2>1. entries \in Seq(Entry(Payload)) /\ events \in Seq(Event(Payload))
    BY <1>1, <1>10 DEF AuditEvent
  <2> HIDE DEF entries
  <2>2. /\ after \in Seq(Event(Payload))
        /\ Len(after) = Len(events) + Len(entries)
    BY <2>1, AppendEventsType
  <2>3. \A i \in 1 .. Len(events) : after[i] = events[i]
    BY <2>1, AppendEventsElements
  <2>4. Len(events) <= Len(after)
    BY <2>1, <2>2
  <2> HIDE DEF after
  <2>5. Extends(after, events) /\ Elements(events) \subseteq Elements(after)
    BY <2>1, <2>2, <2>3, <2>4, PrefixExtends
  <2>6. QED
    BY <1>5, <2>5 DEF after, entries
<1>13. \A k \in Keys : \A f \in new[k] : f \in EffectiveFact /\ f.op = review.op
  BY <1>6, <1>8 DEF Continues, Promote, NewFact
<1>14. /\ \A k \in Keys : Extends(run.facts[k], facts[k])
       /\ AllFacts(facts) \subseteq AllFacts(run.facts)
       /\ \A f \in AllFacts(run.facts) : f \in AllFacts(facts) \/ f.op = review.op
  <2>1. /\ \A k \in Keys : Extends(AddFacts(facts, new)[k], facts[k])
        /\ AllFacts(facts) \subseteq AllFacts(AddFacts(facts, new))
        /\ \A f \in AllFacts(AddFacts(facts, new)) :
                f \in AllFacts(facts) \/ f.op = review.op
    BY <1>2, <1>13, PromotionAdds
  <2>2. QED
    BY <1>5, <2>1
<1>15. Grows(old, run, review.op)
  BY <1>5, <1>11, <1>12, <1>14 DEF Grows, assertions, facts, events, r
<1>16. QED
  BY <1>15 DEF old, run, new

-----------------------------------------------------------------------------
(* No two rows of what is saved clash.                                     *)

LEMMA FactRowsDistinct ==
    ASSUME NEW facts, Filed(facts), NEW f \in AllFacts(facts), NEW g \in AllFacts(facts),
           f.key = g.key, f.version = g.version
    PROVE  f = g
<1>1. PICK k \in Keys : f \in Elements(facts[k])
  BY DEF AllFacts
<1>2. PICK l \in Keys : g \in Elements(facts[l])
  BY DEF AllFacts
<1>3. PICK i \in DOMAIN facts[k] : f = facts[k][i]
  BY <1>1 DEF Elements
<1>4. PICK j \in DOMAIN facts[l] : g = facts[l][j]
  BY <1>2 DEF Elements
<1>5. f.key = k /\ f.version = i /\ g.key = l /\ g.version = j
  BY <1>3, <1>4 DEF Filed
<1>6. QED
  BY <1>3, <1>4, <1>5

LEMMA EventRowsDistinct ==
    ASSUME NEW P, NEW events \in Seq(Event(P)), VerifyAuditChain(events),
           NEW e \in Elements(events), NEW f \in Elements(events),
           SameAuditRow(e, f)
    PROVE  e = f
<1> DEFINE entries == Entries(events)
           contents == Contents(0, entries)
<1>1. entries \in Seq(Entry(P)) /\ Len(entries) = Len(events) /\ Len(events) \in Nat
  BY EntriesType
<1>2. events = AppendEvents(<<>>, entries)
  BY DEF VerifyAuditChain
<1> HIDE DEF entries
<1>3. contents \in Seq(Nat \X AuditEventType \X P) /\ Len(contents) = Len(entries)
  <2>1. ASSUME NEW n \in Nat
        PROVE  /\ Contents(n, entries) \in Seq(Nat \X AuditEventType \X P)
               /\ Len(Contents(n, entries)) = Len(entries)
    BY <1>1, ContentsType
  <2>2. QED
    BY <2>1
<1>4. \A i \in 1 .. Len(entries) :
        AppendEvents(<<>>, entries)[i] = ChainEvent(contents, entries, i)
  BY <1>1, ReplayIsChain
<1> HIDE DEF contents
<1>5. \A i \in 1 .. Len(events) : events[i] = ChainEvent(contents, entries, i)
  BY <1>1, <1>2, <1>4
<1>6. \A i \in 1 .. Len(events) : Len(SubSeq(contents, 1, i)) = i
  BY <1>1, <1>3
<1>7. ASSUME NEW i \in 1 .. Len(events)
      PROVE  events[i].sequence = i /\ Len(events[i].event_hash) = i
  <2>1. events[i].sequence = i /\ events[i].event_hash = SubSeq(contents, 1, i)
    <3>1. events[i] = ChainEvent(contents, entries, i)
      BY <1>5
    <3>2. QED
      BY <3>1 DEF ChainEvent
  <2>2. QED
    BY <1>6, <2>1
<1>8. DOMAIN events = 1 .. Len(events)
  OBVIOUS
<1>9. PICK i \in 1 .. Len(events) : e = events[i]
  BY <1>8 DEF Elements
<1>10. PICK j \in 1 .. Len(events) : f = events[j]
  BY <1>8 DEF Elements
<1>11. e.sequence = i /\ Len(e.event_hash) = i /\ f.sequence = j /\ Len(f.event_hash) = j
  BY <1>7, <1>9, <1>10
<1>12. i = j
  BY <1>11 DEF SameAuditRow
<1>13. QED
  BY <1>9, <1>10, <1>12

\* So a save that adds to what the tables hold leaves what it saves in them.
LEMMA SaveMirrors ==
    ASSUME NEW run, NEW next, NEW op,
           RunOK(next), Grows(run, next, op),
           \A f \in AllFacts(run.facts) : f.op # op
    PROVE  /\ InsertFacts(AllFacts(run.facts), AllFacts(next.facts)) = AllFacts(next.facts)
           /\ InsertEvents(Elements(run.audit_events), Elements(next.audit_events)) =
                Elements(next.audit_events)
<1> DEFINE old == AllFacts(run.facts)
           new == AllFacts(next.facts)
           facts == next.facts
           before == Elements(run.audit_events)
           events == next.audit_events
<1>1. /\ old \subseteq new /\ before \subseteq Elements(events)
      /\ \A f \in new : f \in old \/ f.op = op
  BY DEF Grows
<1>2. Filed(facts)
  BY FactsOKFiled DEF RunOK
<1>3. events \in Seq(Event(Payload)) /\ VerifyAuditChain(events)
  BY DEF RunOK, IntakeRun, AuditEvent
<1> HIDE DEF facts, events
<1>4. \A f, g \in AllFacts(facts) : f.key = g.key /\ f.version = g.version => f = g
  BY <1>2, FactRowsDistinct
<1>5. \A e, f \in Elements(events) : SameAuditRow(e, f) => e = f
  BY <1>3, EventRowsDistinct
<1>6. \A f \in new \ old : \A g \in old : ~SameFactRow(f, g)
  BY <1>1, <1>4 DEF SameFactRow, facts
<1> HIDE DEF old, new, before
<1>7. InsertFacts(old, new) = new
  BY <1>1, <1>6 DEF InsertFacts
<1>8. InsertEvents(before, Elements(events)) = Elements(events)
  BY <1>1, <1>5 DEF InsertEvents
<1>9. QED
  BY <1>7, <1>8 DEF old, new, before, events

-----------------------------------------------------------------------------
(* One review at a time.                                                   *)

OneWorker == \A v, w \in Workers : v = w

\* A review under way was read from the run that is still in the row, and its
\* number is newer than any fact's.
SerialInv ==
    /\ HistoryInv
    /\ TablesMirrorProjection
    /\ row # NoRun => \A f \in AllFacts(row.facts) : f.op \in Nat /\ f.op <= ops
    /\ \A w \in Workers : pending[w] # Idle =>
        /\ pending[w].run = row
        /\ \A f \in AllFacts(row.facts) : f.op < pending[w].op

LEMMA CreateRunSerial ==
    ASSUME SerialInv, HistoryInv', CreateRun
    PROVE  SerialInv'
<1>1. /\ row = NoRun /\ UNCHANGED <<pending, ops, clock>>
      /\ row' # NoRun /\ Save(row')
  BY CreateRunSaves
<1>2. review_rows = {} /\ fact_rows = {} /\ audit_rows = {}
  BY <1>1 DEF SerialInv, HistoryInv, TablesInv
<1>3. TablesMirrorProjection'
  BY <1>1, <1>2
     DEF Save, InsertDecisions, InsertFacts, InsertEvents, TablesMirrorProjection
<1>4. \A w \in Workers : pending'[w] = Idle
  BY <1>1 DEF SerialInv, HistoryInv, TablesInv, UnderWay
<1>5. PICK claims \in Intakes :
        row'.facts = AddFacts(NoFacts, Promote(Assess(claims), <<>>, NoFacts, 0))
  BY DEF CreateRun, Save, CreatedRun
<1> DEFINE assertions == Assess(claims)
           facts == NoFacts
           new == Promote(assertions, <<>>, facts, 0)
<1>6. claims \in Seq(Claim)
  BY ServiceAssumption
<1>7. /\ assertions \in Seq(Assertion) /\ SourcesAgree(assertions)
  BY <1>6, AssessType, AssessMarksConflicts
<1>8. /\ facts \in [Keys -> Seq(EffectiveFact)] /\ Filed(facts) /\ AllFacts(facts) = {}
  BY DEF NoFacts, Filed, AllFacts, Elements
<1> HIDE DEF assertions, facts
<1>9. Continues(assertions, facts, new)
  <2> DEFINE none == <<>>
             zero == 0
  <2>1. none \in Seq(ReviewDecision) /\ zero \in Nat /\ new = Promote(assertions, none, facts, zero)
    OBVIOUS
  <2> HIDE DEF none, zero, new
  <2>2. Continues(assertions, facts, Promote(assertions, none, facts, zero))
    BY <1>7, <1>8, <2>1, PromotionContinues
  <2>3. QED
    BY <2>1, <2>2
<1>10. \A k \in Keys : \A f \in new[k] : f \in EffectiveFact /\ f.op = 0
  BY <1>9 DEF Continues, Promote, NewFact
<1> HIDE DEF new
<1>11. \A f \in AllFacts(AddFacts(facts, new)) : f \in AllFacts(facts) \/ f.op = 0
  BY <1>8, <1>10, PromotionAdds
<1>12. \A f \in AllFacts(row'.facts) : f.op = 0
  BY <1>5, <1>8, <1>11 DEF facts, new, assertions
<1>13. ops' \in Nat
  BY <1>1 DEF SerialInv, HistoryInv, SettledInv, IInv, TypeOK
<1>14. QED
  BY <1>3, <1>4, <1>12, <1>13 DEF SerialInv

LEMMA ReadRunSerial ==
    ASSUME OneWorker, SerialInv, HistoryInv', NEW w \in Workers, ReadRun(w)
    PROVE  SerialInv'
<1>1. PICK review \in Review :
            /\ pending' = [pending EXCEPT ![w] = review]
            /\ review.run = row /\ review.op = ops + 1
  BY ReadRunIsUnderWay DEF SerialInv
<1>2. /\ row # NoRun /\ ops' = ops + 1
      /\ UNCHANGED <<row, review_rows, fact_rows, audit_rows, clock>>
  BY DEF ReadRun
<1>3. /\ ops \in Nat /\ pending \in [Workers -> Review \cup {Idle}]
  BY DEF SerialInv, HistoryInv, SettledInv, IInv, TypeOK
<1>4. \A v \in Workers : pending'[v] = review
  BY <1>1, <1>3 DEF OneWorker
<1>5. \A f \in AllFacts(row.facts) : f.op \in Nat /\ f.op <= ops
  BY <1>2 DEF SerialInv
<1>6. \A f \in AllFacts(row.facts) : f.op <= ops + 1 /\ f.op < ops + 1
  BY <1>3, <1>5
<1>7. TablesMirrorProjection'
  BY <1>2 DEF SerialInv, TablesMirrorProjection
<1>8. QED
  BY <1>1, <1>2, <1>4, <1>5, <1>6, <1>7 DEF SerialInv

LEMMA SaveReviewSerial ==
    ASSUME OneWorker, SerialInv, HistoryInv', NEW w \in Workers, SaveReview(w)
    PROVE  SerialInv' /\ Grows(row, row', pending[w].op)
<1>1. PICK order, stamps, heads : Completes(pending[w], order, stamps, heads)
  BY SaveReviewCompletes
<1> DEFINE review == pending[w]
           decisions == Decisions(review, order, stamps)
           run == ReviewedRun(review, decisions, Promotion(review, decisions), heads)
           op == review.op
<1>2. /\ review # Idle /\ ops' = ops /\ pending' = [pending EXCEPT ![w] = Idle]
  BY DEF SaveReview
<1>3. /\ ReviewOK(review) /\ UnderWay(review) /\ clock \in Times
      /\ RunOK(row') /\ row' # NoRun
      /\ SavedRows(review, decisions)
  BY <1>1, <1>2, SaveKeepsHistory DEF SerialInv
<1>4. /\ review.run = row /\ \A f \in AllFacts(row.facts) : f.op < op
      /\ TablesMirrorProjection
      /\ \A f \in AllFacts(row.facts) : f.op \in Nat /\ f.op <= ops
      /\ row # NoRun
  BY <1>2, <1>3 DEF SerialInv, UnderWay
<1>5. op \in Nat /\ op <= ops /\ ops \in Nat
      /\ pending \in [Workers -> Review \cup {Idle}]
  BY <1>3 DEF SerialInv, HistoryInv, SettledInv, IInv, TypeOK, UnderWay
<1>6. /\ order \in Ascending(Candidates(review.run.assertions, ChosenKey(review)))
      /\ stamps \in ClockReadings(Cardinality(Candidates(review.run.assertions,
                                                    ChosenKey(review))))
      /\ heads \in Ascending(PromotedHeads(review.run.assertions,
                                Promotion(review, decisions)))
      /\ Save(run)
  BY <1>1 DEF Completes
<1>7. DecidesAll(review, decisions, clock)
  BY <1>3, <1>6, ReviewDecidesAll
<1>8. row' = run /\ run.reviews = review.run.reviews \o decisions
  BY <1>6 DEF Save, ReviewedRun
<1> HIDE DEF decisions, review
<1>9. Grows(row, row', op)
  BY <1>3, <1>4, <1>6, <1>7, <1>8, ReviewGrows
<1> HIDE DEF run
<1>10. \A f \in AllFacts(row'.facts) : f.op \in Nat /\ f.op <= ops
  BY <1>4, <1>5, <1>9 DEF Grows
<1>11. /\ fact_rows' = AllFacts(row'.facts)
       /\ audit_rows' = Elements(row'.audit_events)
  <2>1. \A f \in AllFacts(row.facts) : f.op # op
    BY <1>4, <1>5
  <2>2. fact_rows = AllFacts(row.facts) /\ audit_rows = Elements(row.audit_events)
    BY <1>4 DEF TablesMirrorProjection
  <2> DEFINE old == row
             next == row'
  <2>3. /\ fact_rows' = InsertFacts(AllFacts(old.facts), AllFacts(next.facts))
        /\ audit_rows' = InsertEvents(Elements(old.audit_events), Elements(next.audit_events))
    BY <1>6, <1>8, <2>2 DEF Save
  <2>4. RunOK(next) /\ Grows(old, next, op) /\ \A f \in AllFacts(old.facts) : f.op # op
    BY <1>3, <1>9, <2>1
  <2> HIDE DEF old, next, op
  <2>5. /\ InsertFacts(AllFacts(old.facts), AllFacts(next.facts)) = AllFacts(next.facts)
        /\ InsertEvents(Elements(old.audit_events), Elements(next.audit_events)) =
                Elements(next.audit_events)
    BY <2>4, SaveMirrors
  <2>6. QED
    BY <2>3, <2>5 DEF next
<1>12. review_rows' = Elements(row'.reviews)
  <2>1. review_rows' = Elements(row.reviews) \cup Elements(decisions)
    BY <1>3, <1>4 DEF SavedRows, TablesMirrorProjection
  <2>2. row.reviews \in Seq(ReviewDecision) /\ decisions \in Seq(ReviewDecision)
    BY <1>3, <1>4, <1>7 DEF ReviewOK, RunOK, IntakeRun, DecidesAll
  <2>3. Elements(row.reviews \o decisions) = Elements(row.reviews) \cup Elements(decisions)
    BY <2>2, ConcatElements
  <2>4. QED
    BY <1>4, <1>8, <2>1, <2>3
<1>13. TablesMirrorProjection'
  BY <1>11, <1>12 DEF TablesMirrorProjection
<1>14. \A v \in Workers : pending'[v] = Idle
  BY <1>2, <1>5 DEF OneWorker
<1>15. SerialInv'
  BY <1>2, <1>10, <1>13, <1>14 DEF SerialInv
<1>16. QED
  BY <1>9, <1>15 DEF review

LEMMA SerialNext ==
    ASSUME OneWorker, SerialInv, HistoryInv', [Next]_vars
    PROVE  SerialInv'
<1>1. CASE CreateRun
  BY <1>1, CreateRunSerial
<1>2. ASSUME NEW w \in Workers, ReadRun(w) \/ SaveReview(w)
      PROVE  SerialInv'
  BY <1>2, ReadRunSerial, SaveReviewSerial
<1>3. CASE Restart \/ \E w \in Workers : SaveFails(w)
  <2>1. UNCHANGED <<row, review_rows, fact_rows, audit_rows, ops, clock>>
    BY <1>3 DEF Restart, SaveFails
  <2>2. \A v \in Workers : pending'[v] \in {Idle, pending[v]}
    BY <1>3 DEF Restart, SaveFails, SerialInv, HistoryInv, SettledInv, IInv, TypeOK
  <2>3. QED
    BY <2>1, <2>2 DEF SerialInv, TablesMirrorProjection
<1>4. CASE UNCHANGED vars
  BY <1>4 DEF vars, SerialInv, TablesMirrorProjection
<1>5. QED
  BY <1>1, <1>2, <1>3, <1>4 DEF Next, Resolve

\* SerialInv is inductive when reviews do not overlap.
LEMMA SerialInvariance ==
    ASSUME OneWorker
    PROVE  Spec => []SerialInv
<1>1. Init /\ HistoryInv => SerialInv
  BY DEF Init, RepositoryInit, SerialInv, TablesMirrorProjection
<1>2. SerialInv /\ HistoryInv' /\ [Next]_vars => SerialInv'
  BY SerialNext
<1>3. QED
  BY <1>1, <1>2, HistoryInvariance, PTL DEF Spec

\* As long as reviews do not overlap, the tables hold exactly what the run
\* holds: no INSERT OR IGNORE ever drops a row (sqlite_repository.py save).
THEOREM SerialTablesMirror ==
    ASSUME OneWorker
    PROVE  Spec => []TablesMirrorProjection
<1>1. SerialInv => TablesMirrorProjection
  BY DEF SerialInv
<1>2. QED
  BY <1>1, SerialInvariance, PTL

\* A step of a run that is there keeps its history.
LEMMA HistoryGrows ==
    ASSUME OneWorker, SerialInv, HistoryInv', [Next]_vars, row # NoRun
    PROVE  /\ row'.assertions = row.assertions
           /\ Extends(row'.reviews, row.reviews)
           /\ Extends(row'.audit_events, row.audit_events)
           /\ \A key \in Keys : Extends(row'.facts[key], row.facts[key])
<1>1. ASSUME NEW w \in Workers, SaveReview(w)
      PROVE  Grows(row, row', pending[w].op)
  BY <1>1, SaveReviewSerial
<1>2. CASE row' = row
  <2>1. row \in IntakeRun
    BY DEF SerialInv, HistoryInv, SettledInv, IInv, RunOK
  <2>2. ASSUME NEW S, NEW s \in Seq(S)
        PROVE  Extends(s, s)
    <3>1. Len(s) \in Nat /\ SubSeq(s, 1, Len(s)) = s
      BY <2>2
    <3>2. QED
      BY <3>1 DEF Extends
  <2>3. /\ row.reviews \in Seq(ReviewDecision) /\ row.audit_events \in Seq(AuditEvent)
        /\ \A key \in Keys : row.facts[key] \in Seq(EffectiveFact)
    BY <2>1 DEF IntakeRun
  <2>4. QED
    BY <1>2, <2>2, <2>3
<1>3. QED
  BY <1>1, <1>2 DEF Grows, Next, CreateRun, Resolve, ReadRun, SaveFails, Restart, vars

\* As long as reviews do not overlap, what the run once recorded stays:
\* decisions, events and fact versions are only added behind those there are
\* (README.md, service.py resolve).
THEOREM SerialHistoryStays ==
    ASSUME OneWorker
    PROVE  Spec => HistoryAppendOnly
<1>1. SerialInv /\ HistoryInv' /\ [Next]_vars =>
        [row # NoRun =>
            /\ row'.assertions = row.assertions
            /\ Extends(row'.reviews, row.reviews)
            /\ Extends(row'.audit_events, row.audit_events)
            /\ \A key \in Keys : Extends(row'.facts[key], row.facts[key])]_vars
  BY HistoryGrows
<1>2. QED
  BY <1>1, SerialInvariance, HistoryInvariance, PTL DEF Spec, HistoryAppendOnly

\* Nor is a decision lost (docs/DEVPOST_DRAFT.md:36): overlapping is the only way to
\* lose one (service.py resolve, sqlite_repository.py save).
THEOREM SerialDecisionsStay ==
    ASSUME OneWorker
    PROVE  Spec => []EveryDecisionAppended
<1>1. TablesMirrorProjection => EveryDecisionAppended
  BY DEF TablesMirrorProjection, EveryDecisionAppended
<1>2. QED
  BY <1>1, SerialTablesMirror, PTL
=============================================================================
