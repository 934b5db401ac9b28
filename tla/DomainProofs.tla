---------------------------- MODULE DomainProofs ----------------------------
(***************************************************************************)
(* The trust kernel and the ledger, without a state: what assessment,      *)
(* selection, promotion and appending give for every input.                *)
(***************************************************************************)
EXTENDS TrustKernel, AuditChain, SequenceTheorems, FiniteSetTheorems,
        FunctionTheorems, WellFoundedInduction, TLAPS

-----------------------------------------------------------------------------
(* Numbers and sequences.                                                  *)
\* Induction, without a parameter: a nonempty set of numbers has a least one.
LEMMA LeastNumber ==
    ASSUME NEW T \in SUBSET Nat, T # {}
    PROVE  \E m \in T : \A n \in T : m <= n
<1> DEFINE below(n) == 1 .. n
           U == {below(n) : n \in T}
<1>1. U \subseteq FiniteSubsetsOf(Nat) /\ U # {}
  <2>1. ASSUME NEW n \in T
        PROVE  below(n) \in FiniteSubsetsOf(Nat)
    <3>1. IsFiniteSet(1 .. n)
      BY FS_Interval
    <3>2. QED
      BY <3>1 DEF FiniteSubsetsOf
  <2>2. QED
    BY <2>1
<1>2. PICK x \in U : \A y \in U : ~(<<y, x>> \in StrictSubsetOrdering(Nat))
  <2> HIDE DEF U
  <2>1. QED
    BY <1>1, FS_StrictSubsetOrderingWellFounded, WFMin
<1>3. PICK m \in T : x = below(m)
  OBVIOUS
<1>4. ASSUME NEW n \in T, n < m
      PROVE  FALSE
  <2>1. below(n) \in U /\ below(n) \in SUBSET Nat /\ below(m) \in SUBSET Nat
    OBVIOUS
  <2>2. below(n) \subseteq below(m)
    BY <1>4
  <2>3. m \in below(m) /\ m \notin below(n)
    BY <1>4
  <2>4. <<below(n), below(m)>> \in StrictSubsetOrdering(Nat)
    BY <2>1, <2>2, <2>3 DEF StrictSubsetOrdering
  <2>5. QED
    BY <1>2, <1>3, <2>1, <2>4
<1>5. QED
  BY <1>4

\* A bounded measure has a largest value.
LEMMA LargestMeasure ==
    ASSUME NEW S, S # {}, NEW bound \in Nat, NEW f \in [S -> 0 .. bound]
    PROVE  \E top \in S : \A a \in S : f[a] <= f[top]
<1> DEFINE T == {n \in 0 .. bound : \E a \in S : n = bound - f[a]}
<1>1. \A a \in S : f[a] \in Int /\ bound - f[a] \in 0 .. bound
  OBVIOUS
<1>2. \A a \in S : bound - f[a] \in T
  BY <1>1
<1>3. T \in SUBSET Nat /\ T # {}
  BY <1>2
<1>4. PICK m \in T : \A n \in T : m <= n
  <2> HIDE DEF T
  <2>1. QED
    BY <1>3, LeastNumber
<1>5. PICK top \in S : m = bound - f[top]
  OBVIOUS
<1>6. ASSUME NEW a \in S
      PROVE  f[a] <= f[top]
  <2>1. bound - f[top] <= bound - f[a]
    BY <1>2, <1>4, <1>5
  <2>2. QED
    BY <1>1, <2>1
<1>7. QED
  BY <1>6

\* What a concatenation holds, and where.
LEMMA ConcatParts ==
    ASSUME NEW S, NEW r \in Seq(S), NEW m \in Seq(S)
    PROVE  /\ r \o m \in Seq(S)
           /\ \A i \in DOMAIN r : i \in DOMAIN (r \o m) /\ (r \o m)[i] = r[i]
           /\ \A n \in DOMAIN m : /\ Len(r) + n \in DOMAIN (r \o m)
                                 /\ (r \o m)[Len(r) + n] = m[n]
           /\ \A i \in DOMAIN (r \o m) :
                i \in DOMAIN r \/ \E n \in DOMAIN m : i = Len(r) + n
<1> DEFINE all == r \o m
<1>1. /\ all \in Seq(S)
      /\ Len(r) \in Nat /\ Len(m) \in Nat
      /\ DOMAIN r = 1 .. Len(r) /\ DOMAIN m = 1 .. Len(m)
      /\ DOMAIN all = 1 .. Len(r) + Len(m)
      /\ \A i \in 1 .. Len(r) + Len(m) :
            all[i] = IF i <= Len(r) THEN r[i] ELSE m[i - Len(r)]
  BY ConcatProperties
<1> HIDE DEF all
<1>2. ASSUME NEW i \in DOMAIN r
      PROVE  i \in DOMAIN all /\ all[i] = r[i]
  BY <1>1
<1>3. ASSUME NEW n \in DOMAIN m
      PROVE  Len(r) + n \in DOMAIN all /\ all[Len(r) + n] = m[n]
  <2>1. /\ n \in Nat /\ 1 <= n /\ n <= Len(m)
        /\ Len(r) + n \in 1 .. Len(r) + Len(m)
        /\ ~(Len(r) + n <= Len(r)) /\ (Len(r) + n) - Len(r) = n
    BY <1>1
  <2>2. QED
    BY <1>1, <2>1
<1>4. ASSUME NEW i \in DOMAIN all, i \notin DOMAIN r
      PROVE  \E n \in DOMAIN m : i = Len(r) + n
  <2>1. i - Len(r) \in DOMAIN m /\ i = Len(r) + (i - Len(r))
    BY <1>1, <1>4
  <2>2. QED
    BY <2>1
<1>5. QED
  BY <1>1, <1>2, <1>3, <1>4 DEF all

\* What is appended comes last.
LEMMA AppendedIsLast ==
    ASSUME NEW S, NEW seq \in Seq(S), NEW elt
    PROVE  /\ Append(seq, elt) # <<>>
           /\ Append(seq, elt)[Len(Append(seq, elt))] = elt
<1> DEFINE T == S \cup {elt}
<1>1. seq \in Seq(T) /\ elt \in T
  OBVIOUS
<1> HIDE DEF T
<1>2. QED
  BY <1>1, AppendProperties

\* A function on an initial interval is a sequence.
LEMMA IntervalFunctionIsSeq ==
    ASSUME NEW S, NEW n \in Nat, NEW f \in [1 .. n -> S]
    PROVE  f \in Seq(S) /\ Len(f) = n
OBVIOUS

-----------------------------------------------------------------------------
(* Assessment.                                                             *)
\* Assessment keeps the shape of a run's assertions.
LEMMA AssessType ==
    ASSUME NEW claims \in Seq(Claim)
    PROVE  /\ Assess(claims) \in Seq(Assertion)
           /\ DOMAIN Assess(claims) = DOMAIN claims
<1>0. \A a : AssessedStatus(claims, a) \in AssertionStatus
  BY DEF AssessedStatus, AssertionStatus
<1>1. ASSUME NEW a \in DOMAIN claims
      PROVE  Assess(claims)[a] \in Assertion
  <2>1. claims[a] \in Claim
    OBVIOUS
  <2>2. QED
    BY <1>0, <2>1 DEF Assess, Assertion, Claim
<1>2. DOMAIN Assess(claims) = 1 .. Len(claims) /\ Len(claims) \in Nat
  BY DEF Assess
<1>3. QED
  BY <1>1, <1>2 DEF Assess

\* Values of one key differ only where the key is marked conflicted.
SourcesAgree(assertions) ==
    \A key \in Keys : \A a, b \in Candidates(assertions, key) :
        ~IsConflicted(assertions, key) => assertions[a].value = assertions[b].value

\* Assessment marks every key whose values differ.
LEMMA AssessMarksConflicts ==
    ASSUME NEW claims \in Seq(Claim)
    PROVE  SourcesAgree(Assess(claims))
<1>1. SUFFICES ASSUME NEW key \in Keys,
                      NEW a \in Candidates(Assess(claims), key),
                      NEW b \in Candidates(Assess(claims), key),
                      claims[a].value # claims[b].value
               PROVE  Assess(claims)[a].status = "conflicted"
  BY DEF SourcesAgree, IsConflicted, Candidates, Assess
<1>2. a \in Candidates(claims, key) /\ b \in Candidates(claims, key)
  BY DEF Candidates, Assess
<1>3. InConflict(claims, claims[a].key)
  BY <1>1, <1>2 DEF InConflict, Candidates
<1>4. QED
  BY <1>2, <1>3 DEF Assess, AssessedStatus, Candidates

\* A key is marked as in conflict exactly when its claims disagree.
LEMMA ConflictedIsInConflict ==
    ASSUME NEW claims \in Seq(Claim), NEW key
    PROVE  IsConflicted(Assess(claims), key) <=> InConflict(claims, key)
<1> DEFINE cs == Candidates(claims, key)
<1>1. /\ Candidates(Assess(claims), key) = cs
      /\ \A a \in cs : Assess(claims)[a].status = AssessedStatus(claims, a)
      /\ \A a \in cs : claims[a].key = key
  BY DEF Candidates, Assess
<1>2. ASSUME NEW a \in cs
      PROVE  AssessedStatus(claims, a) = "conflicted" <=> InConflict(claims, key)
  <2>1. claims[a].key = key
    BY <1>1
  <2>2. CASE InConflict(claims, key)
    BY <2>1, <2>2 DEF AssessedStatus
  <2>3. CASE ~InConflict(claims, key) /\ MeetsAutoAcceptance(claims[a])
    BY <2>1, <2>3 DEF AssessedStatus
  <2>4. CASE ~InConflict(claims, key) /\ ~MeetsAutoAcceptance(claims[a])
    BY <2>1, <2>4 DEF AssessedStatus
  <2>5. QED
    BY <2>2, <2>3, <2>4
<1>3. InConflict(claims, key) => cs # {}
  BY DEF InConflict
<1>4. QED
  BY <1>1, <1>2, <1>3 DEF IsConflicted

-----------------------------------------------------------------------------
(* Selection is a choice of at most one.                                   *)
\* A value that passed review is a value of the model: NoValue never becomes
\* a fact.
LEMMA ApprovedValueType ==
    ASSUME NEW assertion \in Assertion, NEW d \in ReviewDecision
    PROVE  ApprovedValue(assertion, d) \in Values
BY DEF ApprovedValue, Assertion, ReviewDecision

\* Of the decisions on an assertion one at most is the latest.
LEMMA LatestReviewUnique ==
    ASSUME NEW assertions, NEW reviews \in Seq(ReviewDecision), NEW a,
           NEW d \in LatestReview(assertions, reviews, a),
           NEW e \in LatestReview(assertions, reviews, a)
    PROVE  d = e
<1> DEFINE valid == {i \in DOMAIN reviews : IsReviewOf(assertions, reviews[i], a)}
<1>1. PICK i \in valid : /\ d = reviews[i]
                         /\ \A j \in valid \ {i} : SortedAfter(reviews, i, j)
  BY DEF LatestReview
<1>2. PICK j \in valid : /\ e = reviews[j]
                         /\ \A k \in valid \ {j} : SortedAfter(reviews, j, k)
  BY DEF LatestReview
<1>3. i \in Nat /\ j \in Nat
  OBVIOUS
<1>4. reviews[i].created_at \in Nat /\ reviews[j].created_at \in Nat
  <2>1. reviews[i] \in ReviewDecision /\ reviews[j] \in ReviewDecision
    OBVIOUS
  <2>2. QED
    BY <2>1 DEF ReviewDecision
<1>5. i # j => SortedAfter(reviews, i, j) /\ SortedAfter(reviews, j, i)
  BY <1>1, <1>2
<1>6. i = j
  BY <1>3, <1>4, <1>5 DEF SortedAfter
<1>7. QED
  BY <1>1, <1>2, <1>6

\* What is selected for a key is one value at most.
LEMMA SelectUnique ==
    ASSUME NEW assertions \in Seq(Assertion), NEW reviews \in Seq(ReviewDecision),
           NEW key, NEW s \in Select(assertions, reviews, key),
           NEW t \in Select(assertions, reviews, key)
    PROVE  s = t
<1>1. CASE /\ s \in SoleApproval(assertions, reviews, key)
           /\ t \in SoleApproval(assertions, reviews, key)
  <2> DEFINE approved == {a \in Candidates(assertions, key) :
                            Approvals(assertions, reviews, a) # {}}
  <2>0. ASSUME NEW r \in SoleApproval(assertions, reviews, key)
        PROVE  \E a \in approved : /\ approved = {a}
                                   /\ \E d \in Approvals(assertions, reviews, a) :
                                        r = [value |-> ApprovedValue(assertions[a], d),
                                             assertion_ids |-> {a}]
    <3>1. PICK a \in {b \in approved : approved = {b}} :
                r \in {[value |-> ApprovedValue(assertions[a], d), assertion_ids |-> {a}]
                        : d \in Approvals(assertions, reviews, a)}
      BY DEF SoleApproval
    <3>2. \E d \in Approvals(assertions, reviews, a) :
            r = [value |-> ApprovedValue(assertions[a], d), assertion_ids |-> {a}]
      BY <3>1
    <3> HIDE DEF approved
    <3>3. QED
      BY <3>1, <3>2
  <2>1. PICK a \in approved : /\ approved = {a}
                              /\ \E d \in Approvals(assertions, reviews, a) :
                                    s = [value |-> ApprovedValue(assertions[a], d),
                                         assertion_ids |-> {a}]
    BY <1>1, <2>0
  <2>2. PICK b \in approved : /\ approved = {b}
                              /\ \E d \in Approvals(assertions, reviews, b) :
                                    t = [value |-> ApprovedValue(assertions[b], d),
                                         assertion_ids |-> {b}]
    BY <1>1, <2>0
  <2>3. a = b
    <3> HIDE DEF approved
    <3>1. b \in {a}
      BY <2>1, <2>2
    <3>2. QED
      BY <3>1
  <2>4. \A d, e \in Approvals(assertions, reviews, a) : d = e
    BY LatestReviewUnique DEF Approvals
  <2>5. QED
    BY <2>1, <2>2, <2>3, <2>4
<1>2. CASE /\ s \in AutoAcceptance(assertions, key)
           /\ t \in AutoAcceptance(assertions, key)
  <2> DEFINE accepted == Accepted(assertions, key)
  <2>1. PICK a \in accepted : /\ s = [value |-> assertions[a].value,
                                     assertion_ids |-> accepted]
                              /\ \A c \in accepted \ {a} : Outranks(assertions, a, c)
    BY <1>2 DEF AutoAcceptance
  <2>2. PICK b \in accepted : /\ t = [value |-> assertions[b].value,
                                     assertion_ids |-> accepted]
                              /\ \A c \in accepted \ {b} : Outranks(assertions, b, c)
    BY <1>2 DEF AutoAcceptance
  <2>3. a \in DOMAIN assertions /\ b \in DOMAIN assertions
    BY DEF Accepted, Candidates
  <2>4. /\ a \in Nat /\ b \in Nat
        /\ assertions[a].authority \in Int /\ assertions[b].authority \in Int
        /\ assertions[a].confidence \in Int /\ assertions[b].confidence \in Int
    <3>1. assertions[a] \in Assertion /\ assertions[b] \in Assertion
      BY <2>3
    <3>2. \A p \in Percent : p \in Int
      BY DEF Percent
    <3>3. a \in Nat /\ b \in Nat
      BY <2>3
    <3>4. QED
      BY <3>1, <3>2, <3>3 DEF Assertion
  <2>5. a # b => Outranks(assertions, a, b) /\ Outranks(assertions, b, a)
    BY <2>1, <2>2
  <2>6. a = b
    BY <2>4, <2>5 DEF Outranks
  <2>7. QED
    BY <2>1, <2>2, <2>6
<1>3. QED
  BY <1>1, <1>2 DEF Select

\* What the policy lets through by itself is a value that every accepted
\* candidate carries: where no two candidates are marked conflicted but
\* accepted ones agree.
LEMMA AutoAcceptanceJustified ==
    ASSUME NEW assertions, NEW key,
           NEW s \in AutoAcceptance(assertions, key)
    PROVE  \E a \in Accepted(assertions, key) :
            s = [value |-> assertions[a].value,
                 assertion_ids |-> Accepted(assertions, key)]
BY DEF AutoAcceptance

\* Among accepted candidates one is the strongest.
LEMMA StrongestExists ==
    ASSUME NEW assertions \in Seq(Assertion), NEW key,
           Accepted(assertions, key) # {}
    PROVE  AutoAcceptance(assertions, key) # {}
<1> DEFINE accepted == Accepted(assertions, key)
           authority == [a \in accepted |-> assertions[a].authority]
           confidence == [a \in accepted |-> assertions[a].confidence]
<1>1. /\ accepted \subseteq Nat
      /\ authority \in [accepted -> 0 .. 100]
      /\ confidence \in [accepted -> 0 .. 100]
  <2>1. ASSUME NEW a \in accepted
        PROVE  a \in Nat /\ assertions[a] \in Assertion
    BY DEF Accepted, Candidates
  <2>2. QED
    BY <2>1 DEF Assertion, Percent
<1>0. /\ accepted # {}
      /\ \A a \in accepted : /\ authority[a] = assertions[a].authority
                              /\ confidence[a] = assertions[a].confidence
  OBVIOUS
<1> HIDE DEF accepted, authority, confidence
<1>2. PICK top \in accepted : \A a \in accepted : authority[a] <= authority[top]
  BY <1>0, <1>1, LargestMeasure
<1> DEFINE first == {a \in accepted : authority[a] = authority[top]}
           sureness == [a \in first |-> confidence[a]]
<1>3. PICK sure \in first : \A a \in first : sureness[a] <= sureness[sure]
  <2>1. sureness \in [first -> 0 .. 100] /\ first # {}
    BY <1>1
  <2> HIDE DEF first, sureness
  <2>2. QED
    BY <2>1, LargestMeasure
<1> DEFINE second == {a \in first : confidence[a] = confidence[sure]}
<1>4. PICK b \in second : \A a \in second : b <= a
  <2>1. second \in SUBSET Nat /\ second # {}
    BY <1>1
  <2> HIDE DEF second
  <2>2. QED
    BY <2>1, LeastNumber
<1>5. ASSUME NEW c \in accepted \ {b}
      PROVE  Outranks(assertions, b, c)
  <2>0. ASSUME NEW a \in accepted
        PROVE  a \in Nat /\ authority[a] \in Int /\ confidence[a] \in Int
    <3>1. a \in Nat /\ authority[a] \in 0 .. 100 /\ confidence[a] \in 0 .. 100
      BY <1>1
    <3>2. \A n \in 0 .. 100 : n \in Int
      OBVIOUS
    <3>3. QED
      BY <3>1, <3>2, Zenon
  <2>1. b \in accepted /\ c \in accepted /\ b # c
    OBVIOUS
  <2>2. authority[c] <= authority[b]
    BY <1>2
  <2>3. authority[c] = authority[b] => confidence[c] <= confidence[b]
    BY <1>3
  <2>4. authority[c] = authority[b] /\ confidence[c] = confidence[b] => b <= c
    BY <1>4
  <2>5. QED
    BY <1>0, <2>0, <2>1, <2>2, <2>3, <2>4 DEF Outranks
<1>6. [value |-> assertions[b].value, assertion_ids |-> accepted] \in AutoAcceptance(assertions, key)
  <2>1. b \in accepted
    OBVIOUS
  <2>2. QED
    BY <1>5, <2>1 DEF AutoAcceptance, accepted
<1>7. QED
  BY <1>6

\* Decisions on other assertions do not change which one is the latest.
LEMMA LatestReviewUnaffected ==
    ASSUME NEW assertions, NEW reviews \in Seq(ReviewDecision),
           NEW more \in Seq(ReviewDecision), NEW a,
           \A n \in DOMAIN more : more[n].assertion # a
    PROVE  LatestReview(assertions, reviews \o more, a)
            = LatestReview(assertions, reviews, a)
<1> DEFINE all == reviews \o more
           valid == {i \in DOMAIN reviews : IsReviewOf(assertions, reviews[i], a)}
           allvalid == {i \in DOMAIN all : IsReviewOf(assertions, all[i], a)}
<1>1. /\ Len(reviews) \in Nat /\ Len(more) \in Nat
      /\ DOMAIN reviews = 1 .. Len(reviews) /\ DOMAIN more = 1 .. Len(more)
      /\ DOMAIN all = 1 .. Len(reviews) + Len(more)
      /\ \A i \in 1 .. Len(reviews) + Len(more) :
            all[i] = IF i <= Len(reviews) THEN reviews[i] ELSE more[i - Len(reviews)]
  BY ConcatProperties
<1> HIDE DEF all
<1>2. \A i \in DOMAIN reviews : i \in DOMAIN all /\ all[i] = reviews[i]
  BY <1>1
<1>3. ASSUME NEW i \in DOMAIN all, i \notin DOMAIN reviews
      PROVE  all[i].assertion # a
  <2>1. i - Len(reviews) \in DOMAIN more /\ all[i] = more[i - Len(reviews)]
    BY <1>1, <1>3
  <2>2. QED
    BY <2>1
<1>4. allvalid = valid
  BY <1>2, <1>3 DEF IsReviewOf
<1>5. \A i, j \in valid : SortedAfter(all, i, j) <=> SortedAfter(reviews, i, j)
  BY <1>2 DEF SortedAfter
<1>6. LatestReview(assertions, all, a) =
        {all[i] : i \in {i \in allvalid :
            \A j \in allvalid \ {i} : SortedAfter(all, i, j)}}
  BY DEF LatestReview
<1>7. LatestReview(assertions, reviews, a) =
        {reviews[i] : i \in {i \in valid :
            \A j \in valid \ {i} : SortedAfter(reviews, i, j)}}
  BY DEF LatestReview
<1>8. {i \in allvalid : \A j \in allvalid \ {i} : SortedAfter(all, i, j)}
        = {i \in valid : \A j \in valid \ {i} : SortedAfter(reviews, i, j)}
  BY <1>4, <1>5
<1>9. QED
  BY <1>2, <1>6, <1>7, <1>8 DEF all

\* Selection follows from the latest decisions alone.
LEMMA SelectByLatest ==
    ASSUME NEW assertions, NEW reviews, NEW others, NEW key,
           \A a \in Candidates(assertions, key) :
                LatestReview(assertions, others, a) = LatestReview(assertions, reviews, a)
    PROVE  Select(assertions, others, key) = Select(assertions, reviews, key)
<1>1. \A a \in Candidates(assertions, key) :
        Approvals(assertions, others, a) = Approvals(assertions, reviews, a)
  BY DEF Approvals
<1>2. SoleApproval(assertions, others, key)
        = SoleApproval(assertions, reviews, key)
  <2> DEFINE cs == Candidates(assertions, key)
             approved(rs) == {a \in cs : Approvals(assertions, rs, a) # {}}
             passed(rs, a) == {[value |-> ApprovedValue(assertions[a], d),
                                assertion_ids |-> {a}]
                                : d \in Approvals(assertions, rs, a)}
             sole(rs) == {a \in approved(rs) : approved(rs) = {a}}
  <2>1. \A rs : SoleApproval(assertions, rs, key) = UNION {passed(rs, a) : a \in sole(rs)}
    BY DEF SoleApproval
  <2>2. approved(others) = approved(reviews)
    BY <1>1
  <2>3. sole(others) = sole(reviews) /\ sole(reviews) \subseteq cs
    BY <2>2
  <2>4. \A a \in cs : passed(others, a) = passed(reviews, a)
    BY <1>1
  <2> HIDE DEF cs, approved, passed, sole
  <2>5. QED
    BY ZenonT(30), <2>1, <2>3, <2>4
<1>3. FullyReviewed(assertions, others, key)
        <=> FullyReviewed(assertions, reviews, key)
  BY DEF FullyReviewed
<1>4. QED
  BY <1>2, <1>3 DEF Select

\* Nor what is selected for other keys.
LEMMA SelectUnaffected ==
    ASSUME NEW assertions, NEW reviews \in Seq(ReviewDecision),
           NEW more \in Seq(ReviewDecision), NEW key,
           \A n \in DOMAIN more : more[n].assertion \notin Candidates(assertions, key)
    PROVE  Select(assertions, reviews \o more, key) = Select(assertions, reviews, key)
<1>1. \A a \in Candidates(assertions, key) :
        LatestReview(assertions, reviews \o more, a)
            = LatestReview(assertions, reviews, a)
  BY LatestReviewUnaffected
<1>2. QED
  BY <1>1, SelectByLatest

-----------------------------------------------------------------------------
(* Versions.                                                               *)
\* Versions without a gap continue with the next number.
LEMMA NextVersionIsNext ==
    ASSUME NEW history, NEW S, history \in Seq(S),
           \A i \in DOMAIN history : history[i].version = i
    PROVE  NextVersion(history) = Len(history) + 1
<1> DEFINE candidates == {0} \cup {history[i].version : i \in DOMAIN history}
           IsTop(n) == \A i \in DOMAIN history : history[i].version <= n
<1>1. Len(history) \in Nat /\ DOMAIN history = 1 .. Len(history)
  OBVIOUS
<1>2. candidates = 0 .. Len(history)
  <2>1. candidates = {0} \cup 1 .. Len(history)
    BY <1>1
  <2>2. QED
    BY <2>1, <1>1
<1>3. IsTop(Len(history))
  BY <1>1
<1>4. ASSUME NEW n \in candidates, IsTop(n)
      PROVE  n = Len(history)
  <2>1. n \in 0 .. Len(history)
    BY <1>2
  <2>2. Len(history) # 0 => Len(history) <= n
    <3>1. SUFFICES ASSUME Len(history) # 0
                   PROVE  Len(history) <= n
      OBVIOUS
    <3>2. Len(history) \in DOMAIN history
      BY <1>1, <3>1
    <3>3. QED
      BY <1>4, <3>2
  <2>3. n \in Int /\ Len(history) \in Nat /\ 0 <= n /\ n <= Len(history)
    BY <2>1, <1>1
  <2>4. QED
    BY <2>2, <2>3
<1>5. (CHOOSE n \in candidates : IsTop(n)) = Len(history)
  <2>1. Len(history) \in candidates
    BY <1>1, <1>2
  <2> HIDE DEF candidates, IsTop
  <2>2. QED
    BY <2>1, <1>3, <1>4
<1>6. QED
  BY <1>1, <1>5 DEF NextVersion

\* A key's history either stays as it is or grows by one promoted fact.
LEMMA AddFactsGrows ==
    ASSUME NEW facts, NEW new, NEW key \in Keys
    PROVE  \/ AddFacts(facts, new)[key] = facts[key]
           \/ \E f \in new[key] :
                AddFacts(facts, new)[key] = Append(facts[key], f)
<1>1. CASE new[key] = {}
  BY <1>1 DEF AddFacts
<1>2. CASE new[key] # {}
  <2>1. (CHOOSE f \in new[key] : TRUE) \in new[key]
    BY <1>2
  <2>2. QED
    BY <1>2, <2>1 DEF AddFacts
<1>3. QED
  BY <1>1, <1>2

-----------------------------------------------------------------------------
(* The ledger.                                                             *)
\* Contents are a sequence as long as the entries.
LEMMA ContentsType ==
    ASSUME NEW P, NEW n \in Nat, NEW entries \in Seq(Entry(P))
    PROVE  /\ Contents(n, entries) \in Seq(Nat \X AuditEventType \X P)
           /\ Len(Contents(n, entries)) = Len(entries)
<1>1. ASSUME NEW i \in 1 .. Len(entries)
      PROVE  Contents(n, entries)[i] \in Nat \X AuditEventType \X P
  <2>1. entries[i] \in Entry(P) /\ n + i \in Nat
    OBVIOUS
  <2>2. QED
    BY <2>1 DEF Contents, Content, Entry
<1>2. DOMAIN Contents(n, entries) = 1 .. Len(entries) /\ Len(entries) \in Nat
  BY DEF Contents
<1>3. QED
  BY <1>1, <1>2 DEF Contents

\* The head hash of a ledger is a sequence of contents.
LEMMA HeadHashType ==
    ASSUME NEW P, NEW events \in Seq(Event(P))
    PROVE  HeadHash(events) \in Seq(Nat \X AuditEventType \X P)
<1>1. CASE events = <<>>
  BY <1>1 DEF HeadHash
<1>2. CASE events # <<>>
  <2>1. events[Len(events)] \in Event(P)
    BY <1>2
  <2>2. QED
    BY <1>2, <2>1 DEF HeadHash, Event
<1>3. QED
  BY <1>1, <1>2

\* Appending produces events, one per entry.
LEMMA AppendEventsType ==
    ASSUME NEW P, NEW events \in Seq(Event(P)), NEW entries \in Seq(Entry(P))
    PROVE  /\ AppendEvents(events, entries) \in Seq(Event(P))
           /\ Len(AppendEvents(events, entries)) = Len(events) + Len(entries)
<1> DEFINE C == Nat \X AuditEventType \X P
           contents == Contents(Len(events), entries)
           hash(i) == HeadHash(events) \o SubSeq(contents, 1, i)
           added == [i \in DOMAIN entries |->
                        [sequence |-> Len(events) + i,
                         type |-> entries[i].type,
                         payload |-> entries[i].payload,
                         previous_hash |-> hash(i - 1),
                         event_hash |-> hash(i)]]
<1>1. Len(events) \in Nat /\ Len(entries) \in Nat /\ DOMAIN entries = 1 .. Len(entries)
  OBVIOUS
<1>2. contents \in Seq(C) /\ Len(contents) = Len(entries)
  BY <1>1, ContentsType
<1>3. ASSUME NEW i \in 0 .. Len(entries)
      PROVE  hash(i) \in Seq(C)
  <2>1. SubSeq(contents, 1, i) \in Seq(C)
    BY <1>2, SubSeqProperties
  <2>2. QED
    BY <2>1, HeadHashType, ConcatProperties
<1>4. ASSUME NEW i \in 1 .. Len(entries)
      PROVE  added[i] \in Event(P)
  <2>1. entries[i] \in Entry(P) /\ Len(events) + i \in Nat
    BY <1>1
  <2>2. hash(i - 1) \in Seq(C) /\ hash(i) \in Seq(C)
    BY <1>1, <1>3
  <2>3. added[i] = [sequence |-> Len(events) + i,
                    type |-> entries[i].type,
                    payload |-> entries[i].payload,
                    previous_hash |-> hash(i - 1),
                    event_hash |-> hash(i)]
    BY <1>1
  <2> HIDE DEF hash, added
  <2>4. QED
    BY <2>1, <2>2, <2>3 DEF Event, Entry
<1>5. added \in Seq(Event(P)) /\ Len(added) = Len(entries)
  <2>1. added \in [1 .. Len(entries) -> Event(P)]
    <3> HIDE DEF hash
    <3>1. QED
      BY <1>1, <1>4
  <2> HIDE DEF added
  <2>2. QED
    BY <1>1, <2>1, IntervalFunctionIsSeq
<1>6. AppendEvents(events, entries) = events \o added
  BY DEF AppendEvents
<1> HIDE DEF added
<1>7. /\ events \o added \in Seq(Event(P))
      /\ Len(events \o added) = Len(events) + Len(added)
  BY <1>5, ConcatProperties
<1>8. QED
  BY <1>5, <1>6, <1>7

\* The event that entry j becomes.
AddedEvent(events, entries, j) ==
    [sequence |-> Len(events) + j,
     type |-> entries[j].type,
     payload |-> entries[j].payload,
     previous_hash |-> HeadHash(events)
        \o SubSeq(Contents(Len(events), entries), 1, j - 1),
     event_hash |-> HeadHash(events)
        \o SubSeq(Contents(Len(events), entries), 1, j)]

\* What appending leaves in each place.
LEMMA AppendEventsElements ==
    ASSUME NEW P, NEW events \in Seq(Event(P)), NEW entries \in Seq(Entry(P))
    PROVE  /\ \A i \in 1 .. Len(events) :
                AppendEvents(events, entries)[i] = events[i]
           /\ \A j \in 1 .. Len(entries) :
                AppendEvents(events, entries)[Len(events) + j] =
                    AddedEvent(events, entries, j)
<1> DEFINE hash(i) == HeadHash(events)
                        \o SubSeq(Contents(Len(events), entries), 1, i)
           added == [i \in DOMAIN entries |->
                        [sequence |-> Len(events) + i,
                         type |-> entries[i].type,
                         payload |-> entries[i].payload,
                         previous_hash |-> hash(i - 1),
                         event_hash |-> hash(i)]]
           X == {added[i] : i \in 1 .. Len(entries)}
                    \cup {events[i] : i \in 1 .. Len(events)}
<1>1. /\ Len(events) \in Nat /\ DOMAIN events = 1 .. Len(events)
      /\ Len(entries) \in Nat /\ DOMAIN entries = 1 .. Len(entries)
  OBVIOUS
<1>2. DOMAIN added = 1 .. Len(entries) /\ AppendEvents(events, entries) = events \o added
  BY <1>1 DEF AppendEvents
<1>3. ASSUME NEW j \in 1 .. Len(entries)
      PROVE  added[j] = [sequence |-> Len(events) + j,
                         type |-> entries[j].type,
                         payload |-> entries[j].payload,
                         previous_hash |-> hash(j - 1),
                         event_hash |-> hash(j)]
  BY <1>1
<1>4. added = [i \in 1 .. Len(entries) |-> added[i]]
  BY <1>1
<1> HIDE DEF added, hash
<1>5. events \in Seq(X) /\ added \in Seq(X) /\ Len(added) = Len(entries)
  <2>1. added \in [1 .. Len(entries) -> X]
    BY <1>4
  <2>2. events \in [1 .. Len(events) -> X]
    BY <1>1
  <2> HIDE DEF X
  <2>3. QED
    BY <1>1, <2>1, <2>2, IntervalFunctionIsSeq
<1> HIDE DEF X
<1>6. \A i \in 1 .. Len(events) + Len(entries) :
        (events \o added)[i] =
            IF i <= Len(events) THEN events[i] ELSE added[i - Len(events)]
  BY <1>5, ConcatProperties
<1>7. ASSUME NEW i \in 1 .. Len(events)
      PROVE  AppendEvents(events, entries)[i] = events[i]
  BY <1>1, <1>2, <1>6
<1>8. ASSUME NEW j \in 1 .. Len(entries)
      PROVE  AppendEvents(events, entries)[Len(events) + j] = added[j]
  <2>1. /\ Len(events) + j \in 1 .. Len(events) + Len(entries)
        /\ ~(Len(events) + j <= Len(events))
        /\ (Len(events) + j) - Len(events) = j
    BY <1>1
  <2>2. QED
    BY <1>2, <1>6, <2>1
<1>9. ASSUME NEW j \in 1 .. Len(entries)
      PROVE  added[j] = AddedEvent(events, entries, j)
  BY <1>3 DEF hash, AddedEvent
<1>10. QED
  BY <1>7, <1>8, <1>9

\* What an event of the chain over these contents looks like.
ChainEvent(contents, entries, i) ==
    [sequence |-> i,
     type |-> entries[i].type,
     payload |-> entries[i].payload,
     previous_hash |-> SubSeq(contents, 1, i - 1),
     event_hash |-> SubSeq(contents, 1, i)]

\* Replaying entries from genesis gives the chain over their contents.
LEMMA ReplayIsChain ==
    ASSUME NEW P, NEW entries \in Seq(Entry(P))
    PROVE  /\ Len(AppendEvents(<<>>, entries)) = Len(entries)
           /\ \A i \in 1 .. Len(entries) :
                AppendEvents(<<>>, entries)[i] =
                    ChainEvent(Contents(0, entries), entries, i)
<1> DEFINE C == Nat \X AuditEventType \X P
           contents == Contents(0, entries)
           hash(i) == <<>> \o SubSeq(contents, 1, i)
           added == [i \in DOMAIN entries |->
                        [sequence |-> 0 + i,
                         type |-> entries[i].type,
                         payload |-> entries[i].payload,
                         previous_hash |-> hash(i - 1),
                         event_hash |-> hash(i)]]
<1>1. <<>> \in Seq(Event(P)) /\ Len(<<>>) = 0 /\ HeadHash(<<>>) = <<>>
  BY DEF HeadHash
<1>2. AppendEvents(<<>>, entries) = <<>> \o added
  BY <1>1 DEF AppendEvents
<1>3. Len(AppendEvents(<<>>, entries)) = Len(entries)
  <2>1. Len(AppendEvents(<<>>, entries)) = Len(<<>>) + Len(entries)
    BY <1>1, AppendEventsType
  <2>2. QED
    BY <1>1, <2>1
<1>4. /\ contents \in Seq(C) /\ Len(contents) = Len(entries)
      /\ Len(entries) \in Nat /\ DOMAIN entries = 1 .. Len(entries)
  <2>1. contents \in Seq(C) /\ Len(contents) = Len(entries)
    BY ContentsType
  <2>2. Len(entries) \in Nat /\ DOMAIN entries = 1 .. Len(entries)
    OBVIOUS
  <2>3. QED
    BY <2>1, <2>2
<1>5. ASSUME NEW i \in 0 .. Len(entries)
      PROVE  hash(i) = SubSeq(contents, 1, i)
  <2>1. SubSeq(contents, 1, i) \in Seq(C)
    BY <1>4, SubSeqProperties
  <2>2. QED
    BY <2>1, ConcatEmptySeq
<1>6. ASSUME NEW i \in 1 .. Len(entries)
      PROVE  added[i] = ChainEvent(contents, entries, i)
  <2>1. added[i] = [sequence |-> 0 + i,
                    type |-> entries[i].type,
                    payload |-> entries[i].payload,
                    previous_hash |-> hash(i - 1),
                    event_hash |-> hash(i)]
    BY <1>4
  <2>2. i - 1 \in 0 .. Len(entries) /\ i \in 0 .. Len(entries) /\ 0 + i = i
    BY <1>4
  <2> HIDE DEF hash, added, contents
  <2>3. QED
    BY <1>5, <2>1, <2>2 DEF ChainEvent
<1>7. <<>> \o added = added
  <2>1. added \in Seq({added[i] : i \in 1 .. Len(entries)})
    <3>1. DOMAIN added = 1 .. Len(entries)
      BY <1>4
    <3>2. added \in [1 .. Len(entries) -> {added[i] : i \in 1 .. Len(entries)}]
      <4>1. added = [i \in 1 .. Len(entries) |-> added[i]]
        BY <3>1
      <4> HIDE DEF added
      <4>2. QED
        BY <4>1
    <3> HIDE DEF added
    <3>3. QED
      BY <1>4, <3>2, IntervalFunctionIsSeq
  <2> HIDE DEF added
  <2>2. QED
    BY <2>1, ConcatEmptySeq
<1> HIDE DEF added, contents
<1>8. QED
  BY <1>2, <1>3, <1>6, <1>7 DEF contents

\* A ledger records a sequence of entries, as long as itself.
LEMMA EntriesType ==
    ASSUME NEW P, NEW events \in Seq(Event(P))
    PROVE  /\ Entries(events) \in Seq(Entry(P))
           /\ Len(Entries(events)) = Len(events)
<1>1. DOMAIN events = 1 .. Len(events) /\ Len(events) \in Nat
  OBVIOUS
<1>2. Entries(events) \in [1 .. Len(events) -> Entry(P)]
  <2>1. ASSUME NEW i \in 1 .. Len(events)
        PROVE  [type |-> events[i].type, payload |-> events[i].payload] \in Entry(P)
    <3>1. events[i] \in Event(P)
      OBVIOUS
    <3>2. QED
      BY <3>1 DEF Event, Entry
  <2>2. QED
    BY <1>1, <2>1 DEF Entries
<1>3. QED
  BY <1>1, <1>2, IntervalFunctionIsSeq

\* The head of a ledger that verifies covers the contents of all its events.
LEMMA VerifiedHeadHash ==
    ASSUME NEW P, NEW events \in Seq(Event(P)), VerifyAuditChain(events)
    PROVE  HeadHash(events) = Contents(0, Entries(events))
<1> DEFINE entries == Entries(events)
           contents == Contents(0, entries)
<1>1. entries \in Seq(Entry(P)) /\ Len(entries) = Len(events) /\ Len(events) \in Nat
  BY EntriesType
<1>2. contents \in Seq(Nat \X AuditEventType \X P) /\ Len(contents) = Len(events)
  <2>1. ASSUME NEW e \in Seq(Entry(P))
        PROVE  /\ Contents(0, e) \in Seq(Nat \X AuditEventType \X P)
               /\ Len(Contents(0, e)) = Len(e)
    BY ContentsType
  <2>2. QED
    BY <1>1, <2>1
<1>3. CASE events = <<>>
  <2>1. Len(contents) = 0
    BY <1>2, <1>3
  <2> HIDE DEF contents
  <2>2. contents = <<>>
    BY <1>2, <2>1
  <2>3. QED
    BY <1>3, <2>2 DEF HeadHash, contents
<1>4. CASE events # <<>>
  <2>1. Len(events) \in 1 .. Len(entries)
    BY <1>1, <1>4
  <2>2. events[Len(events)] = ChainEvent(contents, entries, Len(events))
    BY <1>1, <2>1, ReplayIsChain DEF VerifyAuditChain
  <2>3. events[Len(events)].event_hash = SubSeq(contents, 1, Len(contents))
    BY <1>2, <2>2 DEF ChainEvent
  <2> HIDE DEF contents
  <2>4. SubSeq(contents, 1, Len(contents)) = contents
    BY <1>2, SubSeqFull
  <2>5. QED
    BY <1>4, <2>3, <2>4 DEF HeadHash, contents
<1>5. QED
  BY <1>3, <1>4

\* Ledgers that verify and have the same head hash are the same ledger: to
\* keep the head is to keep the whole history (audit.py).
THEOREM HeadHashDeterminesLedger ==
    ASSUME NEW P, NEW e1 \in Seq(Event(P)), NEW e2 \in Seq(Event(P)),
           VerifyAuditChain(e1), VerifyAuditChain(e2),
           HeadHash(e1) = HeadHash(e2)
    PROVE  e1 = e2
<1>1. Contents(0, Entries(e1)) = Contents(0, Entries(e2))
  BY VerifiedHeadHash
<1>2. /\ Entries(e1) \in Seq(Entry(P)) /\ Len(Entries(e1)) = Len(e1)
      /\ Entries(e2) \in Seq(Entry(P)) /\ Len(Entries(e2)) = Len(e2)
  BY EntriesType
<1>3. Len(Entries(e1)) = Len(Entries(e2))
  <2>1. ASSUME NEW e \in Seq(Entry(P))
        PROVE  Len(Contents(0, e)) = Len(e)
    BY ContentsType
  <2>2. QED
    BY <1>1, <1>2, <2>1
<1>4. ASSUME NEW i \in 1 .. Len(Entries(e1))
      PROVE  Entries(e1)[i] = Entries(e2)[i]
  <2>1. i \in DOMAIN Entries(e1) /\ i \in DOMAIN Entries(e2)
    BY <1>2, <1>3
  <2>2. Content(0 + i, Entries(e1)[i]) = Content(0 + i, Entries(e2)[i])
    BY <1>1, <2>1 DEF Contents
  <2>3. /\ Entries(e1)[i].type = Entries(e2)[i].type
        /\ Entries(e1)[i].payload = Entries(e2)[i].payload
    BY <2>2 DEF Content
  <2>4. Entries(e1)[i] \in Entry(P) /\ Entries(e2)[i] \in Entry(P)
    BY <1>2, <1>3
  <2>5. QED
    BY <2>3, <2>4 DEF Entry
<1>5. Entries(e1) = Entries(e2)
  BY <1>2, <1>3, <1>4, SeqEqual
<1>6. QED
  BY <1>5 DEF VerifyAuditChain

\* A beginning of s \o t that reaches into t.
LEMMA SubSeqAcross ==
    ASSUME NEW S, NEW s \in Seq(S), NEW t \in Seq(S), NEW j \in 0 .. Len(t)
    PROVE  SubSeq(s \o t, 1, Len(s) + j) = s \o SubSeq(t, 1, j)
<1>1. /\ Len(s) \in Nat /\ Len(t) \in Nat /\ j \in Nat
      /\ s \o t \in Seq(S) /\ Len(s \o t) = Len(s) + Len(t)
  BY ConcatProperties
<1>2. ASSUME NEW u \in Seq(S), NEW n \in 0 .. Len(u)
      PROVE  /\ SubSeq(u, 1, n) \in Seq(S)
             /\ Len(SubSeq(u, 1, n)) = n
             /\ \A i \in 1 .. n : SubSeq(u, 1, n)[i] = u[i]
  BY SubSeqProperties
<1>3. /\ SubSeq(s \o t, 1, Len(s) + j) \in Seq(S)
      /\ Len(SubSeq(s \o t, 1, Len(s) + j)) = Len(s) + j
      /\ \A i \in 1 .. Len(s) + j : SubSeq(s \o t, 1, Len(s) + j)[i] = (s \o t)[i]
  <2>1. Len(s) + j \in 0 .. Len(s \o t)
    BY <1>1
  <2>2. QED
    BY <1>1, <1>2, <2>1
<1>4. /\ SubSeq(t, 1, j) \in Seq(S)
      /\ Len(SubSeq(t, 1, j)) = j
      /\ \A i \in 1 .. j : SubSeq(t, 1, j)[i] = t[i]
  BY <1>2
<1>5. /\ s \o SubSeq(t, 1, j) \in Seq(S)
      /\ Len(s \o SubSeq(t, 1, j)) = Len(s) + j
  BY <1>4, ConcatProperties
<1>6. ASSUME NEW i \in 1 .. Len(s) + j
      PROVE  SubSeq(s \o t, 1, Len(s) + j)[i] = (s \o SubSeq(t, 1, j))[i]
  <2>1. (s \o t)[i] = IF i <= Len(s) THEN s[i] ELSE t[i - Len(s)]
    <3>1. i \in 1 .. Len(s) + Len(t)
      BY <1>1
    <3>2. QED
      BY <3>1, ConcatProperties
  <2>2. (s \o SubSeq(t, 1, j))[i] =
            IF i <= Len(s) THEN s[i] ELSE SubSeq(t, 1, j)[i - Len(s)]
    BY <1>4, ConcatProperties
  <2>3. i > Len(s) => i - Len(s) \in 1 .. j
    BY <1>1
  <2>4. QED
    BY <1>1, <1>3, <1>4, <2>1, <2>2, <2>3
<1>7. QED
  BY <1>3, <1>5, <1>6, SeqEqual

\* The entries of an extended ledger, and their contents.
LEMMA EntriesOfAppended ==
    ASSUME NEW P, NEW events \in Seq(Event(P)), NEW entries \in Seq(Entry(P))
    PROVE  /\ Entries(AppendEvents(events, entries)) = Entries(events) \o entries
           /\ Contents(0, Entries(events) \o entries) =
                Contents(0, Entries(events)) \o Contents(Len(events), entries)
<1> DEFINE all == AppendEvents(events, entries)
           before == Entries(events)
           C == Nat \X AuditEventType \X P
<1>0. all \in Seq(Event(P)) /\ Len(all) = Len(events) + Len(entries)
  BY AppendEventsType
<1>1. /\ all \in Seq(Event(P)) /\ Len(all) = Len(events) + Len(entries)
      /\ Len(events) \in Nat /\ DOMAIN events = 1 .. Len(events)
      /\ Len(entries) \in Nat /\ DOMAIN entries = 1 .. Len(entries)
      /\ DOMAIN all = 1 .. Len(events) + Len(entries)
  BY <1>0
<1>2. /\ before \in Seq(Entry(P)) /\ Len(before) = Len(events)
      /\ DOMAIN before = 1 .. Len(events)
  BY EntriesType
<1>3. /\ Entries(all) \in Seq(Entry(P))
      /\ Len(Entries(all)) = Len(events) + Len(entries)
  BY <1>1, EntriesType
<1>4. /\ before \o entries \in Seq(Entry(P))
      /\ Len(before \o entries) = Len(events) + Len(entries)
      /\ \A i \in 1 .. Len(events) + Len(entries) :
            (before \o entries)[i] =
                IF i <= Len(events) THEN before[i] ELSE entries[i - Len(events)]
  <2> HIDE DEF before
  <2>1. /\ before \o entries \in Seq(Entry(P))
        /\ Len(before \o entries) = Len(before) + Len(entries)
        /\ \A i \in 1 .. Len(before) + Len(entries) :
            (before \o entries)[i] =
                IF i <= Len(before) THEN before[i] ELSE entries[i - Len(before)]
    BY <1>2, ConcatProperties
  <2>2. QED
    BY <1>2, <2>1
<1>5. ASSUME NEW i \in 1 .. Len(events) + Len(entries)
      PROVE  Entries(all)[i] = (before \o entries)[i]
  <2>1. Entries(all)[i] = [type |-> all[i].type, payload |-> all[i].payload]
    BY <1>1 DEF Entries
  <2>2. CASE i <= Len(events)
    <3>1. all[i] = events[i] /\ i \in DOMAIN events
      <4>1. i \in 1 .. Len(events)
        BY <1>1, <2>2
      <4>2. QED
        BY <1>1, <4>1, AppendEventsElements
    <3>2. before[i] = [type |-> events[i].type, payload |-> events[i].payload]
      BY <3>1 DEF Entries
    <3>3. QED
      BY <1>4, <2>1, <2>2, <3>1, <3>2
  <2>3. CASE ~(i <= Len(events))
    <3>1. PICK j \in 1 .. Len(entries) :
            i = Len(events) + j /\ i - Len(events) = j
      <4>1. /\ i - Len(events) \in 1 .. Len(entries)
            /\ i = Len(events) + (i - Len(events))
        BY <1>1, <2>3
      <4>2. QED
        BY <4>1
    <3>2. /\ all[Len(events) + j].type = entries[j].type
          /\ all[Len(events) + j].payload = entries[j].payload
      <4>1. all[Len(events) + j] = AddedEvent(events, entries, j)
        BY AppendEventsElements
      <4>2. QED
        BY <4>1 DEF AddedEvent
    <3>3. entries[j] \in Entry(P)
      BY <1>1
    <3>4. Entries(all)[i] = entries[j]
      BY <2>1, <3>1, <3>2, <3>3 DEF Entry
    <3>5. QED
      BY <1>4, <2>3, <3>1, <3>4
  <2>4. QED
    BY <2>2, <2>3
<1>6. Entries(all) = before \o entries
  BY <1>3, <1>4, <1>5, SeqEqual
<1>7. ASSUME NEW n \in Nat, NEW e \in Seq(Entry(P))
      PROVE  /\ Contents(n, e) \in Seq(C)
             /\ Len(Contents(n, e)) = Len(e)
             /\ \A i \in 1 .. Len(e) : Contents(n, e)[i] = Content(n + i, e[i])
  <2>1. Contents(n, e) \in Seq(C) /\ Len(Contents(n, e)) = Len(e)
    BY ContentsType
  <2>2. DOMAIN e = 1 .. Len(e)
    OBVIOUS
  <2>3. QED
    BY <2>1, <2>2 DEF Contents
<1>8. Contents(0, before \o entries) =
            Contents(0, before) \o Contents(Len(events), entries)
  <2> DEFINE left == Contents(0, before \o entries)
             first == Contents(0, before)
             second == Contents(Len(events), entries)
  <2>1. /\ left \in Seq(C) /\ Len(left) = Len(events) + Len(entries)
        /\ \A i \in 1 .. Len(events) + Len(entries) :
                left[i] = Content(0 + i, (before \o entries)[i])
    <3> DEFINE e == before \o entries
    <3>1. e \in Seq(Entry(P)) /\ Len(e) = Len(events) + Len(entries) /\ 0 \in Nat
      BY <1>4
    <3> HIDE DEF e
    <3>2. QED
      BY <3>1, <1>7 DEF e
  <2>2. /\ first \in Seq(C) /\ Len(first) = Len(events)
        /\ \A i \in 1 .. Len(events) : first[i] = Content(0 + i, before[i])
    BY <1>2, <1>7
  <2>3. /\ second \in Seq(C) /\ Len(second) = Len(entries)
        /\ \A i \in 1 .. Len(entries) :
                second[i] = Content(Len(events) + i, entries[i])
    BY <1>1, <1>7
  <2> HIDE DEF left, first, second
  <2>4. /\ first \o second \in Seq(C)
        /\ Len(first \o second) = Len(events) + Len(entries)
        /\ \A i \in 1 .. Len(events) + Len(entries) :
            (first \o second)[i] =
                IF i <= Len(events) THEN first[i] ELSE second[i - Len(events)]
    <3> HIDE DEF C
    <3>0. first \in Seq(C) /\ second \in Seq(C)
      BY <2>2, <2>3
    <3>1. /\ first \o second \in Seq(C)
          /\ Len(first \o second) = Len(first) + Len(second)
          /\ \A i \in 1 .. Len(first) + Len(second) :
            (first \o second)[i] =
                IF i <= Len(first) THEN first[i] ELSE second[i - Len(first)]
      BY <3>0, ConcatProperties
    <3>2. QED
      BY <2>2, <2>3, <3>1
  <2>5. ASSUME NEW i \in 1 .. Len(events) + Len(entries)
        PROVE  left[i] = (first \o second)[i]
    <3>1. CASE i <= Len(events)
      <4>1. i \in 1 .. Len(events)
        BY <1>1, <3>1
      <4>2. QED
        BY <1>4, <2>1, <2>2, <2>4, <3>1, <4>1
    <3>2. CASE ~(i <= Len(events))
      <4>1. /\ i - Len(events) \in 1 .. Len(entries)
            /\ Len(events) + (i - Len(events)) = 0 + i
            /\ ~(i <= Len(events))
        BY <1>1, <3>2
      <4>2. left[i] = Content(0 + i, entries[i - Len(events)])
        BY <1>4, <2>1, <4>1
      <4>3. second[i - Len(events)] = Content(0 + i, entries[i - Len(events)])
        BY <2>3, <4>1
      <4>4. QED
        BY <2>4, <4>1, <4>2, <4>3
    <3>3. QED
      BY <3>1, <3>2
  <2>6. QED
    BY <2>1, <2>4, <2>5, SeqEqual DEF left, first, second
<1>9. QED
  BY <1>6, <1>8

\* What one call after another appends to a ledger that verifies leaves a
\* ledger that verifies (append_audit_event, verify_audit_chain).
THEOREM AppendKeepsVerified ==
    ASSUME NEW P, NEW events \in Seq(Event(P)), NEW entries \in Seq(Entry(P)),
           VerifyAuditChain(events)
    PROVE  VerifyAuditChain(AppendEvents(events, entries))
<1> DEFINE all == AppendEvents(events, entries)
           before == Entries(events)
           first == Contents(0, before)
           second == Contents(Len(events), entries)
           joined == before \o entries
           replayed == AppendEvents(<<>>, joined)
           C == Nat \X AuditEventType \X P
<1>1. /\ all \in Seq(Event(P)) /\ Len(all) = Len(events) + Len(entries)
      /\ Len(events) \in Nat /\ Len(entries) \in Nat
  <2>1. all \in Seq(Event(P)) /\ Len(all) = Len(events) + Len(entries)
    BY AppendEventsType
  <2>2. QED
    BY <2>1
<1>2. before \in Seq(Entry(P)) /\ Len(before) = Len(events)
  BY EntriesType
<1>3. /\ joined \in Seq(Entry(P)) /\ Len(joined) = Len(events) + Len(entries)
      /\ \A i \in 1 .. Len(events) + Len(entries) :
            joined[i] = IF i <= Len(events) THEN before[i]
                        ELSE entries[i - Len(events)]
  <2> HIDE DEF before
  <2>1. /\ joined \in Seq(Entry(P)) /\ Len(joined) = Len(before) + Len(entries)
        /\ \A i \in 1 .. Len(before) + Len(entries) :
            joined[i] = IF i <= Len(before) THEN before[i]
                        ELSE entries[i - Len(before)]
    BY <1>2, ConcatProperties
  <2>2. QED
    BY <1>2, <2>1
<1>4. Entries(all) = joined /\ Contents(0, joined) = first \o second
  BY EntriesOfAppended
<1>5. first \in Seq(C) /\ Len(first) = Len(events)
  <2>1. ASSUME NEW e \in Seq(Entry(P))
        PROVE  Contents(0, e) \in Seq(C) /\ Len(Contents(0, e)) = Len(e)
    BY ContentsType
  <2>2. QED
    BY <1>2, <2>1
<1>6. second \in Seq(C) /\ Len(second) = Len(entries)
  BY <1>1, ContentsType
<1>7. HeadHash(events) = first
  BY VerifiedHeadHash
<1>8. /\ Len(replayed) = Len(events) + Len(entries)
      /\ \A i \in 1 .. Len(events) + Len(entries) :
            replayed[i] = ChainEvent(first \o second, joined, i)
  <2> HIDE DEF joined
  <2>1. /\ Len(replayed) = Len(joined)
        /\ \A i \in 1 .. Len(joined) :
            replayed[i] = ChainEvent(Contents(0, joined), joined, i)
    BY <1>3, ReplayIsChain
  <2> HIDE DEF replayed
  <2>2. QED
    BY <1>3, <1>4, <2>1
<1>9. replayed \in Seq(Event(P))
  <2> HIDE DEF joined
  <2>1. <<>> \in Seq(Event(P))
    OBVIOUS
  <2>2. QED
    BY <1>3, <2>1, AppendEventsType
<1>10. ASSUME NEW i \in 1 .. Len(events)
       PROVE  all[i] = replayed[i]
  <2>1. all[i] = events[i]
    BY AppendEventsElements
  <2>2. events[i] = ChainEvent(first, before, i)
    <3>1. events = AppendEvents(<<>>, before)
      BY DEF VerifyAuditChain
    <3>2. \A k \in 1 .. Len(before) :
            AppendEvents(<<>>, before)[k] = ChainEvent(Contents(0, before), before, k)
      <4> HIDE DEF before
      <4>1. QED
        BY <1>2, ReplayIsChain
    <3> HIDE DEF before
    <3>3. QED
      BY <1>2, <3>1, <3>2
  <2>3. replayed[i] = ChainEvent(first \o second, joined, i)
    <3> HIDE DEF replayed, first, second, joined
    <3>1. QED
      BY <1>1, <1>8
  <2>4. SubSeq(first \o second, 1, i) = SubSeq(first, 1, i)
    <3> HIDE DEF first, second, C
    <3>1. QED
      BY <1>1, <1>5, <1>6, SubSeqOfConcat1
  <2>5. SubSeq(first \o second, 1, i - 1) = SubSeq(first, 1, i - 1)
    <3> HIDE DEF first, second, C
    <3>1. CASE i = 1
      <4>1. SubSeq(first \o second, 1, 0) = <<>> /\ SubSeq(first, 1, 0) = <<>>
        BY SubSeqEmpty
      <4>2. QED
        BY <3>1, <4>1
    <3>2. CASE i # 1
      <4>1. i - 1 \in 1 .. Len(first) /\ 1 \in 1 .. Len(first)
        BY <1>1, <1>5, <3>2
      <4>2. QED
        BY <1>5, <1>6, <4>1, SubSeqOfConcat1
    <3>3. QED
      BY <3>1, <3>2
  <2>6. joined[i] = before[i]
    BY <1>1, <1>3
  <2> HIDE DEF first, second, joined, before, replayed, all
  <2>7. QED
    BY <2>1, <2>2, <2>3, <2>4, <2>5, <2>6 DEF ChainEvent
<1>11. ASSUME NEW j \in 1 .. Len(entries)
       PROVE  all[Len(events) + j] = replayed[Len(events) + j]
  <2> DEFINE i == Len(events) + j
  <2>1. all[i] = [sequence |-> i,
                  type |-> entries[j].type,
                  payload |-> entries[j].payload,
                  previous_hash |-> first \o SubSeq(second, 1, j - 1),
                  event_hash |-> first \o SubSeq(second, 1, j)]
    <3>1. all[i] = AddedEvent(events, entries, j)
      BY AppendEventsElements
    <3>2. QED
      BY <1>7, <3>1 DEF AddedEvent
  <2>2. /\ i \in 1 .. Len(events) + Len(entries)
        /\ ~(i <= Len(events)) /\ i - Len(events) = j
        /\ j - 1 \in 0 .. Len(entries) /\ j \in 0 .. Len(entries)
        /\ i - 1 = Len(events) + (j - 1)
    BY <1>1
  <2>3. replayed[i] = ChainEvent(first \o second, joined, i)
    <3> HIDE DEF replayed, first, second, joined, i
    <3>1. QED
      BY <1>8, <2>2
  <2>4. joined[i] = entries[j]
    <3> HIDE DEF joined, before, i
    <3>1. QED
      BY <1>3, <2>2
  <2>5. SubSeq(first \o second, 1, i) = first \o SubSeq(second, 1, j)
    <3> HIDE DEF first, second, C
    <3>0. j \in 0 .. Len(second)
      BY <1>6, <2>2
    <3>1. SubSeq(first \o second, 1, Len(first) + j) = first \o SubSeq(second, 1, j)
      BY <1>5, <1>6, <3>0, SubSeqAcross
    <3>2. QED
      BY <1>5, <3>1
  <2>6. SubSeq(first \o second, 1, i - 1) = first \o SubSeq(second, 1, j - 1)
    <3> DEFINE k == j - 1
    <3>1. k \in 0 .. Len(second) /\ i - 1 = Len(first) + k
      BY <1>5, <1>6, <2>2
    <3> HIDE DEF first, second, C, k, i
    <3>2. SubSeq(first \o second, 1, Len(first) + k) = first \o SubSeq(second, 1, k)
      BY <1>5, <1>6, <3>1, SubSeqAcross
    <3>3. QED
      BY <3>1, <3>2 DEF k
  <2> HIDE DEF first, second, joined, before, replayed, all, i
  <2>7. all[i] = replayed[i]
    BY <2>1, <2>3, <2>4, <2>5, <2>6 DEF ChainEvent
  <2>8. QED
    BY <2>7 DEF i
<1>12. all = replayed
  <2> HIDE DEF all, replayed
  <2>1. ASSUME NEW i \in 1 .. Len(all)
        PROVE  all[i] = replayed[i]
    <3>1. CASE i <= Len(events)
      BY <1>1, <1>10, <3>1
    <3>2. CASE ~(i <= Len(events))
      <4>1. PICK j \in 1 .. Len(entries) : i = Len(events) + j
        <5>1. /\ i - Len(events) \in 1 .. Len(entries)
              /\ i = Len(events) + (i - Len(events))
          BY <1>1, <3>2
        <5>2. QED
          BY <5>1
      <4>2. QED
        BY <1>11, <4>1
    <3>3. QED
      BY <3>1, <3>2
  <2>2. QED
    BY <1>1, <1>8, <1>9, <2>1, SeqEqual
<1>13. QED
  BY <1>4, <1>12 DEF VerifyAuditChain

\* A beginning of a ledger that verifies is a ledger that verifies: events
\* cut off at the end leave no trace (verify_audit_chain).
THEOREM BeginningVerifies ==
    ASSUME NEW P, NEW events \in Seq(Event(P)), VerifyAuditChain(events),
           NEW n \in 0 .. Len(events)
    PROVE  VerifyAuditChain(SubSeq(events, 1, n))
<1> DEFINE part == SubSeq(events, 1, n)
           entries == Entries(events)
           kept == Entries(part)
           C == Nat \X AuditEventType \X P
<1>1. /\ part \in Seq(Event(P)) /\ Len(part) = n /\ DOMAIN part = 1 .. n
      /\ \A i \in 1 .. n : part[i] = events[i]
  BY SubSeqProperties
<1>2. /\ Len(events) \in Nat /\ n \in Nat /\ n <= Len(events)
      /\ DOMAIN events = 1 .. Len(events)
  OBVIOUS
<1> HIDE DEF part
<1>3. entries \in Seq(Entry(P)) /\ Len(entries) = Len(events)
  BY EntriesType
<1>4. kept \in Seq(Entry(P)) /\ Len(kept) = n
  BY <1>1, EntriesType
<1>5. ASSUME NEW i \in 1 .. n
      PROVE  kept[i] = entries[i]
  <2>1. i \in DOMAIN part /\ i \in DOMAIN events
    BY <1>1, <1>2
  <2>2. QED
    BY <1>1, <2>1 DEF Entries
<1> HIDE DEF entries, kept
<1>6. ASSUME NEW e \in Seq(Entry(P))
      PROVE  /\ Contents(0, e) \in Seq(C)
             /\ Len(Contents(0, e)) = Len(e)
             /\ \A i \in 1 .. Len(e) : Contents(0, e)[i] = Content(0 + i, e[i])
  <2>1. Contents(0, e) \in Seq(C) /\ Len(Contents(0, e)) = Len(e)
    BY ContentsType
  <2>2. DOMAIN e = 1 .. Len(e)
    OBVIOUS
  <2>3. \A i \in 1 .. Len(e) : Contents(0, e)[i] = Content(0 + i, e[i])
    BY <2>2 DEF Contents
  <2>4. QED
    BY <2>1, <2>3
<1> DEFINE all == Contents(0, entries)
           some == Contents(0, kept)
<1>7. /\ all \in Seq(C) /\ Len(all) = Len(events)
      /\ some \in Seq(C) /\ Len(some) = n
      /\ \A i \in 1 .. n : some[i] = all[i]
  <2>1. all \in Seq(C) /\ Len(all) = Len(events)
    BY <1>3, <1>6
  <2>2. some \in Seq(C) /\ Len(some) = n
    BY <1>4, <1>6
  <2>3. ASSUME NEW i \in 1 .. n
        PROVE  some[i] = all[i]
    <3>1. i \in 1 .. Len(kept) /\ i \in 1 .. Len(entries)
      BY <1>2, <1>3, <1>4
    <3>2. QED
      BY <1>3, <1>4, <1>5, <1>6, <3>1
  <2>4. QED
    BY <2>1, <2>2, <2>3
<1> HIDE DEF all, some
<1>8. ASSUME NEW i \in 0 .. n
      PROVE  SubSeq(some, 1, i) = SubSeq(all, 1, i)
  <2>1. ASSUME NEW u \in Seq(C), NEW m \in 0 .. Len(u)
        PROVE  /\ SubSeq(u, 1, m) \in Seq(C)
               /\ Len(SubSeq(u, 1, m)) = m
               /\ \A j \in 1 .. m : SubSeq(u, 1, m)[j] = u[j]
    BY SubSeqProperties
  <2>2. i \in 0 .. Len(some) /\ i \in 0 .. Len(all) /\ i \in Nat /\ i <= n
    BY <1>2, <1>7
  <2>3. /\ SubSeq(some, 1, i) \in Seq(C) /\ SubSeq(all, 1, i) \in Seq(C)
        /\ Len(SubSeq(some, 1, i)) = i /\ Len(SubSeq(all, 1, i)) = i
        /\ \A j \in 1 .. i : SubSeq(some, 1, i)[j] = some[j]
        /\ \A j \in 1 .. i : SubSeq(all, 1, i)[j] = all[j]
    BY <1>7, <2>1, <2>2
  <2>4. ASSUME NEW j \in 1 .. i
        PROVE  some[j] = all[j]
    BY <1>2, <1>7, <2>2
  <2>5. QED
    BY <2>3, <2>4, SeqEqual
<1>9. ASSUME NEW i \in 1 .. n
      PROVE  AppendEvents(<<>>, kept)[i] = part[i]
  <2>1. /\ i \in 1 .. Len(kept) /\ i \in 1 .. Len(entries)
        /\ i \in 0 .. n /\ i - 1 \in 0 .. n
    BY <1>2, <1>3, <1>4
  <2>2. AppendEvents(<<>>, kept)[i] = ChainEvent(some, kept, i)
    BY <1>4, <2>1, ReplayIsChain DEF some
  <2>3. events[i] = ChainEvent(all, entries, i)
    BY <1>3, <2>1, ReplayIsChain DEF VerifyAuditChain, entries, all
  <2>4. ChainEvent(some, kept, i) = ChainEvent(all, entries, i)
    BY <1>5, <1>8, <2>1 DEF ChainEvent
  <2>5. QED
    BY <1>1, <2>2, <2>3, <2>4
<1>10. AppendEvents(<<>>, kept) \in Seq(Event(P)) /\ Len(AppendEvents(<<>>, kept)) = n
  <2>1. <<>> \in Seq(Event(P)) /\ Len(<<>>) = 0
    OBVIOUS
  <2>2. AppendEvents(<<>>, kept) \in Seq(Event(P))
    BY <1>4, <2>1, AppendEventsType
  <2>3. Len(AppendEvents(<<>>, kept)) = n
    BY <1>4, ReplayIsChain
  <2>4. QED
    BY <2>2, <2>3
<1>11. AppendEvents(<<>>, kept) = part
  BY <1>1, <1>9, <1>10, SeqEqual
<1>12. QED
  BY <1>11 DEF VerifyAuditChain, kept, part
=============================================================================
