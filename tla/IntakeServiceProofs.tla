------------------------ MODULE IntakeServiceProofs -------------------------
(***************************************************************************)
(* The intake service: that every run it saves is sound and settled, and   *)
(* that it implements ReviewedOntology, for any number of overlapping      *)
(* reviews.                                                                *)
(***************************************************************************)
EXTENDS IntakeProperties, DomainProofs

-----------------------------------------------------------------------------
(* What a promotion makes.                                                 *)
\* What the latest review of an assertion is: one of the decisions, made on
\* the assertion as it stands.
LEMMA LatestReviewIsReview ==
    ASSUME NEW assertions, NEW reviews, NEW a,
           NEW d \in LatestReview(assertions, reviews, a)
    PROVE  /\ d \in Elements(reviews)
           /\ IsReviewOf(assertions, d, a)
BY DEF LatestReview, Elements

\* What a review lets through is the value one decision approved, and the
\* one assertion it approved it for.
LEMMA SoleApprovalJustified ==
    ASSUME NEW assertions, NEW reviews, NEW key,
           NEW s \in SoleApproval(assertions, reviews, key)
    PROVE  \E a \in Candidates(assertions, key) :
            \E d \in Elements(reviews) :
                /\ IsReviewOf(assertions, d, a)
                /\ d.outcome # "reject"
                /\ s = [value |-> ApprovedValue(assertions[a], d),
                        assertion_ids |-> {a}]
<1>1. PICK a \in Candidates(assertions, key) :
            \E d \in Approvals(assertions, reviews, a) :
                s = [value |-> ApprovedValue(assertions[a], d),
                     assertion_ids |-> {a}]
  BY DEF SoleApproval
<1>0. PICK d \in Approvals(assertions, reviews, a) :
            s = [value |-> ApprovedValue(assertions[a], d),
                 assertion_ids |-> {a}]
  BY <1>1
<1>2. d \in LatestReview(assertions, reviews, a) /\ d.outcome # "reject"
  BY DEF Approvals
<1>3. QED
  BY <1>0, <1>2, LatestReviewIsReview

\* What is selected for a key is justified, and on a conflicted key only once
\* every candidate has been decided on.
LEMMA SelectJustified ==
    ASSUME NEW assertions \in Seq(Assertion), SourcesAgree(assertions),
           NEW reviews, NEW key \in Keys,
           NEW s \in Select(assertions, reviews, key),
           NEW fact, fact.key = key, fact.value = s.value,
           fact.assertion_ids = s.assertion_ids
    PROVE  /\ fact.assertion_ids # {}
           /\ \/ AutoAccepted(assertions, fact)
              \/ BackedByReview(assertions, Elements(reviews), fact)
           /\ IsConflicted(assertions, key) =>
                \A a \in Candidates(assertions, key) :
                    \E d \in Elements(reviews) : IsReviewOf(assertions, d, a)
<1>1. CASE s \in SoleApproval(assertions, reviews, key)
  <2>1. /\ fact.assertion_ids # {}
        /\ BackedByReview(assertions, Elements(reviews), fact)
    <3>1. PICK a \in Candidates(assertions, key) :
            \E d \in Elements(reviews) :
                /\ IsReviewOf(assertions, d, a)
                /\ d.outcome # "reject"
                /\ s = [value |-> ApprovedValue(assertions[a], d),
                        assertion_ids |-> {a}]
      BY <1>1, SoleApprovalJustified
    <3>2. fact.assertion_ids = {a}
      BY <3>1
    <3>3. \E d \in Elements(reviews) :
            /\ IsReviewOf(assertions, d, a)
            /\ d.outcome # "reject"
            /\ ApprovedValue(assertions[a], d) = fact.value
      BY <3>1
    <3>4. QED
      BY <3>2, <3>3 DEF BackedByReview
  <2>2. ASSUME IsConflicted(assertions, key),
               NEW a \in Candidates(assertions, key)
        PROVE  \E d \in Elements(reviews) : IsReviewOf(assertions, d, a)
    <3>1. FullyReviewed(assertions, reviews, key)
      BY <2>2 DEF Select
    <3>2. QED
      BY <3>1, LatestReviewIsReview DEF FullyReviewed
  <2>3. QED
    BY <2>1, <2>2
<1>2. CASE /\ ~IsConflicted(assertions, key)
           /\ s \in AutoAcceptance(assertions, key)
  <2>1. PICK a \in Accepted(assertions, key) :
            s = [value |-> assertions[a].value,
                 assertion_ids |-> Accepted(assertions, key)]
    BY <1>2, AutoAcceptanceJustified
  <2>2. AutoAccepted(assertions, fact)
    BY <1>2, <2>1 DEF AutoAccepted, Accepted, SourcesAgree
  <2>3. QED
    BY <1>2, <2>1, <2>2
<1>3. QED
  BY <1>1, <1>2 DEF Select

\* A selected value is a value of the model, and cites positions.
LEMMA SelectType ==
    ASSUME NEW assertions \in Seq(Assertion), NEW reviews \in Seq(ReviewDecision),
           NEW key \in Keys, NEW s \in Select(assertions, reviews, key)
    PROVE  s.value \in Values /\ s.assertion_ids \in SUBSET Nat
<1>1. \A a \in Candidates(assertions, key) : a \in Nat /\ assertions[a] \in Assertion
  BY DEF Candidates
<1>2. CASE s \in SoleApproval(assertions, reviews, key)
  <2>1. PICK a \in Candidates(assertions, key) :
            \E d \in Elements(reviews) :
                s = [value |-> ApprovedValue(assertions[a], d),
                     assertion_ids |-> {a}]
    BY <1>2, SoleApprovalJustified
  <2>2. \A d \in Elements(reviews) : d \in ReviewDecision
    BY DEF Elements
  <2>3. QED
    BY <1>1, <2>1, <2>2, ApprovedValueType
<1>3. CASE s \in AutoAcceptance(assertions, key)
  BY <1>1, <1>3, AutoAcceptanceJustified DEF Accepted, Assertion
<1>4. QED
  BY <1>2, <1>3 DEF Select

\* The facts of a run: typed, numbered, justified, and behind the boundary.
FactsOK(run) ==
    /\ run.facts \in [Keys -> Seq(EffectiveFact)]
    /\ RunVersionsContiguous(run)
    /\ RunFactsJustified(run)
    /\ RunConflictsReviewed(run)

\* The policy finds f for the key of a run whose versions count up.
Found(assertions, reviews, facts, op, key, f) ==
    /\ assertions \in Seq(Assertion) /\ SourcesAgree(assertions)
    /\ reviews \in Seq(ReviewDecision)
    /\ facts \in [Keys -> Seq(EffectiveFact)]
    /\ op \in Nat /\ key \in Keys
    /\ \A i \in DOMAIN facts[key] : facts[key][i].version = i
    /\ f \in NewFact(assertions, reviews, facts, op, key)

\* The fact carries the key's next version and is justified.
Continuing(assertions, reviews, facts, key, f) ==
    /\ f \in EffectiveFact
    /\ f.key = key
    /\ f.version = Len(facts[key]) + 1
    /\ f.assertion_ids # {}
    /\ \/ AutoAccepted(assertions, f)
       \/ BackedByReview(assertions, Elements(reviews), f)
    /\ IsConflicted(assertions, key) =>
        \A a \in Candidates(assertions, key) :
            \E d \in Elements(reviews) : IsReviewOf(assertions, d, a)
    /\ Candidates(assertions, key) # {}

LEMMA NewFactSound ==
    ASSUME NEW assertions, NEW reviews, NEW facts, NEW op, NEW key, NEW f,
           Found(assertions, reviews, facts, op, key, f)
    PROVE  Continuing(assertions, reviews, facts, key, f)
<1> USE DEF Found
<1>1. PICK s \in Select(assertions, reviews, key) :
        f = [op |-> op, key |-> key, value |-> s.value,
             assertion_ids |-> s.assertion_ids,
             version |-> NextVersion(facts[key])]
  BY DEF NewFact
<1>2. NextVersion(facts[key]) = Len(facts[key]) + 1
  BY NextVersionIsNext
<1>3. Len(facts[key]) + 1 \in Nat
  BY LenProperties
<1>4. f \in EffectiveFact
  BY <1>1, <1>2, <1>3, SelectType DEF EffectiveFact
<1>5. /\ f.key = key
      /\ f.value = s.value
      /\ f.assertion_ids = s.assertion_ids
      /\ f.version = Len(facts[key]) + 1
  BY <1>1, <1>2
<1>6. /\ f.assertion_ids # {}
      /\ \/ AutoAccepted(assertions, f)
         \/ BackedByReview(assertions, Elements(reviews), f)
      /\ IsConflicted(assertions, key) =>
            \A a \in Candidates(assertions, key) :
                \E d \in Elements(reviews) : IsReviewOf(assertions, d, a)
  BY <1>5, SelectJustified
<1>7. Candidates(assertions, key) # {}
  BY <1>5, <1>6 DEF AutoAccepted, BackedByReview
<1>8. QED
  BY <1>4, <1>5, <1>6, <1>7 DEF Continuing

\* Promotion keeps the facts of a run sound while reviews are added.
LEMMA PromotionKeepsFactsOK ==
    ASSUME NEW old, NEW new, NEW op \in Nat,
           old.assertions \in Seq(Assertion), SourcesAgree(old.assertions),
           new.assertions = old.assertions,
           new.reviews \in Seq(ReviewDecision),
           Elements(old.reviews) \subseteq Elements(new.reviews),
           new.facts = AddFacts(old.facts,
                        Promote(old.assertions, new.reviews, old.facts, op)),
           FactsOK(old)
    PROVE  FactsOK(new)
<1> DEFINE assertions == old.assertions
           reviews == Elements(new.reviews)
           fresh(key) == NewFact(assertions, new.reviews, old.facts, op, key)
           Justified(f) == \/ AutoAccepted(assertions, f)
                           \/ BackedByReview(assertions, reviews, f)
           Reviewed(key) == \A a \in Candidates(assertions, key) :
                                \E d \in reviews : IsReviewOf(assertions, d, a)
<1>1. ASSUME NEW key \in Keys
      PROVE  \/ new.facts[key] = old.facts[key]
             \/ \E f \in fresh(key) : new.facts[key] = Append(old.facts[key], f)
  <2> DEFINE promoted == Promote(old.assertions, new.reviews, old.facts, op)
  <2>1. promoted[key] = fresh(key)
    BY DEF Promote
  <2>2. new.facts = AddFacts(old.facts, promoted)
    OBVIOUS
  <2> HIDE DEF fresh, promoted
  <2>3. \/ AddFacts(old.facts, promoted)[key] = old.facts[key]
        \/ \E f \in promoted[key] :
            AddFacts(old.facts, promoted)[key] = Append(old.facts[key], f)
    BY AddFactsGrows
  <2>4. QED
    BY <2>1, <2>2, <2>3
<1>2. ASSUME NEW key \in Keys
      PROVE  /\ old.facts[key] \in Seq(EffectiveFact)
             /\ \A i \in DOMAIN old.facts[key] : old.facts[key][i].version = i
  BY DEF FactsOK, RunVersionsContiguous
<1>3. ASSUME NEW key \in Keys, NEW f \in fresh(key)
      PROVE  /\ f \in EffectiveFact
             /\ f.key = key
             /\ f.version = Len(old.facts[key]) + 1
             /\ f.assertion_ids # {}
             /\ Justified(f)
             /\ IsConflicted(assertions, key) => Reviewed(key)
  <2> DEFINE facts == old.facts
             rs == new.reviews
  <2>1. /\ Found(assertions, rs, facts, op, key, f)
        /\ reviews = Elements(rs)
    BY <1>2 DEF Found, FactsOK
  <2> HIDE DEF assertions, reviews, fresh, Justified, Reviewed, facts, rs
  <2>2. Continuing(assertions, rs, facts, key, f)
    BY <2>1, NewFactSound
  <2>3. Justified(f)
    BY <2>1, <2>2 DEF Justified, Continuing
  <2>4. IsConflicted(assertions, key) => Reviewed(key)
    BY <2>1, <2>2 DEF Reviewed, Continuing
  <2>5. f.version = Len(old.facts[key]) + 1
    BY <2>2 DEF facts, Continuing
  <2>6. QED
    BY <2>2, <2>3, <2>4, <2>5 DEF Continuing
<1>4. ASSUME NEW key \in Keys, NEW i \in DOMAIN old.facts[key]
      PROVE  LET f == old.facts[key][i]
             IN  f.key = key /\ f.assertion_ids # {} /\ Justified(f)
  <2>1. LET f == old.facts[key][i]
        IN  /\ f.key = key
            /\ f.assertion_ids # {}
            /\ \/ AutoAccepted(assertions, f)
               \/ BackedByReview(assertions, Elements(old.reviews), f)
    BY DEF FactsOK, RunFactsJustified
  <2>2. QED
    BY <2>1 DEF BackedByReview
<1>5. ASSUME NEW key \in Keys, old.facts[key] # <<>>, IsConflicted(assertions, key)
      PROVE  Reviewed(key)
  BY <1>5 DEF FactsOK, RunConflictsReviewed
<1> HIDE DEF fresh, Justified, Reviewed
<1>6. ASSUME NEW key \in Keys, NEW i \in DOMAIN new.facts[key]
      PROVE  /\ new.facts[key] \in Seq(EffectiveFact)
             /\ new.facts[key][i].version = i
             /\ new.facts[key][i].key = key
             /\ new.facts[key][i].assertion_ids # {}
             /\ Justified(new.facts[key][i])
             /\ IsConflicted(assertions, key) => Reviewed(key)
  <2>1. CASE new.facts[key] = old.facts[key]
    <3>1. i \in DOMAIN old.facts[key] /\ old.facts[key] # <<>>
      BY <2>1, <1>2
    <3>2. QED
      BY <2>1, <3>1, <1>2, <1>4, <1>5
  <2>2. ASSUME NEW f \in fresh(key), new.facts[key] = Append(old.facts[key], f)
        PROVE  /\ new.facts[key] \in Seq(EffectiveFact)
               /\ new.facts[key][i].version = i
               /\ new.facts[key][i].key = key
               /\ new.facts[key][i].assertion_ids # {}
               /\ Justified(new.facts[key][i])
               /\ IsConflicted(assertions, key) => Reviewed(key)
    <3>1. CASE i \in DOMAIN old.facts[key]
      <4>1. new.facts[key][i] = old.facts[key][i] /\ old.facts[key] # <<>>
        BY <2>2, <3>1, <1>2
      <4>2. new.facts[key] \in Seq(EffectiveFact)
        BY <2>2, <1>2, <1>3
      <4>3. QED
        BY SMTT(30), <3>1, <4>1, <4>2, <1>2, <1>4, <1>5
    <3>2. CASE i \notin DOMAIN old.facts[key]
      <4>1. i = Len(old.facts[key]) + 1 /\ new.facts[key][i] = f
        BY <2>2, <3>2, <1>2
      <4>2. new.facts[key] \in Seq(EffectiveFact)
        BY <2>2, <1>2, <1>3
      <4>3. QED
        BY <4>1, <4>2, <1>3
    <3>3. QED
      BY <3>1, <3>2
  <2>3. QED
    BY <1>1, <2>1, <2>2
<1>7. new.facts \in [Keys -> Seq(EffectiveFact)]
  <2>1. ASSUME NEW key \in Keys
        PROVE  new.facts[key] \in Seq(EffectiveFact)
    <3>1. ASSUME NEW f \in fresh(key), new.facts[key] = Append(old.facts[key], f)
          PROVE  new.facts[key] \in Seq(EffectiveFact)
      BY <3>1, <1>2, <1>3
    <3>2. QED
      BY <3>1, <1>1, <1>2
  <2>2. DOMAIN new.facts = Keys /\ new.facts = [k \in Keys |-> new.facts[k]]
    BY DEF AddFacts
  <2>3. QED
    BY <2>1, <2>2
<1>8. RunVersionsContiguous(new)
  BY <1>6 DEF RunVersionsContiguous
<1>9. RunFactsJustified(new)
  BY <1>6 DEF RunFactsJustified, Justified
<1>10. RunConflictsReviewed(new)
  <2>1. ASSUME NEW key \in Keys, new.facts[key] # <<>>, IsConflicted(assertions, key)
        PROVE  Reviewed(key)
    <3>1. 1 \in DOMAIN new.facts[key]
      BY <2>1, <1>7
    <3>2. QED
      BY <2>1, <3>1, <1>6
  <2>2. QED
    BY <2>1 DEF RunConflictsReviewed, Reviewed
<1>11. QED
  BY <1>7, <1>8, <1>9, <1>10 DEF FactsOK

-----------------------------------------------------------------------------
(* The inductive invariant.                                                *)
\* A run that is sound: typed, its conflicts marked, its facts justified and
\* numbered, its ledger intact.
RunOK(run) ==
    /\ run \in IntakeRun
    /\ SourcesAgree(run.assertions)
    /\ FactsOK(run)
    /\ VerifyAuditChain(run.audit_events)

\* A review under way holds a sound run and targets one of its assertions.
ReviewOK(review) ==
    /\ review \in Review
    /\ RunOK(review.run)
    /\ review.chosen \in DOMAIN review.run.assertions

\* The inductive invariant: the properties of the row alone are not
\* inductive, since a save publishes what a worker read long ago.
IInv ==
    /\ TypeOK
    /\ row # NoRun => RunOK(row)
    /\ \A w \in Workers : pending[w] # Idle => ReviewOK(pending[w])

-----------------------------------------------------------------------------
(* Rows.                                                                   *)
\* The elements of a sequence over S are in S.
LEMMA ElementsType ==
    ASSUME NEW S, NEW seq \in Seq(S)
    PROVE  Elements(seq) \subseteq S
BY DEF Elements

\* A save leaves rows in the tables.
LEMMA SaveType ==
    ASSUME NEW run \in IntakeRun, Save(run),
           review_rows \in SUBSET ReviewDecision,
           fact_rows \in SUBSET EffectiveFact,
           audit_rows \in SUBSET AuditEvent
    PROVE  /\ row' = run
           /\ review_rows' \in SUBSET ReviewDecision
           /\ fact_rows' \in SUBSET EffectiveFact
           /\ audit_rows' \in SUBSET AuditEvent
<1>1. /\ run.reviews \in Seq(ReviewDecision)
      /\ run.facts \in [Keys -> Seq(EffectiveFact)]
      /\ run.audit_events \in Seq(AuditEvent)
  BY DEF IntakeRun
<1>2. /\ Elements(run.reviews) \subseteq ReviewDecision
      /\ Elements(run.audit_events) \subseteq AuditEvent
      /\ \A key \in Keys : Elements(run.facts[key]) \subseteq EffectiveFact
  BY <1>1, ElementsType
<1>3. AllFacts(run.facts) \subseteq EffectiveFact
  BY <1>2 DEF AllFacts
<1>4. row' = run
  BY DEF Save
<1>5. review_rows' \in SUBSET ReviewDecision
  BY <1>2 DEF Save, InsertDecisions
<1>6. fact_rows' \in SUBSET EffectiveFact
  BY <1>3 DEF Save, InsertFacts
<1>7. audit_rows' \in SUBSET AuditEvent
  BY <1>2 DEF Save, InsertEvents
<1>8. QED
  BY <1>4, <1>5, <1>6, <1>7

-----------------------------------------------------------------------------
(* Ledger entries.                                                         *)
\* A rising enumeration of some of the first n numbers lists numbers, and
\* lists at least one of a nonempty set.
LEMMA AscendingType ==
    ASSUME NEW n \in Nat, NEW S \in SUBSET (1 .. n), NEW f \in Ascending(S)
    PROVE  /\ Cardinality(S) \in Nat
           /\ f \in Seq(S) /\ Len(f) = Cardinality(S)
           /\ DOMAIN f = 1 .. Cardinality(S)
           /\ S # {} => Cardinality(S) \in 1 .. Cardinality(S)
<1>1. IsFiniteSet(1 .. n)
  BY FS_Interval
<1>2. IsFiniteSet(S)
  BY <1>1, FS_Subset
<1>3. Cardinality(S) \in Nat
  BY <1>2, FS_CardinalityType
<1>4. Cardinality(S) = 0 <=> S = {}
  BY <1>2, FS_EmptySet
<1>5. f \in [1 .. Cardinality(S) -> S]
  BY DEF Ascending
<1>6. f \in Seq(S) /\ Len(f) = Cardinality(S)
  BY <1>3, <1>5, IntervalFunctionIsSeq
<1>7. ASSUME S # {}
      PROVE  Cardinality(S) \in 1 .. Cardinality(S)
  <2>1. Cardinality(S) # 0
    BY <1>4, <1>7
  <2> DEFINE c == Cardinality(S)
  <2>2. c \in Nat /\ c # 0
    BY <1>3, <2>1
  <2> HIDE DEF c
  <2>3. c \in 1 .. c
    BY <2>2
  <2>4. QED
    BY <2>3 DEF c
<1>8. QED
  BY <1>3, <1>5, <1>6, <1>7

\* Each promoted fact has its ledger entry.
LEMMA FactEntriesType ==
    ASSUME NEW assertions \in Seq(Assertion), NEW new,
           \A key \in Keys : new[key] \subseteq EffectiveFact,
           NEW heads \in Ascending(PromotedHeads(assertions, new))
    PROVE  FactEntries(assertions, new, heads) \in Seq(Entry(Payload))
<1> DEFINE S == PromotedHeads(assertions, new)
<1>1. Len(assertions) \in Nat /\ DOMAIN assertions = 1 .. Len(assertions)
  OBVIOUS
<1>2. S \in SUBSET (1 .. Len(assertions))
  BY <1>1 DEF PromotedHeads
<1>3. Cardinality(S) \in Nat /\ heads \in [1 .. Cardinality(S) -> S]
  BY <1>1, <1>2, AscendingType DEF Ascending
<1>4. ASSUME NEW n \in 1 .. Cardinality(S)
      PROVE  FactEntry(CHOOSE f \in new[assertions[heads[n]].key] : TRUE)
                \in Entry(Payload)
  <2>1. heads[n] \in S
    BY <1>3
  <2>2. heads[n] \in DOMAIN assertions /\ new[assertions[heads[n]].key] # {}
    BY <2>1 DEF PromotedHeads
  <2>3. assertions[heads[n]].key \in Keys
    <3>1. assertions[heads[n]] \in Assertion
      BY <2>2
    <3>2. QED
      BY <3>1 DEF Assertion
  <2>4. (CHOOSE f \in new[assertions[heads[n]].key] : TRUE) \in EffectiveFact
    BY <2>2, <2>3
  <2>5. ASSUME NEW f \in EffectiveFact
        PROVE  FactEntry(f) \in Entry(Payload)
    BY DEF FactEntry, Entry, Payload, FactPayload, EffectiveFact, AuditEventType
  <2>6. QED
    BY <2>4, <2>5
<1>5. FactEntries(assertions, new, heads) \in [1 .. Cardinality(S) -> Entry(Payload)]
  BY <1>3, <1>4 DEF FactEntries
<1>6. QED
  BY <1>3, <1>5, IntervalFunctionIsSeq

-----------------------------------------------------------------------------
(* create_run.                                                             *)
\* What promotion proposes for the keys of a sound run are facts.
LEMMA PromoteType ==
    ASSUME NEW assertions \in Seq(Assertion), SourcesAgree(assertions),
           NEW reviews \in Seq(ReviewDecision),
           NEW facts \in [Keys -> Seq(EffectiveFact)],
           \A key \in Keys : \A i \in DOMAIN facts[key] : facts[key][i].version = i,
           NEW op \in Nat
    PROVE  \A key \in Keys :
            Promote(assertions, reviews, facts, op)[key] \subseteq EffectiveFact
<1>1. ASSUME NEW key \in Keys
      PROVE  NewFact(assertions, reviews, facts, op, key) \subseteq EffectiveFact
  <2>1. SUFFICES ASSUME NEW f \in NewFact(assertions, reviews, facts, op, key)
                 PROVE  f \in EffectiveFact
    OBVIOUS
  <2>2. Found(assertions, reviews, facts, op, key, f)
    BY <2>1 DEF Found
  <2>3. QED
    BY <2>2, NewFactSound DEF Continuing
<1>2. QED
  BY <1>1 DEF Promote

\* The run before its first promotion has no facts to be wrong about.
LEMMA NoFactsOK ==
    ASSUME NEW run, run.facts = NoFacts
    PROVE  FactsOK(run)
<1>1. \A key \in Keys : run.facts[key] = <<>>
  BY DEF NoFacts
<1>2. run.facts \in [Keys -> Seq(EffectiveFact)]
  BY DEF NoFacts
<1>3. QED
  BY <1>1, <1>2 DEF FactsOK, RunVersionsContiguous, RunFactsJustified,
                    RunConflictsReviewed

\* An empty ledger verifies.
LEMMA EmptyLedgerVerifies == VerifyAuditChain(<<>>)
<1> DEFINE P == Payload
<1>1. <<>> \in Seq(Entry(P)) /\ <<>> \in Seq(Event(P)) /\ Entries(<<>>) = <<>>
  BY DEF Entries
<1>2. Len(AppendEvents(<<>>, <<>>)) = 0
  BY <1>1, ReplayIsChain
<1>3. AppendEvents(<<>>, <<>>) \in Seq(Event(P))
  BY <1>1, AppendEventsType
<1>4. QED
  BY <1>1, <1>2, <1>3 DEF VerifyAuditChain

\* What create_run saves is a sound run.
LEMMA CreatedRunOK ==
    ASSUME NEW claims \in Seq(Claim),
           NEW heads \in Ascending(PromotedHeads(Assess(claims),
                            Promote(Assess(claims), <<>>, NoFacts, 0)))
    PROVE  RunOK(CreatedRun(Assess(claims), ConflictsOf(claims),
                            Promote(Assess(claims), <<>>, NoFacts, 0), heads))
<1> DEFINE assertions == Assess(claims)
           conflicts == ConflictsOf(claims)
           new == Promote(assertions, <<>>, NoFacts, 0)
           entries == <<IntakeEntry(assertions, conflicts)>>
                        \o FactEntries(assertions, new, heads)
           run == CreatedRun(assertions, conflicts, new, heads)
           base == [assertions |-> assertions, reviews |-> <<>>, facts |-> NoFacts]
<1>1. assertions \in Seq(Assertion) /\ SourcesAgree(assertions)
  BY AssessType, AssessMarksConflicts
<1>2. conflicts \in UNION {[ks -> ConflictStatus] : ks \in SUBSET Keys}
  <2> DEFINE ks == {k \in Keys : InConflict(claims, k)}
  <2>1. ks \in SUBSET Keys /\ conflicts = [key \in ks |-> "open"]
    BY DEF ConflictsOf
  <2> HIDE DEF ks
  <2>2. conflicts \in [ks -> ConflictStatus]
    BY <2>1 DEF ConflictStatus
  <2>3. QED
    BY <2>1, <2>2
<1>3. <<>> \in Seq(ReviewDecision) /\ NoFacts \in [Keys -> Seq(EffectiveFact)]
      /\ \A key \in Keys : DOMAIN NoFacts[key] = {}
  BY DEF NoFacts
<1> HIDE DEF assertions, conflicts
<1>4. \A key \in Keys : new[key] \subseteq EffectiveFact
  BY <1>1, <1>3, PromoteType
<1>5. FactEntries(assertions, new, heads) \in Seq(Entry(Payload))
  <2> HIDE DEF new
  <2>1. heads \in Ascending(PromotedHeads(assertions, new))
    BY DEF assertions, new
  <2>2. QED
    BY <1>1, <1>4, <2>1, FactEntriesType
<1>6. IntakeEntry(assertions, conflicts) \in Entry(Payload)
  <2>1. Len(assertions) \in Nat /\ DOMAIN conflicts \in SUBSET Keys
    BY <1>1, <1>2
  <2>2. QED
    BY <2>1 DEF IntakeEntry, Entry, Payload, IntakePayload, AuditEventType
<1>7. entries \in Seq(Entry(Payload))
  <2> DEFINE first == IntakeEntry(assertions, conflicts)
             rest == FactEntries(assertions, new, heads)
  <2> HIDE DEF first, rest
  <2>1. <<first>> \in Seq(Entry(Payload)) /\ rest \in Seq(Entry(Payload))
    BY <1>5, <1>6 DEF first, rest
  <2>2. <<first>> \o rest \in Seq(Entry(Payload))
    BY <2>1, ConcatProperties
  <2>3. QED
    BY <2>2 DEF first, rest
<1>8. /\ run.assertions = assertions /\ run.conflicts = conflicts
      /\ run.reviews = <<>> /\ run.facts = AddFacts(NoFacts, new)
      /\ run.audit_events = AppendEvents(<<>>, entries)
  BY DEF CreatedRun
<1>9. FactsOK(run)
  <2>1. /\ base.assertions = assertions /\ base.reviews = <<>>
        /\ base.facts = NoFacts
    OBVIOUS
  <2>2. FactsOK(base)
    BY <2>1, NoFactsOK
  <2> HIDE DEF base, run
  <2>3. QED
    BY <1>1, <1>3, <1>8, <2>1, <2>2, PromotionKeepsFactsOK DEF new
<1>10. /\ AppendEvents(<<>>, entries) \in Seq(AuditEvent)
       /\ VerifyAuditChain(AppendEvents(<<>>, entries))
  <2> HIDE DEF entries
  <2>1. <<>> \in Seq(Event(Payload))
    OBVIOUS
  <2>2. QED
    BY <1>7, <2>1, AppendEventsType, AppendKeepsVerified, EmptyLedgerVerifies
       DEF AuditEvent
<1>11. run \in IntakeRun
  <2>1. run.facts \in [Keys -> Seq(EffectiveFact)]
    BY <1>9 DEF FactsOK
  <2> HIDE DEF new, entries
  <2>2. run = [assertions |-> assertions, conflicts |-> conflicts,
               reviews |-> <<>>, facts |-> AddFacts(NoFacts, new),
               audit_events |-> AppendEvents(<<>>, entries)]
    BY DEF CreatedRun, entries
  <2> HIDE DEF run
  <2>3. QED
    BY <1>1, <1>2, <1>3, <1>8, <1>10, <2>1, <2>2 DEF IntakeRun
<1> HIDE DEF new, entries, run
<1>12. RunOK(run)
  BY <1>1, <1>8, <1>9, <1>10, <1>11 DEF RunOK
<1>13. QED
  BY <1>12 DEF run, new, assertions, conflicts

\* CreateRun keeps the invariant.
LEMMA CreateRunStep ==
    ASSUME IInv, CreateRun
    PROVE  IInv'
<1>1. PICK claims \in Intakes :
        \E heads \in Ascending(PromotedHeads(Assess(claims),
                        Promote(Assess(claims), <<>>, NoFacts, 0))) :
            Save(CreatedRun(Assess(claims), ConflictsOf(claims),
                            Promote(Assess(claims), <<>>, NoFacts, 0), heads))
  BY DEF CreateRun
<1>2. PICK heads \in Ascending(PromotedHeads(Assess(claims),
                        Promote(Assess(claims), <<>>, NoFacts, 0))) :
            Save(CreatedRun(Assess(claims), ConflictsOf(claims),
                            Promote(Assess(claims), <<>>, NoFacts, 0), heads))
  BY <1>1
<1> DEFINE run == CreatedRun(Assess(claims), ConflictsOf(claims),
                             Promote(Assess(claims), <<>>, NoFacts, 0), heads)
<1>3. claims \in Seq(Claim)
  BY ServiceAssumption
<1>4. RunOK(run) /\ Save(run)
  BY <1>2, <1>3, CreatedRunOK
<1>5. UNCHANGED <<pending, ops, clock>>
  BY DEF CreateRun
<1> HIDE DEF run
<1>6. /\ row' = run
      /\ review_rows' \in SUBSET ReviewDecision
      /\ fact_rows' \in SUBSET EffectiveFact
      /\ audit_rows' \in SUBSET AuditEvent
  BY <1>4, SaveType DEF IInv, TypeOK, RunOK
<1>7. TypeOK'
  BY <1>4, <1>5, <1>6 DEF IInv, TypeOK, RunOK
<1>8. QED
  BY <1>4, <1>5, <1>6, <1>7 DEF IInv

-----------------------------------------------------------------------------
(* resolve.                                                                *)
\* The decisions of a review: one per candidate of the chosen key.
LEMMA DecisionsType ==
    ASSUME NEW review, ReviewOK(review),
           NEW order \in Ascending(Candidates(review.run.assertions, ChosenKey(review))),
           NEW stamps \in [1 .. Cardinality(Candidates(review.run.assertions,
                                                ChosenKey(review))) -> Times]
    PROVE  /\ Decisions(review, order, stamps) \in Seq(ReviewDecision)
           /\ stamps[Cardinality(Candidates(review.run.assertions,
                                            ChosenKey(review)))] \in Times
<1> DEFINE cs == Candidates(review.run.assertions, ChosenKey(review))
           assertions == review.run.assertions
<1>1. /\ assertions \in Seq(Assertion)
      /\ review.op \in Nat
      /\ review.chosen \in DOMAIN assertions
      /\ review.correction \in Corrections \cup {NoValue}
  BY DEF ReviewOK, Review, RunOK, IntakeRun
<1>2. cs \in SUBSET (1 .. Len(assertions)) /\ cs # {} /\ Len(assertions) \in Nat
  BY <1>1 DEF Candidates, ChosenKey
<1>3. /\ Cardinality(cs) \in Nat
      /\ Cardinality(cs) \in 1 .. Cardinality(cs)
      /\ order \in [1 .. Cardinality(cs) -> cs]
  BY <1>2, AscendingType DEF Ascending
<1>4. ASSUME NEW a \in cs, NEW t \in Times
      PROVE  DecisionFor(review, a, t) \in ReviewDecision
  <2>1. a \in Nat /\ assertions[a] \in Assertion
    BY <1>1, <1>2
  <2>2. Fingerprint(assertions[a]) \in Fingerprints
    BY <2>1 DEF Fingerprint, Fingerprints, Assertion
  <2>3. t \in Nat
    BY DEF Times
  <2>4. review.correction \in Values \cup {NoValue} /\ NoValue \notin Values
    BY <1>1, ServiceAssumption, KernelAssumption
  <2> DEFINE outcome == CASE a # review.chosen -> "reject"
                          [] a = review.chosen /\ review.correction # NoValue -> "correct"
                          [] OTHER -> "approve"
             value == IF a = review.chosen THEN review.correction ELSE NoValue
  <2>5. /\ outcome \in ReviewOutcome /\ value \in Values \cup {NoValue}
        /\ outcome = "correct" <=> value # NoValue
    <3>1. CASE a # review.chosen
      BY <3>1 DEF ReviewOutcome
    <3>2. CASE a = review.chosen /\ review.correction # NoValue
      BY <3>2, <2>4 DEF ReviewOutcome
    <3>3. CASE a = review.chosen /\ review.correction = NoValue
      BY <3>3 DEF ReviewOutcome
    <3>4. QED
      BY <3>1, <3>2, <3>3
  <2>6. DecisionFor(review, a, t) =
            [op |-> review.op, assertion |-> a,
             fingerprint |-> Fingerprint(assertions[a]),
             outcome |-> outcome, corrected_value |-> value, created_at |-> t]
    BY DEF DecisionFor
  <2> HIDE DEF outcome, value
  <2>7. QED
    BY <1>1, <2>1, <2>2, <2>3, <2>5, <2>6 DEF ReviewDecision
<1>5. Decisions(review, order, stamps) \in [1 .. Cardinality(cs) -> ReviewDecision]
  BY <1>3, <1>4 DEF Decisions
<1>6. Decisions(review, order, stamps) \in Seq(ReviewDecision)
  BY <1>3, <1>5, IntervalFunctionIsSeq
<1>7. QED
  BY <1>3, <1>6

\* What resolve saves is a sound run.
LEMMA ReviewedRunOK ==
    ASSUME NEW review, ReviewOK(review),
           NEW decisions \in Seq(ReviewDecision),
           NEW heads \in Ascending(PromotedHeads(review.run.assertions,
                                        Promotion(review, decisions)))
    PROVE  RunOK(ReviewedRun(review, decisions, Promotion(review, decisions), heads))
<1> DEFINE old == review.run
           key == ChosenKey(review)
           new == Promotion(review, decisions)
           recorded == [n \in DOMAIN decisions |-> ReviewEntry(decisions[n], key)]
           promoted == FactEntries(old.assertions, new, heads)
           run == ReviewedRun(review, decisions, new, heads)
<1>1. /\ old \in IntakeRun /\ SourcesAgree(old.assertions) /\ FactsOK(old)
      /\ VerifyAuditChain(old.audit_events)
      /\ review.op \in Nat
  BY DEF ReviewOK, Review, RunOK
<1>2. /\ old.assertions \in Seq(Assertion)
      /\ old.conflicts \in UNION {[ks -> ConflictStatus] : ks \in SUBSET Keys}
      /\ old.reviews \in Seq(ReviewDecision)
      /\ old.facts \in [Keys -> Seq(EffectiveFact)]
      /\ old.audit_events \in Seq(Event(Payload))
  BY <1>1 DEF IntakeRun, AuditEvent
<1>3. key \in Keys
  <2>1. old.assertions[review.chosen] \in Assertion
    BY <1>2 DEF ReviewOK
  <2>2. QED
    BY <2>1 DEF ChosenKey, Assertion
<1>4. /\ run.assertions = old.assertions
      /\ run.conflicts = ResolveConflicts(old.conflicts, key)
      /\ run.reviews = old.reviews \o decisions
      /\ run.facts = AddFacts(old.facts, new)
      /\ run.audit_events = AppendEvents(old.audit_events, recorded \o promoted)
  BY DEF ReviewedRun
<1> HIDE DEF run
<1>5. /\ old.reviews \o decisions \in Seq(ReviewDecision)
      /\ Elements(old.reviews) \subseteq Elements(old.reviews \o decisions)
  <2> DEFINE r == old.reviews
  <2>1. r \in Seq(ReviewDecision)
    BY <1>2
  <2> HIDE DEF r
  <2>2. /\ r \o decisions \in Seq(ReviewDecision)
        /\ Len(r \o decisions) = Len(r) + Len(decisions)
        /\ \A i \in 1 .. Len(r) + Len(decisions) :
            (r \o decisions)[i] =
                IF i <= Len(r) THEN r[i] ELSE decisions[i - Len(r)]
    BY <2>1, ConcatProperties
  <2>3. ASSUME NEW i \in DOMAIN r
        PROVE  i \in DOMAIN (r \o decisions) /\ (r \o decisions)[i] = r[i]
    <3>1. /\ Len(r) \in Nat /\ Len(decisions) \in Nat /\ DOMAIN r = 1 .. Len(r)
          /\ DOMAIN (r \o decisions) = 1 .. Len(r \o decisions)
      BY <2>1, <2>2
    <3>2. i <= Len(r) /\ i \in 1 .. Len(r) + Len(decisions)
      BY <3>1
    <3>3. QED
      BY <2>2, <3>1, <3>2
  <2>4. Elements(r) \subseteq Elements(r \o decisions)
    BY <2>3 DEF Elements
  <2>5. QED
    BY <2>2, <2>4 DEF r
<1>6. \A k \in Keys : new[k] \subseteq EffectiveFact
  BY <1>1, <1>2, <1>5, PromoteType DEF Promotion, FactsOK, RunVersionsContiguous
<1>7. recorded \o promoted \in Seq(Entry(Payload))
  <2>1. ASSUME NEW n \in DOMAIN decisions
        PROVE  ReviewEntry(decisions[n], key) \in Entry(Payload)
    <3>1. decisions[n] \in ReviewDecision
      OBVIOUS
    <3>2. QED
      BY <1>3, <3>1 DEF ReviewEntry, Entry, Payload, ReviewPayload,
                        ReviewDecision, AuditEventType
  <2>2. Len(decisions) \in Nat /\ DOMAIN decisions = 1 .. Len(decisions)
    OBVIOUS
  <2>3. recorded \in [1 .. Len(decisions) -> Entry(Payload)]
    BY <2>1, <2>2
  <2> HIDE DEF recorded, new, key, promoted
  <2>4. recorded \in Seq(Entry(Payload))
    BY <2>2, <2>3, IntervalFunctionIsSeq
  <2>5. promoted \in Seq(Entry(Payload))
    <3>1. heads \in Ascending(PromotedHeads(old.assertions, new))
      BY DEF new
    <3>2. QED
      BY <1>2, <1>6, <3>1, FactEntriesType DEF promoted
  <2>6. QED
    BY <2>4, <2>5, ConcatProperties
<1>8. /\ run.audit_events \in Seq(AuditEvent)
      /\ VerifyAuditChain(run.audit_events)
  <2> DEFINE events == old.audit_events
             entries == recorded \o promoted
  <2>1. /\ events \in Seq(Event(Payload)) /\ VerifyAuditChain(events)
        /\ entries \in Seq(Entry(Payload))
        /\ run.audit_events = AppendEvents(events, entries)
    BY <1>1, <1>2, <1>4, <1>7
  <2> HIDE DEF events, entries
  <2>2. /\ AppendEvents(events, entries) \in Seq(Event(Payload))
        /\ VerifyAuditChain(AppendEvents(events, entries))
    BY <2>1, AppendEventsType, AppendKeepsVerified
  <2>3. QED
    BY <2>1, <2>2 DEF AuditEvent
<1>9. FactsOK(run)
  <2>1. run.facts = AddFacts(old.facts,
                        Promote(old.assertions, run.reviews, old.facts, review.op))
    BY <1>4 DEF Promotion
  <2>2. /\ run.assertions = old.assertions
        /\ run.reviews \in Seq(ReviewDecision)
        /\ Elements(old.reviews) \subseteq Elements(run.reviews)
    BY <1>4, <1>5
  <2>3. QED
    BY <1>1, <1>2, <2>1, <2>2, PromotionKeepsFactsOK
<1>10. run.conflicts \in UNION {[ks -> ConflictStatus] : ks \in SUBSET Keys}
  <2>1. PICK ks \in SUBSET Keys : old.conflicts \in [ks -> ConflictStatus]
    BY <1>2
  <2>2. ResolveConflicts(old.conflicts, key) \in [ks -> ConflictStatus]
    BY <2>1 DEF ResolveConflicts, ConflictStatus
  <2>3. QED
    BY <1>4, <2>1, <2>2
<1>11. run \in IntakeRun
  <2>1. run = [assertions |-> run.assertions, conflicts |-> run.conflicts,
               reviews |-> run.reviews, facts |-> run.facts,
               audit_events |-> run.audit_events]
    BY <1>4 DEF run, ReviewedRun
  <2>2. run.facts \in [Keys -> Seq(EffectiveFact)]
    BY <1>9 DEF FactsOK
  <2>3. /\ run.assertions \in Seq(Assertion)
        /\ run.reviews \in Seq(ReviewDecision)
    BY <1>2, <1>4, <1>5
  <2>4. QED
    BY <1>8, <1>10, <2>1, <2>2, <2>3 DEF IntakeRun
<1>12. RunOK(run)
  BY <1>1, <1>4, <1>8, <1>9, <1>11 DEF RunOK
<1>13. QED
  BY <1>12 DEF run

\* A request reads a sound run and names one of its assertions.
LEMMA ReadRunStep ==
    ASSUME IInv, NEW w \in Workers, ReadRun(w)
    PROVE  IInv'
<1>1. PICK chosen \in DOMAIN row.assertions :
        \E correction \in Corrections \cup {NoValue} :
            pending' = [pending EXCEPT ![w] =
                        [op |-> ops + 1, run |-> row, chosen |-> chosen,
                         correction |-> correction]]
  BY DEF ReadRun
<1>2. PICK correction \in Corrections \cup {NoValue} :
            pending' = [pending EXCEPT ![w] =
                        [op |-> ops + 1, run |-> row, chosen |-> chosen,
                         correction |-> correction]]
  BY <1>1
<1> DEFINE review == [op |-> ops + 1, run |-> row, chosen |-> chosen,
                      correction |-> correction]
<1>3. /\ row # NoRun /\ ops' = ops + 1
      /\ UNCHANGED <<row, review_rows, fact_rows, audit_rows, clock>>
  BY DEF ReadRun
<1>4. TypeOK /\ RunOK(row) /\ row \in IntakeRun /\ ops + 1 \in Nat
  BY <1>3 DEF IInv, TypeOK, RunOK
<1>5. chosen \in Nat
  <2>1. row.assertions \in Seq(Assertion)
    BY <1>4 DEF IntakeRun
  <2>2. QED
    BY <2>1
<1>6. review \in Review /\ review.run = row /\ review.chosen = chosen
  BY <1>4, <1>5 DEF Review
<1>7. ReviewOK(review)
  BY <1>4, <1>6 DEF ReviewOK
<1> HIDE DEF review
<1>8. /\ pending \in [Workers -> Review \cup {Idle}]
      /\ pending' = [pending EXCEPT ![w] = review]
  BY <1>2, <1>4 DEF TypeOK, review
<1>9. TypeOK'
  BY <1>3, <1>4, <1>6, <1>8 DEF TypeOK
<1>10. \A v \in Workers : pending'[v] # Idle => ReviewOK(pending'[v])
  BY <1>7, <1>8 DEF IInv
<1>11. QED
  BY <1>3, <1>4, <1>9, <1>10 DEF IInv

\* The save publishes a sound run, however old the one it was made from.
LEMMA SaveReviewStep ==
    ASSUME IInv, NEW w \in Workers, SaveReview(w)
    PROVE  IInv'
<1> DEFINE review == pending[w]
           cs == Candidates(review.run.assertions, ChosenKey(review))
<1>1. ReviewOK(review) /\ TypeOK
  BY DEF SaveReview, IInv
<1>2. PICK order \in Ascending(cs) :
        \E stamps \in ClockReadings(Cardinality(cs)) :
            LET decisions == Decisions(review, order, stamps)
                new == Promotion(review, decisions)
            IN  /\ \E heads \in Ascending(PromotedHeads(review.run.assertions, new)) :
                        Save(ReviewedRun(review, decisions, new, heads))
                /\ clock' = stamps[Cardinality(cs)]
  BY DEF SaveReview
<1>3. PICK stamps \in ClockReadings(Cardinality(cs)) :
            LET decisions == Decisions(review, order, stamps)
                new == Promotion(review, decisions)
            IN  /\ \E heads \in Ascending(PromotedHeads(review.run.assertions, new)) :
                        Save(ReviewedRun(review, decisions, new, heads))
                /\ clock' = stamps[Cardinality(cs)]
  BY <1>2
<1> DEFINE decisions == Decisions(review, order, stamps)
           new == Promotion(review, decisions)
<1>4. PICK heads \in Ascending(PromotedHeads(review.run.assertions, new)) :
        Save(ReviewedRun(review, decisions, new, heads))
  BY <1>3
<1>5. stamps \in [1 .. Cardinality(cs) -> Times]
  BY DEF ClockReadings
<1>6. decisions \in Seq(ReviewDecision) /\ clock' \in Times
  BY <1>1, <1>3, <1>5, DecisionsType
<1> DEFINE run == ReviewedRun(review, decisions, new, heads)
<1>7. RunOK(run) /\ Save(run)
  <2> HIDE DEF review, decisions
  <2>1. QED
    BY <1>1, <1>4, <1>6, ReviewedRunOK
<1>8. /\ pending' = [pending EXCEPT ![w] = Idle] /\ ops' = ops
  BY DEF SaveReview
<1> HIDE DEF run
<1>9. /\ row' = run
      /\ review_rows' \in SUBSET ReviewDecision
      /\ fact_rows' \in SUBSET EffectiveFact
      /\ audit_rows' \in SUBSET AuditEvent
  BY <1>1, <1>7, SaveType DEF TypeOK, RunOK
<1>10. TypeOK'
  BY <1>1, <1>6, <1>7, <1>8, <1>9 DEF TypeOK, RunOK
<1>11. \A v \in Workers : pending'[v] # Idle => ReviewOK(pending'[v])
  BY <1>1, <1>8 DEF IInv, TypeOK
<1>12. QED
  BY <1>7, <1>9, <1>10, <1>11 DEF IInv

\* Reviews that are given up, one by a locked database or all by a crash,
\* leave nothing behind.
LEMMA AbandonStep ==
    ASSUME IInv, Restart \/ \E w \in Workers : SaveFails(w)
    PROVE  IInv'
<1>1. UNCHANGED <<row, review_rows, fact_rows, audit_rows, ops, clock>>
  BY DEF Restart, SaveFails
<1>2. /\ pending' \in [Workers -> Review \cup {Idle}]
      /\ \A v \in Workers : pending'[v] \in {Idle, pending[v]}
  BY DEF Restart, SaveFails, IInv, TypeOK
<1>3. QED
  BY <1>1, <1>2 DEF IInv, TypeOK

-----------------------------------------------------------------------------
(* The theorems.                                                           *)
\* IInv is inductive.
THEOREM Invariance == Spec => []IInv
<1>1. Init => IInv
  <2>1. SUFFICES ASSUME Init PROVE IInv
    OBVIOUS
  <2>2. 1 \in Times
    BY ServiceAssumption DEF Times
  <2>3. TypeOK
    BY <2>1, <2>2 DEF Init, RepositoryInit, TypeOK
  <2>4. QED
    BY <2>1, <2>3 DEF Init, RepositoryInit, IInv
<1>2. IInv /\ [Next]_vars => IInv'
  <2>1. SUFFICES ASSUME IInv, [Next]_vars PROVE IInv'
    OBVIOUS
  <2>2. CASE CreateRun
    BY <2>1, <2>2, CreateRunStep
  <2>3. ASSUME NEW w \in Workers, Resolve(w) PROVE IInv'
    BY <2>1, <2>3, ReadRunStep, SaveReviewStep, AbandonStep DEF Resolve
  <2>4. CASE Restart
    BY <2>1, <2>4, AbandonStep
  <2>5. CASE UNCHANGED vars
    BY <2>1, <2>5 DEF vars, IInv, TypeOK
  <2>6. QED
    BY <2>1, <2>2, <2>3, <2>4, <2>5 DEF Next
<1>3. QED
  BY <1>1, <1>2, PTL DEF Spec

\* The state keeps its type (IntakeProperties TypeOK).
THEOREM TypeCorrect == Spec => []TypeOK
<1>1. IInv => TypeOK
  BY DEF IInv
<1>2. QED
  BY <1>1, Invariance, PTL

\* Every fact of the run is one the policy accepted without a conflict, or
\* one that a reviewer let through for that very assertion, however reviews
\* overlap and whatever the clock does (promotion.py _select).
THEOREM EveryFactJustified == Spec => []FactsJustified
<1>1. IInv => FactsJustified
  BY DEF IInv, RunOK, FactsOK, FactsJustified
<1>2. QED
  BY <1>1, Invariance, PTL

\* No contradiction between sources becomes a fact before each candidate has
\* been decided on (promotion.py _select, docs/ARCHITECTURE.md:39).
THEOREM NoConflictPromotedUnreviewed == Spec => []ConflictNeedsReview
<1>1. IInv => ConflictNeedsReview
  BY DEF IInv, RunOK, FactsOK, ConflictNeedsReview
<1>2. QED
  BY <1>1, Invariance, PTL

\* Overlapping saves leave no gap and no repeat in the versions of a fact
\* (promotion.py promote).
THEOREM VersionsWithoutGaps == Spec => []VersionsContiguous
<1>1. IInv => VersionsContiguous
  BY DEF IInv, RunOK, FactsOK, VersionsContiguous
<1>2. QED
  BY <1>1, Invariance, PTL

\* The ledger of the saved run verifies, however reviews overlap (audit.py).
THEOREM SavedLedgerVerifies ==
    Spec => [](row # NoRun => VerifyAuditChain(row.audit_events))
<1>1. IInv => (row # NoRun => VerifyAuditChain(row.audit_events))
  BY DEF IInv, RunOK
<1>2. QED
  BY <1>1, Invariance, PTL

-----------------------------------------------------------------------------
(* Settled runs.                                                           *)
\* Everything the candidates and reviews of a run support is effective.
KeySettled(assertions, reviews, facts, key) ==
    \A s \in Select(assertions, reviews, key) : AlreadyEffective(facts[key], s.value)

Settled(run) ==
    \A key \in Keys : KeySettled(run.assertions, run.reviews, run.facts, key)

\* The inductive invariant: IInv, and every run in the row or under review is
\* settled.
SettledInv ==
    /\ IInv
    /\ row # NoRun => Settled(row)
    /\ \A w \in Workers : pending[w] # Idle => Settled(pending[w].run)

-----------------------------------------------------------------------------
(* Promotion settles what it sees, and no more.                            *)
\* A settled key gets no new version from the same reviews.
LEMMA SettledKeyUnchanged ==
    ASSUME NEW assertions, NEW reviews, NEW facts, NEW op, NEW key \in Keys,
           KeySettled(assertions, reviews, facts, key)
    PROVE  /\ NewFact(assertions, reviews, facts, op, key) = {}
           /\ AddFacts(facts, Promote(assertions, reviews, facts, op))[key] = facts[key]
<1>1. NewFact(assertions, reviews, facts, op, key) = {}
  BY DEF NewFact, KeySettled
<1>2. Promote(assertions, reviews, facts, op)[key] = {}
  BY <1>1 DEF Promote
<1>3. QED
  BY <1>1, <1>2 DEF AddFacts

\* After a promotion every key is settled.
LEMMA PromotionSettles ==
    ASSUME NEW assertions \in Seq(Assertion), NEW reviews \in Seq(ReviewDecision),
           NEW facts, NEW S, facts \in [Keys -> Seq(S)], NEW op, NEW key \in Keys
    PROVE  KeySettled(assertions, reviews,
                      AddFacts(facts, Promote(assertions, reviews, facts, op)), key)
<1> DEFINE new == Promote(assertions, reviews, facts, op)
           fresh == NewFact(assertions, reviews, facts, op, key)
           history == facts[key]
<1>1. new[key] = fresh
  BY DEF Promote
<1>2. history \in Seq(S)
  OBVIOUS
<1>3. CASE fresh = {}
  <2>1. AddFacts(facts, new)[key] = history
    BY <1>1, <1>3 DEF AddFacts
  <2>2. \A s \in Select(assertions, reviews, key) : AlreadyEffective(history, s.value)
    BY <1>3 DEF NewFact
  <2>3. QED
    BY <2>1, <2>2 DEF KeySettled
<1>4. CASE fresh # {}
  <2>1. PICK f \in fresh : AddFacts(facts, new)[key] = Append(history, f)
    <3>1. (CHOOSE f \in fresh : TRUE) \in fresh
      BY <1>4
    <3>2. QED
      BY <1>1, <1>4, <3>1 DEF AddFacts
  <2>2. PICK t \in Select(assertions, reviews, key) : f.value = t.value
    BY DEF NewFact
  <2>3. ASSUME NEW s \in Select(assertions, reviews, key)
        PROVE  AlreadyEffective(Append(history, f), s.value)
    <3>1. s.value = f.value
      BY <2>2, SelectUnique
    <3>2. /\ Append(history, f) # <<>>
          /\ Append(history, f)[Len(Append(history, f))] = f
      BY <1>2, AppendedIsLast
    <3>3. QED
      BY <3>1, <3>2 DEF AlreadyEffective
  <2>4. QED
    BY <2>1, <2>3 DEF KeySettled
<1>5. QED
  BY <1>3, <1>4

-----------------------------------------------------------------------------
(* The steps of the service.                                               *)
\* create_run saves a settled run.
LEMMA CreatedRunSettled ==
    ASSUME NEW claims \in Seq(Claim), NEW heads
    PROVE  Settled(CreatedRun(Assess(claims), ConflictsOf(claims),
                              Promote(Assess(claims), <<>>, NoFacts, 0), heads))
<1> DEFINE assertions == Assess(claims)
           facts == AddFacts(NoFacts, Promote(assertions, <<>>, NoFacts, 0))
           run == CreatedRun(assertions, ConflictsOf(claims),
                             Promote(assertions, <<>>, NoFacts, 0), heads)
<1>1. run.assertions = assertions /\ run.reviews = <<>> /\ run.facts = facts
  BY DEF CreatedRun
<1>2. /\ assertions \in Seq(Assertion) /\ <<>> \in Seq(ReviewDecision)
      /\ NoFacts \in [Keys -> Seq(EffectiveFact)]
  BY AssessType DEF NoFacts
<1> HIDE DEF assertions
<1>3. \A key \in Keys : KeySettled(assertions, <<>>, facts, key)
  BY <1>2, PromotionSettles
<1> HIDE DEF run, facts
<1>4. Settled(run)
  BY <1>1, <1>3 DEF Settled
<1>5. QED
  BY <1>4 DEF run, assertions

\* So does resolve.
LEMMA ReviewedRunSettled ==
    ASSUME NEW review, ReviewOK(review),
           NEW decisions \in Seq(ReviewDecision), NEW heads
    PROVE  Settled(ReviewedRun(review, decisions, Promotion(review, decisions), heads))
<1> DEFINE old == review.run
           reviews == old.reviews \o decisions
           facts == AddFacts(old.facts,
                        Promote(old.assertions, reviews, old.facts, review.op))
           run == ReviewedRun(review, decisions, Promotion(review, decisions), heads)
<1>1. /\ run.assertions = old.assertions
      /\ run.reviews = reviews
      /\ run.facts = facts
  BY DEF ReviewedRun, Promotion
<1>2. /\ old.assertions \in Seq(Assertion)
      /\ old.reviews \in Seq(ReviewDecision)
      /\ old.facts \in [Keys -> Seq(EffectiveFact)]
  BY DEF ReviewOK, RunOK, IntakeRun
<1>3. reviews \in Seq(ReviewDecision)
  BY <1>2, ConcatProperties
<1> HIDE DEF reviews, old
<1>4. \A key \in Keys : KeySettled(old.assertions, reviews, facts, key)
  BY <1>2, <1>3, PromotionSettles
<1> HIDE DEF run, facts
<1>5. Settled(run)
  BY <1>1, <1>4 DEF Settled
<1>6. QED
  BY <1>5 DEF run

\* The keys that were decided on.
DecidedKeys(run) ==
    {run.assertions[run.reviews[i].assertion].key : i \in DOMAIN run.reviews}

TouchesOneKey(run, review) ==
    LET key == ChosenKey(review)
        old == review.run
    IN  /\ key \in Keys
        /\ \A k \in Keys \ {key} : run.facts[k] = old.facts[k]
        /\ \/ run.facts[key] = old.facts[key]
           \/ \E f : run.facts[key] = Append(old.facts[key], f)
        /\ DecidedKeys(run) = DecidedKeys(old) \cup {key}

\* A review of a settled run leaves the facts of every other key alone, and
\* adds at most one version to its own.
LEMMA ReviewTouchesOneKey ==
    ASSUME NEW review, ReviewOK(review), Settled(review.run),
           NEW order \in Ascending(Candidates(review.run.assertions, ChosenKey(review))),
           NEW stamps \in [1 .. Cardinality(Candidates(review.run.assertions,
                                                ChosenKey(review))) -> Times],
           NEW heads
    PROVE  TouchesOneKey(ReviewedRun(review, Decisions(review, order, stamps),
                Promotion(review, Decisions(review, order, stamps)), heads), review)
<1> DEFINE run == ReviewedRun(review, Decisions(review, order, stamps),
                    Promotion(review, Decisions(review, order, stamps)), heads)
           old == review.run
           key == ChosenKey(review)
           cs == Candidates(old.assertions, key)
           decisions == Decisions(review, order, stamps)
           all == old.reviews \o decisions
           new == Promotion(review, decisions)
<1>1. /\ old.assertions \in Seq(Assertion)
      /\ old.reviews \in Seq(ReviewDecision)
      /\ old.facts \in [Keys -> Seq(EffectiveFact)]
      /\ review.chosen \in DOMAIN old.assertions
  BY DEF ReviewOK, RunOK, IntakeRun
<1>2. key \in Keys /\ review.chosen \in cs
  <2>1. old.assertions[review.chosen] \in Assertion
    BY <1>1
  <2>2. QED
    BY <1>1, <2>1 DEF ChosenKey, Assertion, Candidates
<1>3. decisions \in Seq(ReviewDecision)
  BY DecisionsType
<1>4. /\ run.assertions = old.assertions
      /\ run.reviews = all
      /\ run.facts = AddFacts(old.facts, new)
      /\ new = Promote(old.assertions, all, old.facts, review.op)
  BY DEF ReviewedRun, Promotion
<1>5. /\ Cardinality(cs) \in Nat
      /\ 1 \in 1 .. Cardinality(cs)
      /\ order \in [1 .. Cardinality(cs) -> cs]
  <2>1. cs \in SUBSET (1 .. Len(old.assertions)) /\ Len(old.assertions) \in Nat
    BY <1>1 DEF Candidates
  <2>2. /\ Cardinality(cs) \in Nat
        /\ Cardinality(cs) \in 1 .. Cardinality(cs)
        /\ order \in [1 .. Cardinality(cs) -> cs]
    <3> HIDE DEF cs, old, key
    <3>1. order \in Ascending(cs)
      BY DEF cs, old, key
    <3>2. cs # {}
      BY <1>2
    <3>3. QED
      BY <2>1, <3>1, <3>2, AscendingType DEF Ascending
  <2>3. QED
    BY <2>2
<1>6. /\ DOMAIN decisions = 1 .. Cardinality(cs)
      /\ \A n \in DOMAIN decisions : decisions[n].assertion \in cs
  BY <1>5 DEF Decisions, DecisionFor
<1> HIDE DEF decisions, new, all
<1>7. ASSUME NEW k \in Keys \ {key}
      PROVE  run.facts[k] = old.facts[k]
  <2>1. \A n \in DOMAIN decisions : decisions[n].assertion \notin Candidates(old.assertions, k)
    BY <1>6 DEF Candidates
  <2>2. Select(old.assertions, all, k) = Select(old.assertions, old.reviews, k)
    BY <1>1, <1>3, <2>1, SelectUnaffected DEF all
  <2>3. KeySettled(old.assertions, all, old.facts, k)
    BY <2>2 DEF Settled, KeySettled
  <2> HIDE DEF old, key
  <2>4. QED
    BY <1>4, <2>3, SettledKeyUnchanged
<1>8. \/ run.facts[key] = old.facts[key]
      \/ \E f : run.facts[key] = Append(old.facts[key], f)
  <2> DEFINE facts == old.facts
  <2> HIDE DEF old, key, facts
  <2>1. \/ AddFacts(facts, new)[key] = facts[key]
        \/ \E f \in new[key] : AddFacts(facts, new)[key] = Append(facts[key], f)
    BY <1>2, AddFactsGrows
  <2>2. QED
    BY <1>4, <2>1 DEF facts
<1>9. {run.assertions[run.reviews[i].assertion].key : i \in DOMAIN run.reviews}
        = {old.assertions[old.reviews[i].assertion].key : i \in DOMAIN old.reviews}
            \cup {key}
  <2> DEFINE KeyOf(d) == old.assertions[d.assertion].key
             r == old.reviews
  <2>1. /\ Len(r) \in Nat /\ Len(decisions) \in Nat
        /\ DOMAIN r = 1 .. Len(r) /\ DOMAIN decisions = 1 .. Len(decisions)
        /\ DOMAIN all = 1 .. Len(r) + Len(decisions)
        /\ \A i \in 1 .. Len(r) + Len(decisions) :
            all[i] = IF i <= Len(r) THEN r[i] ELSE decisions[i - Len(r)]
    BY <1>1, <1>3, ConcatProperties DEF all
  <2>2. \A n \in DOMAIN decisions : KeyOf(decisions[n]) = key
    BY <1>6 DEF Candidates
  <2> HIDE DEF KeyOf, r
  <2>3. \A i \in DOMAIN all : KeyOf(all[i]) \in {KeyOf(r[j]) : j \in DOMAIN r} \cup {key}
    <3>1. SUFFICES ASSUME NEW i \in DOMAIN all
                   PROVE  \/ i \in DOMAIN r /\ all[i] = r[i]
                          \/ \E n \in DOMAIN decisions : all[i] = decisions[n]
      BY <2>2
    <3>2. CASE i <= Len(r)
      BY <2>1, <3>2
    <3>3. CASE ~(i <= Len(r))
      <4>1. i - Len(r) \in DOMAIN decisions /\ all[i] = decisions[i - Len(r)]
        BY <2>1, <3>3
      <4>2. QED
        BY <4>1
    <3>4. QED
      BY <3>2, <3>3
  <2>4. \A j \in DOMAIN r : j \in DOMAIN all /\ all[j] = r[j]
    BY <2>1
  <2>5. \E i \in DOMAIN all : KeyOf(all[i]) = key
    <3>1. 1 \in DOMAIN decisions
      BY <1>5, <1>6
    <3>2. Len(r) + 1 \in DOMAIN all /\ all[Len(r) + 1] = decisions[1]
      BY <2>1, <3>1
    <3>3. QED
      BY <2>2, <3>1, <3>2
  <2>6. {KeyOf(all[i]) : i \in DOMAIN all} = {KeyOf(r[j]) : j \in DOMAIN r} \cup {key}
    BY <2>3, <2>4, <2>5
  <2>7. QED
    BY <1>4, <2>6 DEF KeyOf, r
<1>10. QED
  <2> HIDE DEF run
  <2>1. DecidedKeys(run) = DecidedKeys(old) \cup {key}
    BY <1>9 DEF DecidedKeys
  <2>2. TouchesOneKey(run, review)
    BY <1>2, <1>7, <1>8, <2>1 DEF TouchesOneKey
  <2>3. QED
    BY <2>2 DEF run

\* A request that arrives takes the row along.
LEMMA ReviewOfRow ==
    ASSUME IInv, NEW w \in Workers, ReadRun(w)
    PROVE  \E review \in Review :
                pending' = [pending EXCEPT ![w] = review] /\ review.run = row
<1>1. PICK chosen \in DOMAIN row.assertions :
        \E correction \in Corrections \cup {NoValue} :
            pending' = [pending EXCEPT ![w] =
                        [op |-> ops + 1, run |-> row, chosen |-> chosen,
                         correction |-> correction]]
  BY DEF ReadRun
<1>2. PICK correction \in Corrections \cup {NoValue} :
            pending' = [pending EXCEPT ![w] =
                        [op |-> ops + 1, run |-> row, chosen |-> chosen,
                         correction |-> correction]]
  BY <1>1
<1> DEFINE review == [op |-> ops + 1, run |-> row, chosen |-> chosen,
                      correction |-> correction]
<1>3. row # NoRun
  BY DEF ReadRun
<1>4. row \in IntakeRun /\ ops + 1 \in Nat
  BY <1>3 DEF IInv, TypeOK, RunOK
<1>5. chosen \in Nat
  <2>1. row.assertions \in Seq(Assertion)
    BY <1>4 DEF IntakeRun
  <2>2. QED
    BY <2>1
<1>6. review \in Review /\ review.run = row
  BY <1>4, <1>5 DEF Review
<1> HIDE DEF review
<1>7. pending' = [pending EXCEPT ![w] = review]
  BY <1>2 DEF review
<1>8. QED
  BY <1>6, <1>7

\* The invariant of a step that saves a run.
LEMMA SaveIsSettled ==
    ASSUME SettledInv, [Next]_vars, IInv'
    PROVE  SettledInv'
<1>1. CASE CreateRun
  <2>1. PICK claims \in Intakes :
            \E heads : row' = CreatedRun(Assess(claims), ConflictsOf(claims),
                                Promote(Assess(claims), <<>>, NoFacts, 0), heads)
    BY <1>1 DEF CreateRun, Save
  <2>2. Settled(row')
    BY <2>1, CreatedRunSettled, ServiceAssumption
  <2>3. QED
    BY <1>1, <2>2 DEF SettledInv, CreateRun
<1>2. ASSUME NEW w \in Workers, ReadRun(w)
      PROVE  SettledInv'
  <2>1. PICK review \in Review : pending' = [pending EXCEPT ![w] = review] /\ review.run = row
    BY <1>2, ReviewOfRow DEF SettledInv
  <2>2. \A v \in Workers : pending'[v] # Idle => Settled(pending'[v].run)
    BY <1>2, <2>1 DEF SettledInv, ReadRun, IInv, TypeOK
  <2>3. QED
    BY <1>2, <2>2 DEF SettledInv, ReadRun
<1>3. ASSUME NEW w \in Workers, SaveReview(w)
      PROVE  SettledInv'
  <2> DEFINE review == pending[w]
             cs == Candidates(review.run.assertions, ChosenKey(review))
  <2>1. PICK order \in Ascending(cs) :
            \E stamps \in ClockReadings(Cardinality(cs)) :
                \E heads : row' = ReviewedRun(review, Decisions(review, order, stamps),
                            Promotion(review, Decisions(review, order, stamps)), heads)
    BY <1>3 DEF SaveReview, Save
  <2>2. PICK stamps \in ClockReadings(Cardinality(cs)) :
                \E heads : row' = ReviewedRun(review, Decisions(review, order, stamps),
                            Promotion(review, Decisions(review, order, stamps)), heads)
    BY <2>1
  <2>3. ReviewOK(review)
    BY <1>3 DEF SettledInv, IInv, SaveReview
  <2>4. stamps \in [1 .. Cardinality(cs) -> Times]
    BY DEF ClockReadings
  <2>5. Decisions(review, order, stamps) \in Seq(ReviewDecision)
    BY <2>3, <2>4, DecisionsType
  <2>6. Settled(row')
    BY <2>2, <2>3, <2>5, ReviewedRunSettled
  <2>7. pending' = [pending EXCEPT ![w] = Idle]
    BY <1>3 DEF SaveReview
  <2>8. \A v \in Workers : pending'[v] # Idle => Settled(pending'[v].run)
    BY <2>7 DEF SettledInv, IInv, TypeOK
  <2>9. QED
    BY <2>6, <2>8 DEF SettledInv
<1>4. CASE Restart \/ \E w \in Workers : SaveFails(w)
  <2>1. row' = row /\ \A v \in Workers : pending'[v] \in {Idle, pending[v]}
    BY <1>4 DEF Restart, SaveFails, SettledInv, IInv, TypeOK
  <2>2. QED
    BY <2>1 DEF SettledInv
<1>5. CASE UNCHANGED vars
  BY <1>5 DEF vars, SettledInv
<1>6. QED
  BY <1>1, <1>2, <1>3, <1>4, <1>5 DEF Next, Resolve

-----------------------------------------------------------------------------
(* The refinement.                                                         *)
\* What a run is read as.
Projection(run) ==
    [contested |-> {key \in Keys : IsConflicted(run.assertions, key)},
     decided |-> DecidedKeys(run),
     facts |-> run.facts]

LEMMA OntologyOfRun ==
    /\ OntologyOf(NoRun) = {}
    /\ \A run : run # NoRun => OntologyOf(run) = {Projection(run)}
    /\ DraftOf(Idle) = {}
    /\ \A review : review # Idle => DraftOf(review) = OntologyOf(review.run)
BY DEF OntologyOf, Projection, DecidedKeys, DraftOf

\* create_run publishes an intake.
LEMMA CreateRunPublishes ==
    ASSUME CreateRun
    PROVE  Ontology!Publish
<1>1. PICK claims \in Intakes :
        \E heads \in Ascending(PromotedHeads(Assess(claims),
                        Promote(Assess(claims), <<>>, NoFacts, 0))) :
            row' = CreatedRun(Assess(claims), ConflictsOf(claims),
                              Promote(Assess(claims), <<>>, NoFacts, 0), heads)
  BY DEF CreateRun, Save
<1>2. PICK heads \in Ascending(PromotedHeads(Assess(claims),
                        Promote(Assess(claims), <<>>, NoFacts, 0))) :
            row' = CreatedRun(Assess(claims), ConflictsOf(claims),
                              Promote(Assess(claims), <<>>, NoFacts, 0), heads)
  BY <1>1
<1> DEFINE new == Promote(Assess(claims), <<>>, NoFacts, 0)
           run == CreatedRun(Assess(claims), ConflictsOf(claims), new, heads)
<1>3. RunOK(run) /\ run # NoRun
  <2>1. RunOK(run)
    BY CreatedRunOK, ServiceAssumption
  <2>2. QED
    BY <2>1, AbsenceAssumption DEF RunOK
<1>4. run.reviews = <<>> /\ run.facts = AddFacts(NoFacts, new)
  BY DEF CreatedRun
<1>5. row = NoRun /\ row' = run /\ pending' = pending
  BY <1>2 DEF CreateRun
<1> HIDE DEF new, run
<1>6. ASSUME NEW key \in Keys
      PROVE  /\ Len(run.facts[key]) <= 1
             /\ IsConflicted(run.assertions, key) => run.facts[key] = <<>>
  <2>1. NoFacts[key] = <<>>
    BY DEF NoFacts
  <2>2. run.facts[key] = <<>> \/ \E f : run.facts[key] = Append(<<>>, f)
    BY <1>4, <2>1, AddFactsGrows
  <2>3. Len(run.facts[key]) <= 1
    <3>1. ASSUME NEW f
          PROVE  Len(Append(<<>>, f)) = 1
      <4>1. <<>> \in Seq({f}) /\ f \in {f}
        OBVIOUS
      <4>2. QED
        BY <4>1, AppendProperties
    <3>2. Len(<<>>) = 0
      OBVIOUS
    <3>3. CASE run.facts[key] = <<>>
      BY <3>2, <3>3
    <3>4. CASE \E f : run.facts[key] = Append(<<>>, f)
      <4>1. PICK f : run.facts[key] = Append(<<>>, f)
        BY <3>4
      <4>2. Len(run.facts[key]) = 1
        BY <4>1, <3>1
      <4>3. QED
        BY <4>2
    <3>5. QED
      BY <2>2, <3>3, <3>4
  <2>4. ASSUME IsConflicted(run.assertions, key), run.facts[key] # <<>>
        PROVE  FALSE
    <3>1. PICK a \in Candidates(run.assertions, key) : TRUE
      BY <2>4 DEF IsConflicted
    <3>2. \E d \in Elements(run.reviews) : IsReviewOf(run.assertions, d, a)
      BY <1>3, <2>4, <3>1 DEF RunOK, FactsOK, RunConflictsReviewed
    <3>3. QED
      BY <1>4, <3>2 DEF Elements
  <2>5. QED
    BY <2>3, <2>4
<1>7. Ontology!IsIntake(Projection(run))
  BY <1>4, <1>6 DEF Ontology!IsIntake, Projection, DecidedKeys
<1>8. /\ OntologyOf(row) = {}
      /\ OntologyOf(row') = {Projection(run)}
      /\ [w \in Workers |-> DraftOf(pending'[w])] = [w \in Workers |-> DraftOf(pending[w])]
  BY <1>3, <1>5, OntologyOfRun
<1>9. QED
  BY <1>7, <1>8 DEF Ontology!Publish

\* A request takes what is published as its draft.
LEMMA ReadRunReads ==
    ASSUME SettledInv, NEW w \in Workers, ReadRun(w), IInv'
    PROVE  Ontology!Read(w)
<1>1. PICK review \in Review : pending' = [pending EXCEPT ![w] = review] /\ review.run = row
  BY ReviewOfRow DEF SettledInv
<1>2. pending[w] = Idle /\ row # NoRun /\ row' = row /\ pending \in [Workers -> Review \cup {Idle}]
  BY DEF ReadRun, SettledInv, IInv, TypeOK
<1>3. review # Idle
  BY AbsenceAssumption
<1>4. /\ DraftOf(pending[w]) = {}
      /\ DraftOf(review) = OntologyOf(row)
      /\ OntologyOf(row) # {}
  BY <1>1, <1>2, <1>3, OntologyOfRun
<1> DEFINE drafts == [v \in Workers |-> DraftOf(pending[v])]
<1>5. [v \in Workers |-> DraftOf(pending'[v])] = [drafts EXCEPT ![w] = OntologyOf(row)]
  BY <1>1, <1>2, <1>4
<1>6. OntologyOf(row') = OntologyOf(row)
  BY <1>2
<1>7. QED
  BY <1>4, <1>5, <1>6 DEF Ontology!Read

\* A save publishes the draft, amended in the one key the review is about.
LEMMA SaveReviewAmends ==
    ASSUME SettledInv, NEW w \in Workers, SaveReview(w)
    PROVE  Ontology!Amend(w)
<1> DEFINE review == pending[w]
           cs == Candidates(review.run.assertions, ChosenKey(review))
           decisions(order, stamps) == Decisions(review, order, stamps)
           saved(order, stamps, heads) ==
                ReviewedRun(review, decisions(order, stamps),
                            Promotion(review, decisions(order, stamps)), heads)
<1>1. PICK order \in Ascending(cs) :
        \E stamps \in ClockReadings(Cardinality(cs)) :
            \E heads \in Ascending(PromotedHeads(review.run.assertions,
                            Promotion(review, decisions(order, stamps)))) :
                row' = saved(order, stamps, heads)
  BY DEF SaveReview, Save
<1>2. PICK stamps \in ClockReadings(Cardinality(cs)) :
            \E heads \in Ascending(PromotedHeads(review.run.assertions,
                            Promotion(review, decisions(order, stamps)))) :
                row' = saved(order, stamps, heads)
  BY <1>1
<1>3. PICK heads \in Ascending(PromotedHeads(review.run.assertions,
                            Promotion(review, decisions(order, stamps)))) :
                row' = saved(order, stamps, heads)
  BY <1>2
<1>4. /\ review # Idle /\ ReviewOK(review) /\ Settled(review.run)
      /\ pending' = [pending EXCEPT ![w] = Idle]
      /\ pending \in [Workers -> Review \cup {Idle}]
  BY DEF SaveReview, SettledInv, IInv, TypeOK
<1>5. stamps \in [1 .. Cardinality(cs) -> Times]
  BY DEF ClockReadings
<1>6. RunOK(row') /\ row' # NoRun /\ review.run # NoRun
  <2>1. decisions(order, stamps) \in Seq(ReviewDecision)
    BY <1>4, <1>5, DecisionsType
  <2>2. RunOK(row')
    BY <1>3, <1>4, <2>1, ReviewedRunOK
  <2>3. QED
    BY <1>4, <2>2, AbsenceAssumption DEF RunOK, ReviewOK
<1> DEFINE key == ChosenKey(review)
           run == row'
           old == review.run
<1>7. /\ key \in Keys
      /\ \A k \in Keys \ {key} : run.facts[k] = old.facts[k]
      /\ \/ run.facts[key] = old.facts[key]
         \/ \E f : run.facts[key] = Append(old.facts[key], f)
      /\ Projection(run).decided = Projection(old).decided \cup {key}
  <2>1. order \in Ascending(Candidates(review.run.assertions, ChosenKey(review)))
        /\ stamps \in [1 .. Cardinality(Candidates(review.run.assertions,
                                               ChosenKey(review))) -> Times]
    BY <1>5
  <2>2. TouchesOneKey(saved(order, stamps, heads), review)
    <3> HIDE DEF review
    <3>1. QED
      BY <1>4, <2>1, ReviewTouchesOneKey
  <2> HIDE DEF saved
  <2>3. TouchesOneKey(row', review)
    BY <1>3, <2>2
  <2>4. QED
    BY <2>3 DEF TouchesOneKey, Projection
<1>8. run.assertions = old.assertions
  BY <1>3 DEF ReviewedRun
<1>9. \/ run.facts[key] = old.facts[key]
      \/ run.facts[key] = Append(old.facts[key], run.facts[key][Len(run.facts[key])])
  <2>1. old.facts[key] \in Seq(EffectiveFact)
    BY <1>4, <1>7 DEF ReviewOK, RunOK, IntakeRun
  <2> HIDE DEF run, old, key
  <2>2. QED
    BY <1>7, <2>1, AppendedIsLast
<1>10. Ontology!Amends(Projection(run), Projection(old), key)
  BY <1>7, <1>8, <1>9 DEF Ontology!Amends, Projection
<1>11. /\ OntologyOf(run) = {Projection(run)}
       /\ DraftOf(pending[w]) = {Projection(old)}
       /\ DraftOf(Idle) = {}
  BY <1>4, <1>6, OntologyOfRun
<1>12. [v \in Workers |-> DraftOf(pending'[v])]
        = [[v \in Workers |-> DraftOf(pending[v])] EXCEPT ![w] = {}]
  BY <1>4, <1>11
<1>13. QED
  <2> HIDE DEF run, old, key
  <2>1. \E new \in OntologyOf(run), draft \in DraftOf(pending[w]), k \in Keys :
            OntologyOf(run) = {new} /\ Ontology!Amends(new, draft, k)
    BY <1>7, <1>10, <1>11
  <2>2. [v \in Workers |-> DraftOf(pending[v])][w] = DraftOf(pending[w])
    OBVIOUS
  <2>3. QED
    BY <1>12, <2>1, <2>2 DEF Ontology!Amend, run

\* What is given up or lost takes drafts with it and publishes nothing.
LEMMA FailuresAbandon ==
    ASSUME SettledInv, Restart \/ \E w \in Workers : SaveFails(w)
    PROVE  Ontology!Abandon
<1> DEFINE lost == {w \in Workers : pending'[w] = Idle}
<1>1. /\ row' = row
      /\ \A w \in Workers : pending'[w] \in {Idle, pending[w]}
  BY DEF Restart, SaveFails, SettledInv, IInv, TypeOK
<1>2. \A w \in Workers : DraftOf(pending'[w]) = IF w \in lost THEN {} ELSE DraftOf(pending[w])
  BY <1>1, OntologyOfRun
<1>3. lost \in SUBSET Workers
  OBVIOUS
<1> HIDE DEF lost
<1>4. [w \in Workers |-> DraftOf(pending'[w])] =
        [w \in Workers |-> IF w \in lost THEN {} ELSE [v \in Workers |-> DraftOf(pending[v])][w]]
  BY <1>2
<1>5. OntologyOf(row') = OntologyOf(row)
  BY <1>1
<1>6. QED
  BY <1>3, <1>4, <1>5 DEF Ontology!Abandon

-----------------------------------------------------------------------------
(* The theorems.                                                           *)
\* SettledInv is inductive.
THEOREM SettledInvariance == Spec => []SettledInv
<1>1. Init => (row = NoRun /\ \A w \in Workers : pending[w] = Idle)
  BY DEF Init, RepositoryInit
<1>2. Init /\ IInv => SettledInv
  BY <1>1 DEF SettledInv
<1>3. SettledInv /\ IInv' /\ [Next]_vars => SettledInv'
  BY SaveIsSettled
<1>4. QED
  BY <1>2, <1>3, Invariance, PTL DEF Spec

\* Nothing that is due is ever held back: promoting a saved run once more
\* finds no new fact, whatever overlapped and whatever the clock did
\* (promotion.py promote, existing_facts).
THEOREM NothingDueHeldBack == Spec => []PromotionSettled
<1>1. SettledInv => PromotionSettled
  BY SettledKeyUnchanged DEF SettledInv, Settled, PromotionSettled
<1>2. QED
  BY <1>1, SettledInvariance, PTL

\* The service implements the reader's promise: a review amends the one key
\* it is about by at most one version, of the run it has read (service.py
\* resolve, promotion.py promote).
THEOREM ServiceImplementsOntology == Spec => ImplementsOntology
<1>1. Init => Ontology!Init
  <2>1. SUFFICES ASSUME Init PROVE Ontology!Init
    OBVIOUS
  <2>2. OntologyOf(row) = {} /\ \A w \in Workers : DraftOf(pending[w]) = {}
    BY <2>1, OntologyOfRun DEF Init, RepositoryInit
  <2>3. QED
    BY <2>2 DEF Ontology!Init
<1>2. SettledInv /\ IInv' /\ [Next]_vars => [Ontology!Next]_(Ontology!vars)
  <2>1. SUFFICES ASSUME SettledInv, IInv', [Next]_vars
                 PROVE  [Ontology!Next]_(Ontology!vars)
    OBVIOUS
  <2>2. CASE CreateRun
    BY <2>2, CreateRunPublishes DEF Ontology!Next
  <2>3. ASSUME NEW w \in Workers, ReadRun(w) PROVE Ontology!Next
    BY <2>1, <2>3, ReadRunReads DEF Ontology!Next
  <2>4. ASSUME NEW w \in Workers, SaveReview(w) PROVE Ontology!Next
    BY <2>1, <2>4, SaveReviewAmends DEF Ontology!Next
  <2>5. CASE Restart \/ \E w \in Workers : SaveFails(w)
    BY <2>1, <2>5, FailuresAbandon DEF Ontology!Next
  <2>6. CASE UNCHANGED vars
    BY <2>6 DEF vars, Ontology!vars
  <2>7. QED
    BY <2>1, <2>2, <2>3, <2>4, <2>5, <2>6 DEF Next, Resolve
<1>3. QED
  BY <1>1, <1>2, SettledInvariance, Invariance, PTL
     DEF Spec, ImplementsOntology, Ontology!Spec
-----------------------------------------------------------------------------
(* The reader's promise is enough for the trust boundary.                  *)

\* Amending one key keeps the boundary.
LEMMA AmendsKeepsContestedDecided ==
    ASSUME NEW new, NEW draft, NEW key \in Keys,
           Ontology!ContestedDecided(draft), Ontology!Amends(new, draft, key)
    PROVE  Ontology!ContestedDecided(new)
<1>1. ASSUME NEW k \in new.contested \cap Keys, new.facts[k] # <<>>
      PROVE  k \in new.decided
  <2>1. CASE k = key
    BY <2>1 DEF Ontology!Amends
  <2>2. CASE k # key
    BY <1>1, <2>2 DEF Ontology!Amends, Ontology!ContestedDecided
  <2>3. QED
    BY <2>1, <2>2
<1>2. QED
  BY <1>1 DEF Ontology!ContestedDecided

\* However reviewers overlap, a contested key has no fact before someone has
\* decided on it (docs/ARCHITECTURE.md:39): whatever keeps the reader's
\* promise keeps the trust boundary, in what is published and in every draft.
THEOREM ContestedKeysAwaitDecisions ==
    Ontology!Spec => []Ontology!ContestedAwaitsDecision
<1> DEFINE ontology == OntologyOf(row)
           drafts == [w \in Workers |-> DraftOf(pending[w])]
<1>1. Ontology!Init => Ontology!ContestedAwaitsDecision
  BY DEF Ontology!Init, Ontology!ContestedAwaitsDecision
<1>2. Ontology!ContestedAwaitsDecision /\ [Ontology!Next]_(Ontology!vars)
        => Ontology!ContestedAwaitsDecision'
  <2>1. SUFFICES ASSUME Ontology!ContestedAwaitsDecision,
                        [Ontology!Next]_(Ontology!vars)
                 PROVE  Ontology!ContestedAwaitsDecision'
    OBVIOUS
  <2>2. CASE Ontology!Publish
    <3>1. PICK new \in ontology' : ontology' = {new} /\ Ontology!IsIntake(new)
      BY <2>2 DEF Ontology!Publish
    <3>2. Ontology!ContestedDecided(new)
      BY <3>1 DEF Ontology!IsIntake, Ontology!ContestedDecided
    <3>3. QED
      BY <2>1, <2>2, <3>1, <3>2 DEF Ontology!Publish, Ontology!ContestedAwaitsDecision
  <2>3. ASSUME NEW r \in Workers, Ontology!Read(r)
        PROVE  Ontology!ContestedAwaitsDecision'
    <3>1. \A q \in Workers : drafts'[q] \subseteq drafts[q] \cup ontology
      BY <2>3 DEF Ontology!Read
    <3>2. QED
      BY <2>1, <2>3, <3>1 DEF Ontology!Read, Ontology!ContestedAwaitsDecision
  <2>4. ASSUME NEW r \in Workers, Ontology!Amend(r)
        PROVE  Ontology!ContestedAwaitsDecision'
    <3>1. PICK new \in ontology' : \E draft \in drafts[r], key \in Keys :
                ontology' = {new} /\ Ontology!Amends(new, draft, key)
      BY <2>4 DEF Ontology!Amend
    <3>2. Ontology!ContestedDecided(new)
      BY <2>1, <3>1, AmendsKeepsContestedDecided DEF Ontology!ContestedAwaitsDecision
    <3>3. \A q \in Workers : drafts'[q] \subseteq drafts[q]
      BY <2>4 DEF Ontology!Amend
    <3>4. QED
      BY <2>1, <3>1, <3>2, <3>3 DEF Ontology!ContestedAwaitsDecision
  <2>5. CASE Ontology!Abandon
    <3>1. \A q \in Workers : drafts'[q] \subseteq drafts[q]
      BY <2>5 DEF Ontology!Abandon
    <3>2. QED
      BY <2>1, <2>5, <3>1 DEF Ontology!Abandon, Ontology!ContestedAwaitsDecision
  <2>6. CASE UNCHANGED (Ontology!vars)
    BY <2>1, <2>6 DEF Ontology!vars, Ontology!ContestedAwaitsDecision
  <2>7. QED
    BY <2>1, <2>2, <2>3, <2>4, <2>5, <2>6 DEF Ontology!Next
<1>3. QED
  BY <1>1, <1>2, PTL DEF Ontology!Spec

\* So does the service: in its run, and in every run a review is at work on, a
\* contested key has no fact before someone has decided on it.
THEOREM ServiceKeepsTheBoundary == Spec => []Ontology!ContestedAwaitsDecision
BY ServiceImplementsOntology, ContestedKeysAwaitDecisions, PTL DEF ImplementsOntology
=============================================================================
