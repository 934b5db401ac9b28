------------------------- MODULE ApplicationProofs -------------------------
(***************************************************************************)
(* What the compiler returns, for every profile and all documents, and     *)
(* what the benchmark reports, for every number of cases.                  *)
(***************************************************************************)
EXTENDS CompilerLoop, Benchmark, SequenceTheorems, FiniteSetTheorems, TLAPS

\* What the rules can make of the documents.
Derivable == UNION {ClaimsOf(Rules[n], documents) : n \in DOMAIN Rules}

\* The inductive invariant: behind next, a rule either is missing or has left
\* its claim, and the claims are in step with the rules while none is missing.
LoopInv ==
    /\ documents \in DocumentInputs
    /\ outcome \in {"compiling", "returned", "raised", "broken"}
    /\ next \in 1 .. Len(Rules) + 1
    /\ \A m \in missing :
        /\ m[1] \in 1 .. next - 1
        /\ ClaimsOf(Rules[m[1]], documents) = {}
    /\ \A m, k \in missing : m[1] = k[1] => m = k
    /\ \A n \in 1 .. next - 1 :
        ClaimsOf(Rules[n], documents) = {} => \E m \in missing : m[1] = n
    /\ compiled \in Seq(Derivable)
    /\ missing = {} =>
        /\ Len(compiled) = next - 1
        /\ \A n \in 1 .. next - 1 : compiled[n] \in ClaimsOf(Rules[n], documents)
    /\ outcome = "returned" => missing = {} /\ next = Len(Rules) + 1
    /\ outcome = "raised" => missing # {} /\ next = Len(Rules) + 1
    /\ outcome = "broken" => next \in DOMAIN Rules /\ ClaimsOf(Rules[next], documents) = {}

-----------------------------------------------------------------------------
(* Evidence.                                                               *)

\* The block that is found is one of those the rule may be read from.
LEMMA EvidenceIsReading ==
    ASSUME NEW n \in DOMAIN Rules, NEW block \in EvidenceOf(Rules[n], documents)
    PROVE  /\ Extracted(Rules[n], documents)
           /\ block \in Readings(n)
<1> DEFINE rule == Rules[n]
           blocks == documents[rule.source]
           matching == {i \in DOMAIN blocks : Matches(rule, blocks[i])}
<1>1. Extracted(rule, documents) /\ block \in FindEvidence(rule, blocks)
  BY DEF EvidenceOf
<1>2. PICK i \in matching : /\ block = blocks[i]
                            /\ \A j \in matching \ {i} : SearchedBefore(rule, blocks, i, j)
  BY <1>1 DEF FindEvidence
<1>3. block \in BlocksOf(rule) /\ Matches(rule, block)
  BY <1>2 DEF BlocksOf
<1>4. ASSUME NEW b \in BlocksOf(rule), Matches(rule, b), b.page = rule.page
      PROVE  block.page = rule.page
  <2>1. PICK j \in DOMAIN blocks : b = blocks[j]
    BY DEF BlocksOf
  <2>2. j \in matching
    BY <1>4, <2>1
  <2>3. QED
    BY <1>2, <1>4, <2>1, <2>2 DEF SearchedBefore
<1>5. QED
  BY <1>1, <1>3, <1>4 DEF Readings

\* One block at most is found.
LEMMA EvidenceUnique ==
    ASSUME NEW n \in DOMAIN Rules,
           NEW b \in EvidenceOf(Rules[n], documents),
           NEW c \in EvidenceOf(Rules[n], documents),
           documents \in DocumentInputs
    PROVE  b = c
<1> DEFINE rule == Rules[n]
           blocks == documents[rule.source]
           matching == {i \in DOMAIN blocks : Matches(rule, blocks[i])}
<1>1. /\ b \in FindEvidence(rule, blocks) /\ c \in FindEvidence(rule, blocks)
      /\ DOMAIN blocks \subseteq Nat
  <2>1. rule \in AssertionRule
    BY ProfileAssumption
  <2>2. QED
    BY <2>1, DocumentAssumption DEF EvidenceOf, Extracted, AssertionRule
<1>2. PICK i \in matching : /\ b = blocks[i]
                            /\ \A j \in matching \ {i} : SearchedBefore(rule, blocks, i, j)
  BY <1>1 DEF FindEvidence
<1>3. PICK j \in matching : /\ c = blocks[j]
                            /\ \A k \in matching \ {j} : SearchedBefore(rule, blocks, j, k)
  BY <1>1 DEF FindEvidence
<1>4. i \in Nat /\ j \in Nat
  BY <1>1
<1>5. i # j => SearchedBefore(rule, blocks, i, j) /\ SearchedBefore(rule, blocks, j, i)
  BY <1>2, <1>3
<1>6. i = j
  BY <1>4, <1>5 DEF SearchedBefore
<1>7. QED
  BY <1>2, <1>3, <1>6

\* A conversion has one result at most.
LEMMA CoerceUnique ==
    ASSUME NEW raw, NEW type \in ValueType,
           NEW v \in Coerce(raw, type), NEW w \in Coerce(raw, type)
    PROVE  v = w
<1>1. CASE type = "string"
  BY <1>1 DEF Coerce
<1>2. CASE type = "integer"
  <2>1. v \in CoerceInteger(raw) /\ w \in CoerceInteger(raw)
    BY <1>2 DEF Coerce
  <2>2. QED
    BY <2>1 DEF CoerceInteger
<1>3. CASE type = "boolean"
  <2>1. v \in CoerceBoolean(raw) /\ w \in CoerceBoolean(raw)
    BY <1>3 DEF Coerce
  <2>2. PICK a \in BOOLEAN : v = JsonBoolean[a] /\ Lower[raw] \in IF a THEN TrueValues ELSE FalseValues
    BY <2>1 DEF CoerceBoolean
  <2>3. PICK b \in BOOLEAN : w = JsonBoolean[b] /\ Lower[raw] \in IF b THEN TrueValues ELSE FalseValues
    BY <2>1 DEF CoerceBoolean
  <2>4. TrueValues \cap FalseValues = {}
    BY DEF TrueValues, FalseValues
  <2>5. a = b
    BY <2>2, <2>3, <2>4
  <2>6. QED
    BY <2>2, <2>3, <2>5
<1>4. QED
  BY <1>1, <1>2, <1>3 DEF ValueType

\* A group captures one thing at most in the block that is found.
LEMMA CapturedUnique ==
    ASSUME NEW n \in DOMAIN Rules, documents \in DocumentInputs,
           NEW block \in EvidenceOf(Rules[n], documents)
    PROVE  \A r, s \in Captured(Rules[n], block) : r = s
<1> DEFINE rule == Rules[n]
<1>1. rule \in AssertionRule
  BY ProfileAssumption
<1>2. PICK i \in DOMAIN documents[rule.source] : block = documents[rule.source][i]
  BY EvidenceIsReading DEF EvidenceOf, FindEvidence
<1>3. Extracted(rule, documents)
  BY DEF EvidenceOf
<1>4. block.text \in DOMAIN Captures[rule.pattern]
  BY <1>1, <1>2, <1>3, DocumentAssumption DEF Extracted, AssertionRule
<1>5. QED
  BY <1>1, <1>4, ProfileAssumption DEF AssertionRule, Captured

\* A rule makes one claim at most.
LEMMA ClaimsUnique ==
    ASSUME NEW n \in DOMAIN Rules, documents \in DocumentInputs,
           NEW c \in ClaimsOf(Rules[n], documents),
           NEW d \in ClaimsOf(Rules[n], documents)
    PROVE  c = d
<1> DEFINE rule == Rules[n]
<1>1. rule \in AssertionRule
  BY ProfileAssumption
<1>2. PICK block \in EvidenceOf(rule, documents) : c \in ClaimsFrom(rule, block)
  BY DEF ClaimsOf
<1>3. d \in ClaimsFrom(rule, block)
  <2>1. PICK b \in EvidenceOf(rule, documents) : d \in ClaimsFrom(rule, b)
    BY DEF ClaimsOf
  <2>2. b = block
    BY <1>2, <2>1, EvidenceUnique
  <2>3. QED
    BY <2>1, <2>2
<1>4. \A r, s \in Captured(rule, block) : r = s
  BY <1>2, CapturedUnique
<1> DEFINE values == ValuesRead(rule, block)
<1>5. ASSUME NEW v \in values, NEW w \in values
      PROVE  v = w
  <2>1. PICK r \in Captured(rule, block) : v \in Coerce(r, rule.value_type)
    BY DEF ValuesRead
  <2>2. PICK s \in Captured(rule, block) : w \in Coerce(s, rule.value_type)
    BY DEF ValuesRead
  <2>3. r = s
    BY <1>4
  <2>4. rule.value_type \in ValueType
    BY <1>1 DEF AssertionRule
  <2>5. QED
    BY <2>1, <2>2, <2>3, <2>4, CoerceUnique
<1>6. PICK v \in values : c = [key |-> rule.key, value |-> v, evidence |-> rule.source,
        confidence |-> ConfidenceOf(rule, block), authority |-> rule.authority]
  BY <1>2 DEF ClaimsFrom
<1>7. PICK w \in values : d = [key |-> rule.key, value |-> w, evidence |-> rule.source,
        confidence |-> ConfidenceOf(rule, block), authority |-> rule.authority]
  BY <1>3 DEF ClaimsFrom
<1>8. v = w
  BY <1>5
<1>9. QED
  BY <1>6, <1>7, <1>8

-----------------------------------------------------------------------------
(* The loop.                                                               *)

LEMMA InitInv == Init => LoopInv
<1>1. SUFFICES ASSUME Init PROVE LoopInv
  OBVIOUS
<1>2. Len(Rules) \in Nat
  BY ProfileAssumption
<1>3. compiled \in Seq(Derivable) /\ Len(compiled) = 0
  BY <1>1 DEF Init
<1>4. QED
  BY <1>1, <1>2, <1>3 DEF Init, LoopInv

\* A rule that has no claim is missing.
LEMMA MissStep ==
    ASSUME LoopInv, CompileRule, NEW reason, Miss(reason),
           ClaimsOf(Rules[next], documents) = {}
    PROVE  LoopInv'
<1>1. /\ next' = next + 1 /\ next \in DOMAIN Rules /\ outcome = "compiling"
      /\ documents' = documents /\ outcome' = outcome /\ compiled' = compiled
      /\ missing' = missing \cup {<<next, reason>>}
  BY DEF CompileRule, Miss
<1>2. Len(Rules) \in Nat /\ DOMAIN Rules = 1 .. Len(Rules)
  BY ProfileAssumption
<1>3. next \in Nat /\ next' \in 1 .. Len(Rules) + 1
  BY <1>1, <1>2
<1>4. \A m \in missing : m[1] \in 1 .. next - 1 /\ ClaimsOf(Rules[m[1]], documents) = {}
  BY DEF LoopInv
<1>5. \A m \in missing' : /\ m[1] \in 1 .. next' - 1
                          /\ ClaimsOf(Rules[m[1]], documents) = {}
  <2>1. /\ 1 .. next - 1 \subseteq 1 .. next' - 1
        /\ next \in 1 .. next' - 1
    BY <1>1, <1>3
  <2>2. <<next, reason>>[1] = next
    OBVIOUS
  <2>3. QED
    BY <1>1, <1>4, <2>1, <2>2
<1>6. \A m, k \in missing' : m[1] = k[1] => m = k
  <2>1. \A m \in missing : m[1] # next
    BY <1>3, <1>4
  <2>2. \A m, k \in missing : m[1] = k[1] => m = k
    BY DEF LoopInv
  <2>3. QED
    BY <1>1, <2>1, <2>2
<1>7. \A n \in 1 .. next' - 1 :
        ClaimsOf(Rules[n], documents) = {} => \E m \in missing' : m[1] = n
  <2>1. \A n \in 1 .. next - 1 :
            ClaimsOf(Rules[n], documents) = {} => \E m \in missing : m[1] = n
    BY DEF LoopInv
  <2>2. <<next, reason>> \in missing' /\ <<next, reason>>[1] = next
    BY <1>1
  <2>3. \A n \in 1 .. next' - 1 : n \in 1 .. next - 1 \/ n = next
    BY <1>1, <1>3
  <2>4. QED
    BY <1>1, <2>1, <2>2, <2>3
<1>8. missing' # {}
  BY <1>1
<1>9. compiled' \in Seq(Derivable)'
  BY <1>1 DEF LoopInv, Derivable
<1>10. QED
  BY <1>1, <1>3, <1>5, <1>6, <1>7, <1>8, <1>9 DEF LoopInv

\* A rule that has a claim leaves it.
LEMMA CompilesStep ==
    ASSUME LoopInv, CompileRule, Compiles(Rules[next])
    PROVE  LoopInv'
<1>1. /\ next' = next + 1 /\ next \in DOMAIN Rules /\ outcome = "compiling"
      /\ documents' = documents /\ outcome' = outcome /\ missing' = missing
  BY DEF CompileRule, Compiles
<1>2. PICK claim \in ClaimsOf(Rules[next], documents) : compiled' = Append(compiled, claim)
  BY DEF Compiles
<1>3. Len(Rules) \in Nat /\ DOMAIN Rules = 1 .. Len(Rules)
  BY ProfileAssumption
<1>4. next \in Nat /\ next' \in 1 .. Len(Rules) + 1
  BY <1>1, <1>3
<1>5. compiled \in Seq(Derivable) /\ claim \in Derivable
  BY <1>1, <1>2 DEF LoopInv, Derivable
<1>6. /\ compiled' \in Seq(Derivable)
      /\ Len(compiled') = Len(compiled) + 1
      /\ compiled'[Len(compiled) + 1] = claim
      /\ \A n \in 1 .. Len(compiled) : compiled'[n] = compiled[n]
  BY <1>2, <1>5, AppendProperties
<1>7. ASSUME missing' = {}
      PROVE  /\ Len(compiled') = next' - 1
             /\ \A n \in 1 .. next' - 1 : compiled'[n] \in ClaimsOf(Rules[n], documents)
  <2>1. /\ Len(compiled) = next - 1
        /\ \A n \in 1 .. next - 1 : compiled[n] \in ClaimsOf(Rules[n], documents)
    BY <1>1, <1>7 DEF LoopInv
  <2>2. \A n \in 1 .. next' - 1 : n \in 1 .. next - 1 \/ n = next
    BY <1>1, <1>4
  <2>3. QED
    BY <1>1, <1>2, <1>4, <1>6, <2>1, <2>2
<1>8. \A m \in missing' : /\ m[1] \in 1 .. next' - 1
                          /\ ClaimsOf(Rules[m[1]], documents) = {}
  <2>1. \A m \in missing : m[1] \in 1 .. next - 1 /\ ClaimsOf(Rules[m[1]], documents) = {}
    BY DEF LoopInv
  <2>2. 1 .. next - 1 \subseteq 1 .. next' - 1
    BY <1>1, <1>4
  <2>3. QED
    BY <1>1, <2>1, <2>2
<1>9. \A n \in 1 .. next' - 1 :
        ClaimsOf(Rules[n], documents) = {} => \E m \in missing' : m[1] = n
  <2>1. \A n \in 1 .. next - 1 :
            ClaimsOf(Rules[n], documents) = {} => \E m \in missing : m[1] = n
    BY DEF LoopInv
  <2>2. \A n \in 1 .. next' - 1 : n \in 1 .. next - 1 \/ n = next
    BY <1>1, <1>4
  <2>3. QED
    BY <1>1, <1>2, <2>1, <2>2
<1>10. compiled' \in Seq(Derivable)'
  BY <1>1, <1>6 DEF Derivable
<1>11. QED
  BY <1>1, <1>4, <1>7, <1>8, <1>9, <1>10 DEF LoopInv

LEMMA FinishStep ==
    ASSUME LoopInv, Finish
    PROVE  LoopInv'
<1>1. Len(Rules) \in Nat /\ DOMAIN Rules = 1 .. Len(Rules)
  BY ProfileAssumption
<1>2. next = Len(Rules) + 1
  BY <1>1 DEF LoopInv, Finish
<1>3. /\ documents' = documents /\ next' = next /\ compiled' = compiled /\ missing' = missing
      /\ outcome' = IF missing = {} THEN "returned" ELSE "raised"
  BY DEF Finish
<1>4. Derivable' = Derivable
  BY <1>3 DEF Derivable
<1>5. QED
  BY <1>2, <1>3, <1>4 DEF LoopInv

\* A rule whose evidence breaks the loop has no claim.
LEMMA BreakStep ==
    ASSUME LoopInv, Break
    PROVE  LoopInv'
<1>1. /\ next \in DOMAIN Rules /\ outcome = "compiling" /\ outcome' = "broken"
      /\ documents' = documents /\ next' = next /\ compiled' = compiled /\ missing' = missing
  BY DEF Break
<1> DEFINE rule == Rules[next]
<1>2. PICK block \in EvidenceOf(rule, documents) : Breaks(rule, block)
  BY DEF Break
<1>3. \A b \in EvidenceOf(rule, documents) : b = block
  BY <1>1, <1>2, EvidenceUnique DEF LoopInv
<1>4. ClaimsFrom(rule, block) = {}
  <2>1. CASE NoGroup \in Captured(rule, block)
    <3>1. \A r, s \in Captured(rule, block) : r = s
      BY <1>1, <1>2, CapturedUnique DEF LoopInv
    <3>2. Captured(rule, block) \ {NoGroup} = {}
      BY <2>1, <3>1
    <3>3. ValuesRead(rule, block) = {}
      BY <3>2 DEF ValuesRead
    <3>4. QED
      BY <3>3 DEF ClaimsFrom
  <2>2. CASE ~Quotable(rule, block)
    BY <2>2 DEF ClaimsFrom
  <2>3. QED
    BY <1>2, <2>1, <2>2 DEF Breaks
<1>5. ClaimsOf(rule, documents) = {}
  BY <1>3, <1>4 DEF ClaimsOf
<1>6. Derivable' = Derivable
  BY <1>1 DEF Derivable
<1>7. QED
  BY <1>1, <1>5, <1>6 DEF LoopInv

\* LoopInv is inductive.
THEOREM LoopInvariance == Spec => []LoopInv
<1>1. Init => LoopInv
  BY InitInv
<1>2. LoopInv /\ [Next]_vars => LoopInv'
  <2>1. SUFFICES ASSUME LoopInv, [Next]_vars PROVE LoopInv'
    OBVIOUS
  <2>2. CASE CompileRule
    <3>1. ASSUME SourceMissing(Rules[next]) PROVE LoopInv'
      <4>1. ClaimsOf(Rules[next], documents) = {}
        BY <3>1 DEF SourceMissing, ClaimsOf, EvidenceOf
      <4>2. QED
        BY <2>1, <2>2, <3>1, <4>1, MissStep DEF SourceMissing
    <3>2. ASSUME PatternMissing(Rules[next]) PROVE LoopInv'
      <4>1. ClaimsOf(Rules[next], documents) = {}
        BY <3>2 DEF PatternMissing, ClaimsOf
      <4>2. QED
        BY <2>1, <2>2, <3>2, <4>1, MissStep DEF PatternMissing
    <3>3. ASSUME CoercionFails(Rules[next]) PROVE LoopInv'
      BY <2>1, <2>2, <3>3, MissStep DEF CoercionFails
    <3>4. QED
      BY <2>1, <2>2, <3>1, <3>2, <3>3, CompilesStep DEF CompileRule
  <2>3. CASE Finish
    BY <2>1, <2>3, FinishStep
  <2>4. CASE Break
    BY <2>1, <2>4, BreakStep
  <2>5. CASE UNCHANGED vars
    <3>1. Derivable' = Derivable
      BY <2>5 DEF vars, Derivable
    <3>2. QED
      BY <2>1, <2>5, <3>1 DEF vars, LoopInv
  <2>6. QED
    BY <2>1, <2>2, <2>3, <2>4, <2>5 DEF Next
<1>3. QED
  BY <1>1, <1>2, PTL DEF Spec

\* What is returned: each rule's claim, at its place.
LEMMA ReturnedClaims ==
    ASSUME LoopInv, outcome = "returned", NEW n \in DOMAIN Rules
    PROVE  \E block \in Readings(n) :
                /\ compiled[n] \in ClaimsFrom(Rules[n], block)
                /\ block.confidence \in Percent \cup {NoConfidence}
<1>1. compiled[n] \in ClaimsOf(Rules[n], documents)
  <2>1. Len(Rules) \in Nat /\ DOMAIN Rules = 1 .. Len(Rules)
    BY ProfileAssumption
  <2>2. n \in 1 .. next - 1
    BY <2>1 DEF LoopInv
  <2>3. QED
    BY <2>2 DEF LoopInv
<1>2. PICK block \in EvidenceOf(Rules[n], documents) : compiled[n] \in ClaimsFrom(Rules[n], block)
  BY <1>1 DEF ClaimsOf
<1>3. block \in Readings(n) /\ Extracted(Rules[n], documents)
  BY <1>2, EvidenceIsReading
<1>4. block.confidence \in Percent \cup {NoConfidence}
  <2>1. PICK i \in DOMAIN documents[Rules[n].source] : block = documents[Rules[n].source][i]
    BY <1>2 DEF EvidenceOf, FindEvidence
  <2>2. Rules[n].source \in Artifacts
    <3>1. Rules[n] \in AssertionRule
      BY ProfileAssumption
    <3>2. QED
      BY <3>1 DEF AssertionRule
  <2>3. documents \in DocumentInputs /\ documents[Rules[n].source] # NotExtracted
    BY <1>3 DEF LoopInv, Extracted
  <2>4. \A j \in DOMAIN documents[Rules[n].source] :
            documents[Rules[n].source][j].confidence \in Percent \cup {NoConfidence}
    BY <2>2, <2>3, DocumentAssumption
  <2>5. QED
    BY <2>1, <2>4
<1>5. QED
  BY <1>2, <1>3, <1>4

-----------------------------------------------------------------------------
(* The theorems.                                                           *)

\* No claim is manufactured: each is read from a block of its source, on the
\* declared page when a block there matches (compiler.py _find_evidence).
THEOREM NothingManufactured == Spec => []ClaimsAreRead
<1>1. LoopInv => ClaimsAreRead
  BY ReturnedClaims DEF ClaimsAreRead
<1>2. QED
  BY <1>1, LoopInvariance, PTL

\* Compilation is all or nothing (compiler.py compile).
THEOREM CompilationIsAllOrNothing == Spec => []AllOrNothing
<1>1. ASSUME LoopInv, outcome = "returned"
      PROVE  {compiled} = Compile(documents)
  <2> DEFINE claims == [n \in DOMAIN Rules |->
                CHOOSE claim \in ClaimsOf(Rules[n], documents) : TRUE]
  <2>1. Len(Rules) \in Nat /\ DOMAIN Rules = 1 .. Len(Rules)
    BY ProfileAssumption
  <2>2. /\ Len(compiled) = Len(Rules) /\ compiled \in Seq(Derivable)
        /\ documents \in DocumentInputs
        /\ \A n \in DOMAIN Rules : compiled[n] \in ClaimsOf(Rules[n], documents)
    BY <1>1, <2>1 DEF LoopInv
  <2>3. \A n \in DOMAIN Rules : compiled[n] = claims[n]
    <3>1. SUFFICES ASSUME NEW n \in DOMAIN Rules
                   PROVE  compiled[n] = CHOOSE claim \in ClaimsOf(Rules[n], documents) : TRUE
      OBVIOUS
    <3>2. compiled[n] \in ClaimsOf(Rules[n], documents)
      BY <2>2
    <3>3. (CHOOSE claim \in ClaimsOf(Rules[n], documents) : TRUE)
                \in ClaimsOf(Rules[n], documents)
      BY <3>2
    <3>4. QED
      BY <2>2, <3>2, <3>3, ClaimsUnique
  <2>4. compiled = claims
    BY <2>1, <2>2, <2>3
  <2>5. ~ \E n \in DOMAIN Rules : ClaimsOf(Rules[n], documents) = {}
    BY <2>2
  <2>6. QED
    BY <2>4, <2>5 DEF Compile
<1>2. ASSUME LoopInv, outcome = "raised"
      PROVE  /\ {m[1] : m \in missing} =
                    {n \in DOMAIN Rules : ClaimsOf(Rules[n], documents) = {}}
             /\ \A m, k \in missing : m[1] = k[1] => m = k
             /\ missing # {}
  <2>1. Len(Rules) \in Nat /\ DOMAIN Rules = 1 .. Len(Rules)
    BY ProfileAssumption
  <2>2. 1 .. next - 1 = DOMAIN Rules
    BY <1>2, <2>1 DEF LoopInv
  <2>3. /\ \A m \in missing : m[1] \in DOMAIN Rules /\ ClaimsOf(Rules[m[1]], documents) = {}
        /\ \A n \in DOMAIN Rules :
                ClaimsOf(Rules[n], documents) = {} => \E m \in missing : m[1] = n
    BY <1>2, <2>2 DEF LoopInv
  <2>4. {m[1] : m \in missing} = {n \in DOMAIN Rules : ClaimsOf(Rules[n], documents) = {}}
    BY <2>3
  <2>5. QED
    BY <1>2, <2>4 DEF LoopInv
<1>3. ASSUME LoopInv, outcome = "broken"
      PROVE  Compile(documents) = {}
  <2>1. next \in DOMAIN Rules /\ ClaimsOf(Rules[next], documents) = {}
    BY <1>3 DEF LoopInv
  <2>2. QED
    BY <2>1 DEF Compile
<1>4. LoopInv => AllOrNothing
  BY <1>1, <1>2, <1>3 DEF AllOrNothing
<1>5. QED
  BY <1>4, LoopInvariance, PTL

\* What the trust policy accepts without a reviewer was read as surely as the
\* policy asks for (compiler.py compile, policies.py assess).
THEOREM AutoAcceptanceIsWellRead == Spec => []AcceptedIsWellRead
<1>1. ASSUME LoopInv, outcome = "returned", NEW n \in DOMAIN Rules,
             Assess(compiled)[n].status = "accepted"
      PROVE  /\ Rules[n].confidence >= AutoAcceptConfidence
             /\ \E block \in Readings(n) :
                /\ compiled[n].value \in {claim.value : claim \in ClaimsFrom(Rules[n], block)}
                /\ block.confidence # NoConfidence =>
                        block.confidence >= AutoAcceptConfidence
  <2>1. PICK block \in Readings(n) :
            /\ compiled[n] \in ClaimsFrom(Rules[n], block)
            /\ block.confidence \in Percent \cup {NoConfidence}
    BY <1>1, ReturnedClaims
  <2>2. compiled[n].confidence = ConfidenceOf(Rules[n], block)
    BY <2>1 DEF ClaimsFrom
  <2>3. n \in DOMAIN compiled
    <3>1. Len(Rules) \in Nat /\ DOMAIN Rules = 1 .. Len(Rules)
      BY ProfileAssumption
    <3>2. QED
      BY <1>1, <3>1 DEF LoopInv
  <2>4. AssessedStatus(compiled, n) = "accepted"
    BY <1>1, <2>3 DEF Assess
  <2>5. MeetsAutoAcceptance(compiled[n])
    BY <2>4 DEF AssessedStatus
  <2>6. ConfidenceOf(Rules[n], block) >= AutoAcceptConfidence
    BY <2>2, <2>5 DEF MeetsAutoAcceptance
  <2>7. Rules[n].confidence \in Nat /\ AutoAcceptConfidence \in Nat
    <3>1. Rules[n] \in AssertionRule
      BY ProfileAssumption
    <3>2. QED
      BY <3>1, KernelAssumption DEF AssertionRule, Percent
  <2>8. /\ Rules[n].confidence >= AutoAcceptConfidence
        /\ block.confidence # NoConfidence => block.confidence >= AutoAcceptConfidence
    BY <2>1, <2>6, <2>7 DEF ConfidenceOf, Percent
  <2>9. QED
    BY <2>1, <2>8
<1>2. LoopInv => AcceptedIsWellRead
  BY <1>1 DEF AcceptedIsWellRead
<1>3. QED
  BY <1>2, LoopInvariance, PTL

-----------------------------------------------------------------------------
(* Values and what they mean.                                              *)

\* A capture of the block behind a rule is one that a reader has a meaning for,
\* and its conversion is the claim's value.
LEMMA ClaimBehind ==
    ASSUME LoopInv, outcome = "returned", NEW n \in DOMAIN Rules
    PROVE  \E block \in EvidenceOf(Rules[n], documents) :
            \E r \in Captures[Rules[n].pattern][block.text] :
                /\ r \in DOMAIN Means
                /\ compiled[n].value \in Coerce(r, Rules[n].value_type)
<1> DEFINE rule == Rules[n]
<1>1. rule \in AssertionRule
  BY ProfileAssumption
<1>2. compiled[n] \in ClaimsOf(rule, documents)
  <2>1. Len(Rules) \in Nat /\ DOMAIN Rules = 1 .. Len(Rules)
    BY ProfileAssumption
  <2>2. n \in 1 .. next - 1
    BY <2>1 DEF LoopInv
  <2>3. QED
    BY <2>2 DEF LoopInv
<1>3. PICK block \in EvidenceOf(rule, documents) : compiled[n] \in ClaimsFrom(rule, block)
  BY <1>2 DEF ClaimsOf
<1>4. PICK r \in Captures[rule.pattern][block.text] \ {NoGroup} :
        compiled[n].value \in Coerce(r, rule.value_type)
  BY <1>3 DEF ClaimsFrom, ValuesRead, Captured
<1>5. block.text \in DOMAIN Captures[rule.pattern]
  <2>1. PICK i \in DOMAIN documents[rule.source] : block = documents[rule.source][i]
    BY <1>3 DEF EvidenceOf, FindEvidence
  <2>2. Extracted(rule, documents) /\ documents \in DocumentInputs
    BY <1>3 DEF EvidenceOf, LoopInv
  <2>3. QED
    BY <1>1, <2>1, <2>2, DocumentAssumption DEF Extracted, AssertionRule
<1>6. rule.pattern \in DOMAIN Captures
  BY <1>1 DEF AssertionRule
<1>7. Captures[rule.pattern][block.text] \ {NoGroup} \subseteq DOMAIN Means
  BY <1>5, <1>6, MeaningAssumption
<1>8. QED
  BY <1>3, <1>4, <1>7

\* An integer's value is the JSON text of the number that the capture states.
LEMMA IntegerIsNumberStated ==
    ASSUME NEW r, NEW v \in CoerceInteger(r)
    PROVE  StatesNumber(r) /\ v = JsonInteger[NumberStated(r)]
BY DEF CoerceInteger, StatesNumber, NumberStated

\* A truth value's is that of the list the capture is in.
LEMMA BooleanIsTruthStated ==
    ASSUME NEW r, NEW v \in CoerceBoolean(r)
    PROVE  /\ StatesTruth(r)
           /\ Lower[r] \in TrueValues => v = JsonBoolean[TRUE]
           /\ Lower[r] \notin TrueValues => v = JsonBoolean[FALSE]
<1>1. PICK b \in BOOLEAN : v = JsonBoolean[b] /\ Lower[r] \in IF b THEN TrueValues ELSE FalseValues
  BY DEF CoerceBoolean
<1>2. TrueValues \cap FalseValues = {}
  BY DEF TrueValues, FalseValues
<1>3. CASE b = TRUE
  BY <1>1, <1>3 DEF StatesTruth
<1>4. CASE b = FALSE
  BY <1>1, <1>2, <1>4 DEF StatesTruth
<1>5. QED
  BY <1>3, <1>4

\* Two values of one type are equal when their captures mean the same.
LEMMA ValuesAreMeanings ==
    ASSUME NEW type \in {"integer", "boolean"},
           NEW r \in DOMAIN Means, NEW s \in DOMAIN Means,
           NEW v \in Coerce(r, type), NEW w \in Coerce(s, type)
    PROVE  v = w <=> Means[r] = Means[s]
<1>1. CASE type = "integer"
  <2>1. v \in CoerceInteger(r) /\ w \in CoerceInteger(s)
    BY <1>1 DEF Coerce
  <2>2. /\ StatesNumber(r) /\ v = JsonInteger[NumberStated(r)]
        /\ StatesNumber(s) /\ w = JsonInteger[NumberStated(s)]
    BY <2>1, IntegerIsNumberStated
  <2>3. NumberStated(r) \in DOMAIN JsonInteger /\ NumberStated(s) \in DOMAIN JsonInteger
    BY <2>2, MeaningAssumption
  <2>4. v = w <=> NumberStated(r) = NumberStated(s)
    BY <2>2, <2>3, MeaningAssumption
  <2>5. Means[r] = Means[s] <=> NumberStated(r) = NumberStated(s)
    BY <2>2, MeaningAssumption
  <2>6. QED
    BY <2>4, <2>5
<1>2. CASE type = "boolean"
  <2>1. v \in CoerceBoolean(r) /\ w \in CoerceBoolean(s)
    BY <1>2 DEF Coerce
  <2>2. /\ StatesTruth(r)
        /\ Lower[r] \in TrueValues => v = JsonBoolean[TRUE]
        /\ Lower[r] \notin TrueValues => v = JsonBoolean[FALSE]
    BY <2>1, BooleanIsTruthStated
  <2>3. /\ StatesTruth(s)
        /\ Lower[s] \in TrueValues => w = JsonBoolean[TRUE]
        /\ Lower[s] \notin TrueValues => w = JsonBoolean[FALSE]
    BY <2>1, BooleanIsTruthStated
  <2>4. v = w <=> (Lower[r] \in TrueValues <=> Lower[s] \in TrueValues)
    BY <2>2, <2>3, MeaningAssumption
  <2>5. Means[r] = Means[s] <=> (Lower[r] \in TrueValues <=> Lower[s] \in TrueValues)
    BY <2>2, <2>3, MeaningAssumption
  <2>6. QED
    BY <2>4, <2>5
<1>3. QED
  BY <1>1, <1>2

\* Sources contradict each other in the eyes of the policy exactly when they do
\* in a reader's, in whatever words they put it (compiler.py _coerce_value).
THEOREM DisagreementIsMeant == Spec => []ConflictMeansDisagreement
<1>1. ASSUME LoopInv, outcome = "returned", NEW m \in DOMAIN Rules, NEW n \in DOMAIN Rules,
             Rules[m].value_type = Rules[n].value_type, Rules[m].value_type # "string"
      PROVE  \E a \in EvidenceOf(Rules[m], documents), b \in EvidenceOf(Rules[n], documents) :
                \E r \in Captures[Rules[m].pattern][a.text],
                   s \in Captures[Rules[n].pattern][b.text] :
                    compiled[m].value = compiled[n].value <=> Means[r] = Means[s]
  <2>1. PICK a \in EvidenceOf(Rules[m], documents) :
            \E r \in Captures[Rules[m].pattern][a.text] :
                r \in DOMAIN Means /\ compiled[m].value \in Coerce(r, Rules[m].value_type)
    BY <1>1, ClaimBehind
  <2>2. PICK r \in Captures[Rules[m].pattern][a.text] :
            r \in DOMAIN Means /\ compiled[m].value \in Coerce(r, Rules[m].value_type)
    BY <2>1
  <2>3. PICK b \in EvidenceOf(Rules[n], documents) :
            \E s \in Captures[Rules[n].pattern][b.text] :
                s \in DOMAIN Means /\ compiled[n].value \in Coerce(s, Rules[n].value_type)
    BY <1>1, ClaimBehind
  <2>4. PICK s \in Captures[Rules[n].pattern][b.text] :
            s \in DOMAIN Means /\ compiled[n].value \in Coerce(s, Rules[n].value_type)
    BY <2>3
  <2>5. Rules[m].value_type \in {"integer", "boolean"}
    <3>1. Rules[m] \in AssertionRule
      BY ProfileAssumption
    <3>2. QED
      BY <1>1, <3>1 DEF AssertionRule, ValueType
  <2>6. compiled[m].value = compiled[n].value <=> Means[r] = Means[s]
    BY <1>1, <2>2, <2>4, <2>5, ValuesAreMeanings
  <2>7. QED
    BY <2>6
<1>2. LoopInv => ConflictMeansDisagreement
  BY <1>1 DEF ConflictMeansDisagreement
<1>3. QED
  BY <1>2, LoopInvariance, PTL

-----------------------------------------------------------------------------
(* The benchmark, one case.                                                *)

\* What the golden file says of the claims of a case: of those for a key
\* exactly one has the value that is expected.
Told(claims) ==
    /\ DOMAIN claims = DOMAIN Rules
    /\ \A n \in DOMAIN Rules : claims[n].key = Rules[n].key
    /\ \A key \in ExpectedKeys : \E n \in DOMAIN Rules :
        /\ Rules[n].key = key
        /\ \A m \in DOMAIN Rules :
            Rules[m].key = key => (Equal(claims[m].value, ExpectedValue(key)) <=> m = n)

\* A variation says in a block what the wordings say that it may.
LEMMA VariantsAreWorded ==
    ASSUME fixtures \in FixtureInputs, NEW k \in Nat, NEW source \in Artifacts,
           NEW i \in DOMAIN fixtures[source]
    PROVE  /\ DOMAIN VariantDocuments(k)[source] = DOMAIN fixtures[source]
           /\ VariantDocuments(k)[source][i].text \in TextsOf(fixtures[source][i])
<1> DEFINE block == fixtures[source][i]
           texts == NewTexts(k)
           confidences == NewConfidences(k)
<1>1. /\ source \in DOMAIN fixtures
      /\ DOMAIN block = {"block_id", "page", "text", "confidence"}
  BY FixtureAssumption
<1>2. /\ DOMAIN VariantDocuments(k)[source] = DOMAIN fixtures[source]
      /\ VariantDocuments(k)[source][i] = ReplaceBlock(block, texts, confidences)
  BY <1>1 DEF VariantDocuments
<1>3. ReplaceBlock(block, texts, confidences).text =
        IF block.block_id \in DOMAIN texts THEN texts[block.block_id] ELSE block.text
  <2> HIDE DEF block, texts, confidences
  <2>1. QED
    BY <1>1 DEF ReplaceBlock
<1>4. /\ 1 + (k % 5) \in 1 .. 5 /\ 1 + (k % 4) \in 1 .. 4
  OBVIOUS
<1>5. \A id \in DOMAIN texts : id \in DOMAIN Wordings /\ texts[id] \in Wordings[id]
  <2>1. CreateText[Nth(MethodVariants, k)] \in Wordings.ops_create
    <3>1. Len(MethodVariants) = 5 /\ DOMAIN MethodVariants = 1 .. 5
      BY DEF MethodVariants
    <3>2. QED
      BY <1>4, <3>1 DEF Nth, Wordings
  <2>2. ApprovalText[Nth(ApprovalVariants, k)] \in Wordings.ops_approval
    <3>1. Len(ApprovalVariants) = 4 /\ DOMAIN ApprovalVariants = 1 .. 4
      BY DEF ApprovalVariants
    <3>2. QED
      BY <1>4, <3>1 DEF Nth, Wordings
  <2>3. RetentionText[Nth(RetentionVariants, k)] \in Wordings.ops_retention
    <3>1. Len(RetentionVariants) = 5 /\ DOMAIN RetentionVariants = 1 .. 5
      BY DEF RetentionVariants
    <3>2. QED
      BY <1>4, <3>1 DEF Nth, Wordings
  <2>4. DOMAIN Wordings = {"ops_create", "ops_approval", "ops_retention"}
    BY DEF Wordings
  <2>5. /\ DOMAIN texts = {"ops_create", "ops_approval", "ops_retention"}
        /\ texts["ops_create"] = CreateText[Nth(MethodVariants, k)]
        /\ texts["ops_approval"] = ApprovalText[Nth(ApprovalVariants, k)]
        /\ texts["ops_retention"] = RetentionText[Nth(RetentionVariants, k)]
    BY DEF NewTexts
  <2>6. QED
    BY ONLY <2>1, <2>2, <2>3, <2>4, <2>5
<1>6. DOMAIN Wordings = DOMAIN texts
  BY DEF Wordings, NewTexts
<1>7. QED
  <2> HIDE DEF block, texts, confidences
  <2>1. ReplaceBlock(block, texts, confidences).text \in TextsOf(block)
    BY <1>3, <1>5, <1>6 DEF TextsOf
  <2>2. QED
    BY <1>2, <2>1 DEF block

\* A claim of a case is read in a wording of its source.
LEMMA ClaimIsReadable ==
    ASSUME fixtures \in FixtureInputs, NEW k \in Nat, NEW n \in DOMAIN Rules,
           NEW claim \in ClaimsOf(Rules[n], VariantDocuments(k))
    PROVE  /\ claim.key = Rules[n].key
           /\ claim.value \in Readable(Rules[n], fixtures[Rules[n].source])
<1> DEFINE rule == Rules[n]
           docs == VariantDocuments(k)
           document == fixtures[rule.source]
<1>1. rule.source \in Artifacts
  <2>1. rule \in AssertionRule
    BY ProfileAssumption
  <2>2. QED
    BY <2>1 DEF AssertionRule
<1>2. PICK block \in EvidenceOf(rule, docs) : claim \in ClaimsFrom(rule, block)
  BY DEF ClaimsOf
<1>3. PICK i \in DOMAIN docs[rule.source] : block = docs[rule.source][i]
  BY <1>2 DEF EvidenceOf, FindEvidence
<1>4. i \in DOMAIN document /\ block.text \in TextsOf(document[i])
  <2>1. DOMAIN docs[rule.source] = DOMAIN document
    BY <1>1, FixtureAssumption DEF VariantDocuments
  <2>2. QED
    BY <1>1, <1>3, <2>1, VariantsAreWorded
<1>5. PICK raw \in Captures[rule.pattern][block.text] :
        claim.key = rule.key /\ claim.value \in Coerce(raw, rule.value_type)
  BY <1>2 DEF ClaimsFrom, ValuesRead, Captured
<1>6. claim.value \in Readable(rule, document)
  BY <1>4, <1>5 DEF Readable
<1>7. QED
  BY <1>5, <1>6

LEMMA CaseIsTold ==
    ASSUME fixtures \in FixtureInputs, NEW k \in Nat,
           NEW claims \in Compile(VariantDocuments(k))
    PROVE  Told(claims)
<1> DEFINE docs == VariantDocuments(k)
<1>1. /\ \A n \in DOMAIN Rules : ClaimsOf(Rules[n], docs) # {}
      /\ claims = [n \in DOMAIN Rules |-> CHOOSE claim \in ClaimsOf(Rules[n], docs) : TRUE]
  BY DEF Compile
<1>2. \A n \in DOMAIN Rules : claims[n] \in ClaimsOf(Rules[n], docs)
  BY <1>1
<1>3. \A n \in DOMAIN Rules :
        /\ claims[n].key = Rules[n].key
        /\ claims[n].value \in Readable(Rules[n], fixtures[Rules[n].source])
  BY <1>2, ClaimIsReadable
<1>4. ASSUME NEW key \in ExpectedKeys
      PROVE  \E n \in DOMAIN Rules :
                /\ Rules[n].key = key
                /\ \A m \in DOMAIN Rules : Rules[m].key = key =>
                        (Equal(claims[m].value, ExpectedValue(key)) <=> m = n)
  <2>1. PICK n \in DOMAIN Rules :
            /\ Rules[n].key = key
            /\ \A m \in DOMAIN Rules, d \in FixtureInputs :
                Rules[m].key = key =>
                    \A value \in Readable(Rules[m], d[Rules[m].source]) :
                        Equal(value, ExpectedValue(key)) <=> m = n
    BY OracleAssumption
  <2>2. \A m \in DOMAIN Rules : Rules[m].key = key =>
            (Equal(claims[m].value, ExpectedValue(key)) <=> m = n)
    BY <1>3, <2>1
  <2>3. QED
    BY <2>1, <2>2
<1>5. QED
  BY <1>1, <1>3, <1>4 DEF Told

\* Assessment leaves keys and values alone and gives the status.
LEMMA AssessedCase ==
    ASSUME NEW claims, Told(claims)
    PROVE  /\ DOMAIN Assess(claims) = DOMAIN Rules
           /\ \A n \in DOMAIN Rules :
                /\ Assess(claims)[n].key = Rules[n].key
                /\ Assess(claims)[n].value = claims[n].value
                /\ Assess(claims)[n].status = AssessedStatus(claims, n)
           /\ \A key : /\ Candidates(Assess(claims), key) = {n \in DOMAIN Rules : Rules[n].key = key}
                       /\ Candidates(claims, key) = {n \in DOMAIN Rules : Rules[n].key = key}
<1>1. /\ DOMAIN Assess(claims) = DOMAIN Rules
      /\ \A n \in DOMAIN Rules : Assess(claims)[n].key = Rules[n].key
      /\ \A n \in DOMAIN Rules : claims[n].key = Rules[n].key
  BY DEF Assess, Told
<1>2. \A n \in DOMAIN Rules : /\ Assess(claims)[n].value = claims[n].value
                              /\ Assess(claims)[n].status = AssessedStatus(claims, n)
  BY DEF Assess, Told
<1>3. DOMAIN claims = DOMAIN Rules
  BY DEF Told
<1>4. QED
  BY <1>1, <1>2, <1>3 DEF Candidates

\* The rule that tells the truth about a key: its claim is the only one that
\* has the expected value, and the others contradict it.
Truthful(claims, key, n) ==
    /\ n \in Candidates(Assess(claims), key)
    /\ \A m \in Candidates(Assess(claims), key) :
        Equal(Assess(claims)[m].value, ExpectedValue(key)) <=> m = n
    /\ InConflict(claims, key) <=> Candidates(Assess(claims), key) # {n}

LEMMA OneIsTruthful ==
    ASSUME NEW claims, Told(claims), NEW key \in ExpectedKeys
    PROVE  \E n \in DOMAIN Rules : Rules[n].key = key /\ Truthful(claims, key, n)
<1> DEFINE cs == {n \in DOMAIN Rules : Rules[n].key = key}
<1>1. PICK n \in cs : \A m \in cs : Equal(claims[m].value, ExpectedValue(key)) <=> m = n
  BY DEF Told
<1>2. /\ Candidates(Assess(claims), key) = cs /\ Candidates(claims, key) = cs
      /\ \A m \in cs : Assess(claims)[m].value = claims[m].value
  BY AssessedCase
<1>3. \A m \in cs \ {n} : claims[m].value # claims[n].value
  BY <1>1 DEF Equal
<1>4. InConflict(claims, key) <=> cs # {n}
  BY <1>1, <1>2, <1>3 DEF InConflict
<1>5. QED
  BY <1>1, <1>2, <1>4 DEF Truthful

\* In a case the keys in conflict are those that are expected to be.
LEMMA ConflictsAreExpected ==
    ASSUME NEW claims, Told(claims), NEW key \in ExpectedKeys
    PROVE  InConflict(claims, key) <=> key \in ExpectedConflictKeys
<1>1. PICK n \in DOMAIN Rules : Rules[n].key = key /\ Truthful(claims, key, n)
  BY OneIsTruthful
<1>2. Candidates(Assess(claims), key) = {m \in DOMAIN Rules : Rules[m].key = key}
  BY AssessedCase
<1>3. key \in ExpectedConflictKeys <=>
        \E m, k \in DOMAIN Rules : m # k /\ Rules[m].key = key /\ Rules[k].key = key
  BY OracleAssumption
<1>4. InConflict(claims, key) <=> Candidates(Assess(claims), key) # {n}
  BY <1>1 DEF Truthful
<1>5. Candidates(Assess(claims), key) # {n} <=>
        \E m, k \in DOMAIN Rules : m # k /\ Rules[m].key = key /\ Rules[k].key = key
  BY <1>1, <1>2
<1>6. QED
  BY <1>3, <1>4, <1>5

LEMMA ExpectedKeysAreKeys ==
    /\ ExpectedKeys \subseteq Keys /\ ExpectedConflictKeys \subseteq ExpectedKeys
    /\ IsFiniteSet(ExpectedKeys)
<1>1. \A n \in DOMAIN Rules : Rules[n] \in AssertionRule
  BY ProfileAssumption
<1>2. ExpectedKeys \subseteq Keys
  BY <1>1, OracleAssumption DEF AssertionRule
<1>3. ExpectedConflictKeys \subseteq ExpectedKeys
  BY OracleAssumption
<1>4. Len(Rules) \in Nat /\ DOMAIN Rules = 1 .. Len(Rules)
  BY ProfileAssumption
<1> DEFINE keyOf == [n \in DOMAIN Rules |-> Rules[n].key]
<1>5. IsFiniteSet(DOMAIN Rules)
  BY <1>4, FS_Interval
<1>6. keyOf \in Surjection(DOMAIN Rules, ExpectedKeys)
  BY OracleAssumption DEF Surjection
<1>7. QED
  BY <1>2, <1>3, <1>5, <1>6, FS_Surjection

LEMMA CaseDetectsConflicts ==
    ASSUME NEW claims, Told(claims)
    PROVE  DOMAIN ConflictsOf(Assess(claims)) \cap ExpectedConflictKeys = ExpectedConflictKeys
<1>1. ASSUME NEW key \in ExpectedConflictKeys
      PROVE  key \in DOMAIN ConflictsOf(Assess(claims))
  <2>1. key \in ExpectedKeys /\ key \in Keys
    BY ExpectedKeysAreKeys
  <2>2. InConflict(claims, key)
    BY <2>1, ConflictsAreExpected
  <2>3. InConflict(Assess(claims), key)
    BY <2>2, AssessedCase DEF InConflict
  <2>4. QED
    BY <2>1, <2>3 DEF ConflictsOf
<1>2. QED
  BY <1>1

\* Before review nothing is selected for a key in conflict.
LEMMA CasePromotesNothingContested ==
    ASSUME NEW claims, Told(claims), NEW key \in ExpectedConflictKeys
    PROVE  Select(Assess(claims), <<>>, key) = {}
<1> DEFINE A == Assess(claims)
           cs == Candidates(A, key)
<1>1. key \in ExpectedKeys
  BY ExpectedKeysAreKeys
<1>2. InConflict(claims, key)
  BY <1>1, ConflictsAreExpected
<1>3. PICK n \in DOMAIN Rules : Rules[n].key = key /\ n \in cs
  BY <1>1, OneIsTruthful DEF Truthful
<1>4. claims[n].key = key
  BY <1>3 DEF Told
<1>5. AssessedStatus(claims, n) = "conflicted"
  BY <1>2, <1>4 DEF AssessedStatus
<1>6. A[n].status = "conflicted"
  BY <1>5, AssessedCase
<1>7. IsConflicted(A, key)
  BY <1>3, <1>6 DEF IsConflicted
<1>8. ~FullyReviewed(A, <<>>, key)
  <2>1. LatestReview(A, <<>>, n) = {}
    BY DEF LatestReview
  <2>2. QED
    BY <1>3, <2>1 DEF FullyReviewed
<1>9. QED
  BY <1>7, <1>8 DEF Select

\* The expected one of the candidates for a key wins.
LEMMA TruthWins ==
    ASSUME NEW claims, Told(claims), NEW key \in ExpectedKeys, NEW n,
           Truthful(claims, key, n)
    PROVE  Winners(Assess(claims), key) = {n}
BY DEF Winners, Truthful

\* What is under review is the key of a rule.
LEMMA ReviewedKeysAreExpected ==
    ASSUME NEW claims, Told(claims)
    PROVE  ReviewFactKeys(Assess(claims)) \subseteq ExpectedKeys
BY AssessedCase, OracleAssumption DEF ReviewFactKeys

LEMMA CaseIsReviewable ==
    ASSUME NEW claims, Told(claims)
    PROVE  Reviewable(Assess(claims))
<1>1. ASSUME NEW key \in ReviewFactKeys(Assess(claims))
      PROVE  key \in ExpectedKeys /\ Cardinality(Winners(Assess(claims), key)) = 1
  <2>1. key \in ExpectedKeys
    BY ReviewedKeysAreExpected
  <2>2. PICK n \in DOMAIN Rules : Truthful(claims, key, n)
    BY <2>1, OneIsTruthful
  <2>3. Winners(Assess(claims), key) = {n}
    BY <2>1, <2>2, TruthWins
  <2>4. QED
    BY <2>1, <2>3, FS_Singleton
<1>2. QED
  BY <1>1 DEF Reviewable

\* The decisions of a case.
CaseReviews(claims) == BuildReviews(Assess(claims), ReviewFactKeys(Assess(claims)))

\* Each candidate under review has one decision, and the winner's alone approves.
LEMMA CaseDecisions ==
    ASSUME NEW claims, NEW key \in ReviewFactKeys(Assess(claims)),
           NEW a \in Candidates(Assess(claims), key)
    PROVE  LET d == CaseReviews(claims)[a]
           IN  /\ LatestReview(Assess(claims), CaseReviews(claims), a) = {d}
               /\ d.outcome = IF a \in Winners(Assess(claims), key) THEN "approve" ELSE "reject"
<1> DEFINE A == Assess(claims)
           R == CaseReviews(claims)
           assertions == ReviewedAssertions(A, ReviewFactKeys(A))
<1>1. a \in assertions /\ A[a].key = key
  BY DEF ReviewedAssertions, Candidates
<1>2. /\ DOMAIN R = assertions
      /\ \A b \in assertions :
            /\ R[b].assertion = b
            /\ R[b].fingerprint = Fingerprint(A[b])
            /\ R[b].outcome = IF b \in Winners(A, A[b].key) THEN "approve" ELSE "reject"
  BY DEF CaseReviews, BuildReviews
<1>3. {i \in DOMAIN R : IsReviewOf(A, R[i], a)} = {a}
  BY <1>1, <1>2 DEF IsReviewOf
<1>4. LatestReview(A, R, a) = {R[a]}
  <2> HIDE DEF A, R
  <2>1. QED
    BY <1>3 DEF LatestReview
<1>5. QED
  BY <1>1, <1>2, <1>4

\* Review by the book selects the expected one of the candidates.
LEMMA ReviewSelectsTruth ==
    ASSUME NEW claims, Told(claims), NEW key \in ReviewFactKeys(Assess(claims)), NEW n,
           Truthful(claims, key, n)
    PROVE  /\ FullyReviewed(Assess(claims), CaseReviews(claims), key)
           /\ SoleApproval(Assess(claims), CaseReviews(claims), key) =
                {[value |-> Assess(claims)[n].value, assertion_ids |-> {n}]}
<1> DEFINE A == Assess(claims)
           R == CaseReviews(claims)
           cs == Candidates(A, key)
<1>1. Winners(A, key) = {n} /\ n \in cs
  BY ReviewedKeysAreExpected, TruthWins DEF Truthful
<1>2. \A a \in cs : /\ LatestReview(A, R, a) = {R[a]}
                    /\ R[a].outcome = IF a = n THEN "approve" ELSE "reject"
  BY <1>1, CaseDecisions
<1> HIDE DEF A, R, cs
<1>3. FullyReviewed(A, R, key)
  BY <1>2 DEF FullyReviewed, cs
<1>4. \A a \in cs : Approvals(A, R, a) = IF a = n THEN {R[n]} ELSE {}
  BY <1>2 DEF Approvals
<1>5. ApprovedValue(A[n], R[n]) = A[n].value
  BY <1>1, <1>2 DEF ApprovedValue
<1> DEFINE approved == {a \in cs : Approvals(A, R, a) # {}}
<1>6. approved = {n}
  BY <1>1, <1>4
<1>7. {b \in approved : approved = {b}} = {n}
  BY <1>6
<1>8. SoleApproval(A, R, key) =
        UNION {{[value |-> ApprovedValue(A[a], d), assertion_ids |-> {a}]
                    : d \in Approvals(A, R, a)} : a \in {b \in approved : approved = {b}}}
  BY DEF SoleApproval, cs
<1>9. SoleApproval(A, R, key) =
        {[value |-> ApprovedValue(A[n], d), assertion_ids |-> {n}] : d \in Approvals(A, R, n)}
  <2> HIDE DEF approved
  <2>1. QED
    BY <1>7, <1>8
<1>10. Approvals(A, R, n) = {R[n]}
  BY <1>1, <1>4
<1>11. SoleApproval(A, R, key) = {[value |-> A[n].value, assertion_ids |-> {n}]}
  BY <1>5, <1>9, <1>10
<1>12. QED
  BY <1>3, <1>11 DEF A, R

\* After review the expected value is selected for every expected key.
LEMMA CaseSelectsTruth ==
    ASSUME NEW claims, Told(claims), NEW key \in ExpectedKeys
    PROVE  \E value, ids :
            /\ Select(Assess(claims), CaseReviews(claims), key) =
                    {[value |-> value, assertion_ids |-> ids]}
            /\ Equal(value, ExpectedValue(key))
<1> DEFINE A == Assess(claims)
           R == CaseReviews(claims)
           cs == Candidates(A, key)
<1>1. PICK n \in DOMAIN Rules : Rules[n].key = key /\ Truthful(claims, key, n)
  BY OneIsTruthful
<1>2. n \in cs /\ Equal(A[n].value, ExpectedValue(key))
  BY <1>1 DEF Truthful
<1>3. /\ \A a \in cs : A[a].status = AssessedStatus(claims, a) /\ claims[a].key = key
      /\ DOMAIN A = DOMAIN Rules
      /\ \A a \in cs : a \in DOMAIN A /\ A[a].key = key
  BY AssessedCase DEF Told, Candidates
<1>4. ASSUME ~IsConflicted(A, key)
      PROVE  cs = {n}
  <2>1. AssessedStatus(claims, n) # "conflicted" /\ claims[n].key = key
    BY <1>2, <1>3, <1>4 DEF IsConflicted
  <2>2. ~InConflict(claims, key)
    BY <2>1 DEF AssessedStatus
  <2>3. QED
    BY <1>1, <2>2 DEF Truthful
<1>5. CASE IsConflicted(A, key)
  <2>1. key \in ReviewFactKeys(A)
    BY <1>3, <1>5 DEF IsConflicted, ReviewFactKeys
  <2>2. Select(A, R, key) = {[value |-> A[n].value, assertion_ids |-> {n}]}
    BY <1>1, <1>5, <2>1, ReviewSelectsTruth DEF Select
  <2>3. QED
    BY <1>2, <2>2
<1>6. CASE ~IsConflicted(A, key) /\ Accepted(A, key) # {}
  <2>1. Accepted(A, key) = {n}
    BY <1>4, <1>6 DEF Accepted
  <2>2. AutoAcceptance(A, key) = {[value |-> A[n].value, assertion_ids |-> {n}]}
    <3> HIDE DEF A, cs
    <3>1. {b \in {n} : \A c \in {n} \ {b} : Outranks(A, b, c)} = {n}
      OBVIOUS
    <3>2. QED
      BY <2>1, <3>1 DEF AutoAcceptance
  <2>3. Select(A, R, key) = {[value |-> A[n].value, assertion_ids |-> {n}]}
    BY <1>6, <2>2 DEF Select
  <2>4. QED
    BY <1>2, <2>3
<1>7. CASE ~IsConflicted(A, key) /\ Accepted(A, key) = {}
  <2>1. A[n].status \in AssertionStatus
    BY <1>2, <1>3 DEF AssessedStatus, AssertionStatus
  <2>2. A[n].status = "review_required"
    BY <1>2, <1>7, <2>1 DEF IsConflicted, Accepted, AssertionStatus
  <2>3. key \in ReviewFactKeys(A)
    BY <1>2, <1>3, <2>2 DEF ReviewFactKeys
  <2>4. Select(A, R, key) = {[value |-> A[n].value, assertion_ids |-> {n}]}
    BY <1>1, <1>7, <2>3, ReviewSelectsTruth DEF Select
  <2>5. QED
    BY <1>2, <2>4
<1>8. QED
  BY <1>5, <1>6, <1>7

\* A key without a candidate has nothing to select.
LEMMA NothingFromNothing ==
    ASSUME NEW claims, Told(claims), NEW key, key \notin ExpectedKeys, NEW reviews
    PROVE  Select(Assess(claims), reviews, key) = {}
<1>1. Candidates(Assess(claims), key) = {}
  BY AssessedCase, OracleAssumption
<1>2. ~IsConflicted(Assess(claims), key) /\ Accepted(Assess(claims), key) = {}
  BY <1>1 DEF IsConflicted, Accepted
<1>3. SoleApproval(Assess(claims), reviews, key) = {}
  BY <1>1 DEF SoleApproval
<1>4. QED
  BY <1>2, <1>3 DEF Select

\* The first version of a fact is what is selected.
LEMMA FirstFact ==
    ASSUME NEW assertions, NEW reviews, NEW key \in Keys
    PROVE  LET new == Promote(assertions, reviews, NoFacts, 0)[key]
           IN  /\ \A s : Select(assertions, reviews, key) = {s} =>
                    \E f : new = {f} /\ f.key = key /\ f.value = s.value
               /\ Select(assertions, reviews, key) = {} => new = {}
<1> DEFINE new == Promote(assertions, reviews, NoFacts, 0)[key]
           version == NextVersion(NoFacts[key])
           fact(s) == [op |-> 0, key |-> key, value |-> s.value,
                       assertion_ids |-> s.assertion_ids, version |-> version]
<1>1. NoFacts[key] = <<>>
  BY DEF NoFacts
<1>2. \A value : ~AlreadyEffective(NoFacts[key], value)
  BY <1>1 DEF AlreadyEffective
<1>3. new = {fact(s) : s \in Select(assertions, reviews, key)}
  <2>1. new = NewFact(assertions, reviews, NoFacts, 0, key)
    BY DEF Promote
  <2>2. {s \in Select(assertions, reviews, key) : ~AlreadyEffective(NoFacts[key], s.value)}
            = Select(assertions, reviews, key)
    BY <1>2
  <2>3. QED
    BY <2>1, <2>2 DEF NewFact
<1> HIDE DEF new
<1>4. ASSUME NEW s, Select(assertions, reviews, key) = {s}
      PROVE  \E f : new = {f} /\ f.key = key /\ f.value = s.value
  <2>1. new = {fact(s)}
    BY <1>3, <1>4
  <2>2. fact(s).key = key /\ fact(s).value = s.value
    OBVIOUS
  <2>3. QED
    BY <2>1, <2>2
<1>5. QED
  BY <1>3, <1>4 DEF new

\* As many facts as keys, where there is one fact for each key of a finite set.
LEMMA OneFactEach ==
    ASSUME NEW new, NEW S \in SUBSET Keys, IsFiniteSet(S),
           \A key \in S : \E f : new[key] = {f} /\ f.key = key,
           \A key \in Keys \ S : new[key] = {}
    PROVE  Cardinality(FactsIn(new)) = Cardinality(S)
<1> DEFINE factOf == [key \in S |-> CHOOSE f : new[key] = {f} /\ f.key = key]
<1>1. \A key \in S : new[key] = {factOf[key]} /\ factOf[key].key = key
  OBVIOUS
<1>2. DOMAIN factOf = S /\ factOf = [key \in S |-> factOf[key]]
  OBVIOUS
<1> HIDE DEF factOf
<1>3. ASSUME NEW key \in S
      PROVE  factOf[key] \in FactsIn(new)
  <2>1. factOf[key] \in new[key] /\ key \in Keys
    BY <1>1
  <2>2. QED
    BY <2>1 DEF FactsIn
<1>4. \A f \in FactsIn(new) : \E key \in S : f = factOf[key]
  BY <1>1 DEF FactsIn
<1>5. factOf \in [S -> FactsIn(new)]
  BY <1>2, <1>3
<1>6. factOf \in Bijection(S, FactsIn(new))
  <2>1. \A a, b \in S : factOf[a] = factOf[b] => a = b
    BY <1>1
  <2>2. factOf \in Injection(S, FactsIn(new))
    BY <1>5, <2>1 DEF Injection, IsInjective
  <2>3. factOf \in Surjection(S, FactsIn(new))
    BY <1>4, <1>5 DEF Surjection
  <2>4. QED
    BY <2>2, <2>3 DEF Bijection
<1>7. QED
  BY <1>6, FS_Bijection DEF ExistsBijection

\* The final facts of a case are the expected ones.
LEMMA CaseEndsInTruth ==
    ASSUME NEW claims, Told(claims)
    PROVE  LET final == FactsIn(Promote(Assess(claims), CaseReviews(claims), NoFacts, 0))
           IN  /\ \A key \in ExpectedKeys : \E f \in final :
                    f.key = key /\ Equal(f.value, ExpectedValue(key))
               /\ Cardinality(final) = Cardinality(ExpectedKeys)
<1> DEFINE new == Promote(Assess(claims), CaseReviews(claims), NoFacts, 0)
<1>1. ASSUME NEW key \in ExpectedKeys
      PROVE  \E f : new[key] = {f} /\ f.key = key /\ Equal(f.value, ExpectedValue(key))
  <2>1. key \in Keys
    BY ExpectedKeysAreKeys
  <2>2. PICK value, ids :
            /\ Select(Assess(claims), CaseReviews(claims), key) =
                    {[value |-> value, assertion_ids |-> ids]}
            /\ Equal(value, ExpectedValue(key))
    BY CaseSelectsTruth
  <2> DEFINE s == [value |-> value, assertion_ids |-> ids]
  <2>3. s.value = value
    OBVIOUS
  <2> HIDE DEF s
  <2>4. Select(Assess(claims), CaseReviews(claims), key) = {s}
    BY <2>2 DEF s
  <2>5. \E f : new[key] = {f} /\ f.key = key /\ f.value = s.value
    BY <2>1, <2>4, FirstFact
  <2>6. QED
    BY <2>2, <2>3, <2>5
<1>2. ASSUME NEW key \in Keys \ ExpectedKeys
      PROVE  new[key] = {}
  BY NothingFromNothing, FirstFact
<1> HIDE DEF new
<1>3. Cardinality(FactsIn(new)) = Cardinality(ExpectedKeys)
  <2>1. \A key \in ExpectedKeys : \E f : new[key] = {f} /\ f.key = key
    BY <1>1
  <2>2. QED
    BY <1>2, <2>1, ExpectedKeysAreKeys, OneFactEach
<1>4. \A key \in ExpectedKeys : \E f \in FactsIn(new) :
        f.key = key /\ Equal(f.value, ExpectedValue(key))
  BY <1>1, ExpectedKeysAreKeys DEF FactsIn
<1>5. QED
  BY <1>3, <1>4 DEF new

\* Before review nothing is selected for a key that a reviewer has to see.
LEMMA NothingBeforeReview ==
    ASSUME NEW claims, Told(claims), NEW key \in ReviewFactKeys(Assess(claims))
    PROVE  Select(Assess(claims), <<>>, key) = {}
<1> DEFINE A == Assess(claims)
           cs == Candidates(A, key)
<1>1. key \in ExpectedKeys
  BY ReviewedKeysAreExpected
<1>2. PICK n \in DOMAIN Rules : Rules[n].key = key /\ Truthful(claims, key, n)
  BY <1>1, OneIsTruthful
<1>3. PICK a \in cs : A[a].status \in {"conflicted", "review_required"}
  BY DEF ReviewFactKeys, Candidates
<1>4. \A b \in cs : LatestReview(A, <<>>, b) = {}
  BY DEF LatestReview
<1>5. CASE IsConflicted(A, key)
  <2>1. ~FullyReviewed(A, <<>>, key)
    BY <1>3, <1>4 DEF FullyReviewed
  <2>2. QED
    BY <1>5, <2>1 DEF Select
<1>6. CASE ~IsConflicted(A, key)
  <2>1. A[n].status = AssessedStatus(claims, n) /\ claims[n].key = key /\ n \in cs
    BY <1>2, AssessedCase DEF Told, Truthful
  <2>2. ~InConflict(claims, key)
    BY <1>6, <2>1 DEF AssessedStatus, IsConflicted
  <2>3. cs = {n}
    BY <1>2, <2>2 DEF Truthful
  <2>4. Accepted(A, key) = {}
    BY <1>3, <1>6, <2>3 DEF Accepted, IsConflicted
  <2>5. SoleApproval(A, <<>>, key) = {}
    BY <1>4 DEF SoleApproval, Approvals
  <2>6. QED
    BY <1>6, <2>4, <2>5 DEF Select
<1>7. QED
  BY <1>5, <1>6

\* What no reviewer has to see is selected at once.
LEMMA AcceptedAtOnce ==
    ASSUME NEW claims, Told(claims), NEW key \in ExpectedKeys,
           key \notin ReviewFactKeys(Assess(claims))
    PROVE  \E s : Select(Assess(claims), <<>>, key) = {s}
<1> DEFINE A == Assess(claims)
           cs == Candidates(A, key)
<1>1. PICK n \in DOMAIN Rules : Rules[n].key = key /\ Truthful(claims, key, n)
  BY OneIsTruthful
<1>2. /\ DOMAIN A = DOMAIN Rules /\ n \in cs
      /\ A[n].status = AssessedStatus(claims, n) /\ claims[n].key = key
  BY <1>1, AssessedCase DEF Told, Truthful
<1>3. \A a \in cs : A[a].status \notin {"conflicted", "review_required"}
  BY DEF Candidates, ReviewFactKeys
<1>4. ~IsConflicted(A, key)
  BY <1>3 DEF IsConflicted
<1>5. ~InConflict(claims, key) /\ A[n].status = "accepted"
  BY <1>2, <1>3 DEF AssessedStatus
<1>6. Accepted(A, key) = {n}
  BY <1>1, <1>2, <1>5 DEF Truthful, Accepted
<1>7. AutoAcceptance(A, key) = {[value |-> A[n].value, assertion_ids |-> {n}]}
  <2> HIDE DEF A, cs
  <2>1. {b \in {n} : \A c \in {n} \ {b} : Outranks(A, b, c)} = {n}
    OBVIOUS
  <2>2. QED
    BY <1>6, <2>1 DEF AutoAcceptance
<1>8. Select(A, <<>>, key) = {[value |-> A[n].value, assertion_ids |-> {n}]}
  BY <1>4, <1>6, <1>7 DEF Select
<1>9. QED
  BY <1>8

\* Each expected fact of a case is promoted at once or is one task.
LEMMA CaseIsSharedOut ==
    ASSUME NEW claims, Told(claims)
    PROVE  LET automatic == FactsIn(Promote(Assess(claims), <<>>, NoFacts, 0))
               keys == ReviewFactKeys(Assess(claims))
           IN  /\ Cardinality(automatic) \in Nat /\ Cardinality(keys) \in Nat
               /\ Cardinality(ExpectedKeys) \in Nat
               /\ Cardinality(automatic) + Cardinality(keys) = Cardinality(ExpectedKeys)
<1> DEFINE new == Promote(Assess(claims), <<>>, NoFacts, 0)
           keys == ReviewFactKeys(Assess(claims))
           atOnce == ExpectedKeys \ keys
<1>1. \A key \in atOnce : \E f : new[key] = {f} /\ f.key = key
  <2>1. SUFFICES ASSUME NEW key \in atOnce PROVE \E f : new[key] = {f} /\ f.key = key
    OBVIOUS
  <2>2. key \in Keys
    BY ExpectedKeysAreKeys
  <2>3. PICK s : Select(Assess(claims), <<>>, key) = {s}
    BY AcceptedAtOnce
  <2>4. QED
    BY <2>2, <2>3, FirstFact
<1>2. \A key \in Keys \ atOnce : new[key] = {}
  <2>1. SUFFICES ASSUME NEW key \in Keys \ atOnce PROVE new[key] = {}
    OBVIOUS
  <2>2. Select(Assess(claims), <<>>, key) = {}
    BY NothingBeforeReview, NothingFromNothing
  <2>3. QED
    BY <2>2, FirstFact
<1>3. keys \subseteq ExpectedKeys
  BY ReviewedKeysAreExpected
<1> HIDE DEF new, keys
<1>4. /\ IsFiniteSet(ExpectedKeys) /\ IsFiniteSet(keys) /\ IsFiniteSet(atOnce)
      /\ Cardinality(atOnce) = Cardinality(ExpectedKeys) - Cardinality(ExpectedKeys \cap keys)
  BY <1>3, ExpectedKeysAreKeys, FS_Subset, FS_Difference
<1>5. Cardinality(FactsIn(new)) = Cardinality(atOnce)
  <2>1. atOnce \in SUBSET Keys
    BY ExpectedKeysAreKeys
  <2> HIDE DEF atOnce
  <2>2. QED
    BY <1>1, <1>2, <1>4, <2>1, OneFactEach
<1>6. ExpectedKeys \cap keys = keys
  BY <1>3
<1>7. /\ Cardinality(atOnce) \in Nat /\ Cardinality(keys) \in Nat
      /\ Cardinality(ExpectedKeys) \in Nat
  BY <1>4, FS_CardinalityType
<1>8. Cardinality(ExpectedKeys \cap keys) = Cardinality(keys)
  BY <1>6
<1> HIDE DEF atOnce
<1>9. /\ Cardinality(FactsIn(new)) \in Nat
      /\ Cardinality(FactsIn(new)) + Cardinality(keys) = Cardinality(ExpectedKeys)
  BY <1>4, <1>5, <1>7, <1>8
<1>10. QED
  BY <1>7, <1>9 DEF new, keys

\* The measures that the report is about, for one case.
LEMMA CaseScores ==
    ASSUME NEW claims, Told(claims)
    PROVE  LET score == Score(Assess(claims))
           IN  /\ score.detected_conflicts = score.expected_conflicts
               /\ score.unsafe_auto_promotions = 0
               /\ score.correct_final_facts = score.expected_final_facts
               /\ score.total_final_facts = score.expected_final_facts
               /\ score.safe_auto_promotions \in Nat /\ score.human_review_tasks \in Nat
               /\ score.expected_final_facts \in Nat
               /\ score.safe_auto_promotions + score.human_review_tasks
                        = score.expected_final_facts
<1> DEFINE A == Assess(claims)
           automatic == FactsIn(Promote(A, <<>>, NoFacts, 0))
           final == FactsIn(Promote(A, CaseReviews(claims), NoFacts, 0))
           score == Score(A)
<1>1. /\ score.expected_conflicts = Cardinality(ExpectedConflictKeys)
      /\ score.detected_conflicts =
            Cardinality(DOMAIN ConflictsOf(A) \cap ExpectedConflictKeys)
      /\ score.unsafe_auto_promotions =
            Cardinality({f \in automatic : f.key \in ExpectedConflictKeys})
      /\ score.expected_final_facts = Cardinality(ExpectedKeys)
      /\ score.correct_final_facts =
            Cardinality({key \in ExpectedKeys : \E f \in final :
                            f.key = key /\ Equal(f.value, ExpectedValue(key))})
      /\ score.total_final_facts = Cardinality(final)
      /\ score.safe_auto_promotions = Cardinality(automatic)
      /\ score.human_review_tasks = Cardinality(ReviewFactKeys(A))
  BY DEF Score, CaseReviews
<1>2. {f \in automatic : f.key \in ExpectedConflictKeys} = {}
  <2>1. ASSUME NEW key \in Keys, NEW f \in Promote(A, <<>>, NoFacts, 0)[key]
        PROVE  f.key = key
    BY DEF Promote, NewFact
  <2>2. ASSUME NEW key \in ExpectedConflictKeys
        PROVE  Promote(A, <<>>, NoFacts, 0)[key] = {}
    BY ExpectedKeysAreKeys, CasePromotesNothingContested, FirstFact
  <2>3. QED
    BY <2>1, <2>2 DEF FactsIn
<1>3. {key \in ExpectedKeys : \E f \in final :
            f.key = key /\ Equal(f.value, ExpectedValue(key))} = ExpectedKeys
  BY CaseEndsInTruth
<1>4. Cardinality(final) = Cardinality(ExpectedKeys)
  BY CaseEndsInTruth
<1>5. DOMAIN ConflictsOf(A) \cap ExpectedConflictKeys = ExpectedConflictKeys
  BY CaseDetectsConflicts
<1>6. /\ Cardinality(automatic) \in Nat /\ Cardinality(ReviewFactKeys(A)) \in Nat
      /\ Cardinality(ExpectedKeys) \in Nat
      /\ Cardinality(automatic) + Cardinality(ReviewFactKeys(A)) = Cardinality(ExpectedKeys)
  BY CaseIsSharedOut
<1> HIDE DEF score, automatic, final
<1>7. QED
  BY <1>1, <1>2, <1>3, <1>4, <1>5, <1>6, FS_EmptySet DEF score

-----------------------------------------------------------------------------
(* The benchmark, any number of cases.                                     *)

\* The inductive invariant: case by case what is added to the measures is the
\* same on both sides, and what raised has not moved since.
BenchmarkInv ==
    /\ fixtures \in FixtureInputs
    /\ index \in Nat
    /\ DOMAIN tally = DOMAIN NoTally
    /\ tally.safe_auto_promotions \in Nat /\ tally.human_review_tasks \in Nat
    /\ tally.expected_final_facts \in Nat
    /\ EveryConflictDetected
    /\ NoUnsafePromotion
    /\ ReviewLeadsToTruth
    /\ FailsOnlyWithoutEvidence

LEMMA BenchmarkInitInv == BenchmarkInit => BenchmarkInv
BY DEF BenchmarkInit, BenchmarkInv, NoTally, EveryConflictDetected, NoUnsafePromotion,
       ReviewLeadsToTruth, FailsOnlyWithoutEvidence

LEMMA RunCaseStep ==
    ASSUME BenchmarkInv, RunCase
    PROVE  BenchmarkInv'
<1>1. PICK claims \in Compile(VariantDocuments(index)) :
        tally' = [measure \in DOMAIN tally |-> tally[measure] + Score(Assess(claims))[measure]]
  BY DEF RunCase
<1>2. Told(claims)
  BY CaseIsTold DEF BenchmarkInv
<1> DEFINE score == Score(Assess(claims))
<1>3. /\ score.detected_conflicts = score.expected_conflicts
      /\ score.unsafe_auto_promotions = 0
      /\ score.correct_final_facts = score.expected_final_facts
      /\ score.total_final_facts = score.expected_final_facts
      /\ score.safe_auto_promotions \in Nat /\ score.human_review_tasks \in Nat
      /\ score.expected_final_facts \in Nat
      /\ score.safe_auto_promotions + score.human_review_tasks = score.expected_final_facts
  BY <1>2, CaseScores
<1> HIDE DEF score
<1>4. \A measure \in DOMAIN tally : tally'[measure] = tally[measure] + score[measure]
  BY <1>1 DEF score
<1>5. {"expected_conflicts", "detected_conflicts", "unsafe_auto_promotions",
       "expected_final_facts", "correct_final_facts", "total_final_facts",
       "safe_auto_promotions", "human_review_tasks"} \subseteq DOMAIN tally
  BY DEF BenchmarkInv, NoTally
<1>6. EveryConflictDetected'
  BY <1>3, <1>4, <1>5 DEF BenchmarkInv, EveryConflictDetected
<1>7. NoUnsafePromotion'
  BY <1>3, <1>4, <1>5 DEF BenchmarkInv, NoUnsafePromotion
<1>8. ReviewLeadsToTruth'
  BY <1>3, <1>4, <1>5 DEF BenchmarkInv, ReviewLeadsToTruth
<1>9. report = "running" /\ report' = report /\ index' = index + 1 /\ fixtures' = fixtures
  BY DEF RunCase
<1>10. FailsOnlyWithoutEvidence'
  BY <1>9 DEF FailsOnlyWithoutEvidence
<1>11. DOMAIN tally' = DOMAIN NoTally
  BY <1>1 DEF BenchmarkInv
<1>12. /\ tally'.safe_auto_promotions \in Nat /\ tally'.human_review_tasks \in Nat
       /\ tally'.expected_final_facts \in Nat
  BY <1>3, <1>4, <1>5 DEF BenchmarkInv
<1>13. QED
  BY <1>6, <1>7, <1>8, <1>9, <1>10, <1>11, <1>12 DEF BenchmarkInv, NoTally

\* What raises has no case asked for or one that does not compile: a case that
\* compiles can be reviewed.
LEMMA RaiseStep ==
    ASSUME BenchmarkInv, Raise
    PROVE  BenchmarkInv'
<1>1. /\ fixtures' = fixtures /\ case_count' = case_count /\ index' = index /\ tally' = tally
      /\ case_count < 1 \/ \A claims \in Compile(VariantDocuments(index)) :
                                ~Reviewable(Assess(claims))
  BY DEF Raise
<1>2. \A claims \in Compile(VariantDocuments(index)) : Reviewable(Assess(claims))
  BY CaseIsTold, CaseIsReviewable DEF BenchmarkInv
<1>3. case_count < 1 \/ Compile(VariantDocuments(index)) = {}
  BY <1>1, <1>2
<1>4. VariantDocuments(index)' = VariantDocuments(index)
  BY <1>1 DEF VariantDocuments
<1>5. FailsOnlyWithoutEvidence'
  BY <1>1, <1>3, <1>4 DEF FailsOnlyWithoutEvidence
<1>6. QED
  BY <1>1, <1>5 DEF BenchmarkInv, NoTally, EveryConflictDetected, NoUnsafePromotion,
                    ReviewLeadsToTruth

\* BenchmarkInv is inductive.
THEOREM BenchmarkInvariance == BenchmarkSpec => []BenchmarkInv
<1>1. BenchmarkInv /\ [BenchmarkNext]_benchmark_vars => BenchmarkInv'
  <2>1. SUFFICES ASSUME BenchmarkInv, [BenchmarkNext]_benchmark_vars PROVE BenchmarkInv'
    OBVIOUS
  <2>2. CASE RunCase
    BY <2>1, <2>2, RunCaseStep
  <2>3. CASE Raise
    BY <2>1, <2>3, RaiseStep
  <2>4. ASSUME Report \/ UNCHANGED benchmark_vars
        PROVE  BenchmarkInv'
    <3>1. /\ fixtures' = fixtures /\ case_count' = case_count /\ index' = index
          /\ tally' = tally /\ (report' = report \/ report' = "reported")
      BY <2>4 DEF Report, benchmark_vars
    <3>2. VariantDocuments(index)' = VariantDocuments(index)
      BY <3>1 DEF VariantDocuments
    <3>3. FailsOnlyWithoutEvidence'
      BY <2>1, <3>1, <3>2 DEF BenchmarkInv, FailsOnlyWithoutEvidence
    <3>4. QED
      BY <2>1, <3>1, <3>3 DEF BenchmarkInv, NoTally, EveryConflictDetected,
                              NoUnsafePromotion, ReviewLeadsToTruth
  <2>5. QED
    BY <2>1, <2>2, <2>3, <2>4 DEF BenchmarkNext
<1>2. QED
  BY <1>1, BenchmarkInitInv, PTL DEF BenchmarkSpec

\* Nothing contested is promoted before review in any number of cases (benchmark.py
\* run_trust_benchmark, unsafe_auto_promotions).
THEOREM ContestedNeverPromoted == BenchmarkSpec => []NoUnsafePromotion
<1>1. BenchmarkInv => NoUnsafePromotion
  BY DEF BenchmarkInv
<1>2. QED
  BY <1>1, BenchmarkInvariance, PTL

\* Conflict recall is whole in any number of cases (benchmark.py
\* run_trust_benchmark, conflict_recall).
THEOREM RecallIsWhole == BenchmarkSpec => []EveryConflictDetected
<1>1. BenchmarkInv => EveryConflictDetected
  BY DEF BenchmarkInv
<1>2. QED
  BY <1>1, BenchmarkInvariance, PTL

\* Review by the book ends in the expected facts and no others, in any number of
\* cases (benchmark.py run_trust_benchmark, final_fact_accuracy).
THEOREM BookReviewEndsInTruth == BenchmarkSpec => []ReviewLeadsToTruth
<1>1. BenchmarkInv => ReviewLeadsToTruth
  BY DEF BenchmarkInv
<1>2. QED
  BY <1>1, BenchmarkInvariance, PTL

\* No combination of variations leaves the reviewer without a unique choice
\* (benchmark.py _build_reviews).
THEOREM ReviewerHasOneChoice == BenchmarkSpec => []FailsOnlyWithoutEvidence
<1>1. BenchmarkInv => FailsOnlyWithoutEvidence
  BY DEF BenchmarkInv
<1>2. QED
  BY <1>1, BenchmarkInvariance, PTL
=============================================================================
