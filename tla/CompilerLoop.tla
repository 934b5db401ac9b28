---------------------------- MODULE CompilerLoop ----------------------------
(***************************************************************************)
(* AssertionCompiler.compile statement by statement: one rule after the    *)
(* other, its claim or the reason that it has none, and at the end all     *)
(* claims or an error that names every reason.  An exception that is not   *)
(* caught leaves the loop at once.                                         *)
(***************************************************************************)
EXTENDS Compiler

CONSTANTS
    DocumentInputs,     \* what may have been extracted
    Means               \* Means[raw]: what a reader takes a capture for

ASSUME DocumentAssumption ==
    \A docs \in DocumentInputs : \A source \in Artifacts :
        docs[source] # NotExtracted =>
            /\ DOMAIN docs[source] \subseteq Nat
            /\ \A i \in DOMAIN docs[source] :
                /\ docs[source][i].confidence \in Percent \cup {NoConfidence}
                /\ \A pattern \in DOMAIN Captures :
                        docs[source][i].text \in DOMAIN Captures[pattern]

\* A capture that states a number, in words or in digits, or a truth value.
StatesNumber(raw) == Lower[raw] \in DOMAIN IntegerWords \/ raw \in DOMAIN IntegerLiterals

NumberStated(raw) ==
    IF Lower[raw] \in DOMAIN IntegerWords
    THEN IntegerWords[Lower[raw]]
    ELSE IntegerLiterals[raw]

StatesTruth(raw) == Lower[raw] \in TrueValues \cup FalseValues

\* JSON texts differ where what they stand for differs, and a reader takes two
\* captures for the same when they state the same number or truth value.
ASSUME MeaningAssumption ==
    /\ \A i, j \in DOMAIN JsonInteger : JsonInteger[i] = JsonInteger[j] => i = j
    /\ JsonBoolean[TRUE] # JsonBoolean[FALSE]
    /\ \A pattern \in DOMAIN Captures : \A text \in DOMAIN Captures[pattern] :
            Captures[pattern][text] \ {NoGroup} \subseteq DOMAIN Means
    /\ \A r \in DOMAIN Means : StatesNumber(r) => NumberStated(r) \in DOMAIN JsonInteger
    /\ \A r, s \in DOMAIN Means :
        /\ StatesNumber(r) /\ StatesNumber(s) =>
                (Means[r] = Means[s] <=> NumberStated(r) = NumberStated(s))
        /\ StatesTruth(r) /\ StatesTruth(s) =>
                (Means[r] = Means[s] <=> (Lower[r] \in TrueValues <=> Lower[s] \in TrueValues))

VARIABLES
    documents,
    next,       \* the rule whose turn it is
    compiled,   \* the claims so far
    missing,    \* rules without a claim, each with its reason
    outcome     \* "compiling", "returned", "raised" or "broken"

vars == <<documents, next, compiled, missing, outcome>>

Init ==
    /\ documents \in DocumentInputs
    /\ next = 1
    /\ compiled = <<>>
    /\ missing = {}
    /\ outcome = "compiling"

Miss(reason) ==
    /\ missing' = missing \cup {<<next, reason>>}
    /\ UNCHANGED compiled

SourceMissing(rule) ==
    /\ ~Extracted(rule, documents)
    /\ Miss("source was not extracted")

PatternMissing(rule) ==
    /\ Extracted(rule, documents)
    /\ EvidenceOf(rule, documents) = {}
    /\ Miss("pattern")

CoercionFails(rule) ==
    /\ EvidenceOf(rule, documents) # {}
    /\ ClaimsOf(rule, documents) = {}
    /\ \A block \in EvidenceOf(rule, documents) : ~Breaks(rule, block)
    /\ Miss("cannot coerce")

Compiles(rule) ==
    /\ \E claim \in ClaimsOf(rule, documents) : compiled' = Append(compiled, claim)
    /\ UNCHANGED missing

CompileRule ==
    /\ outcome = "compiling"
    /\ next \in DOMAIN Rules
    /\ LET rule == Rules[next]
       IN  \/ SourceMissing(rule)
           \/ PatternMissing(rule)
           \/ CoercionFails(rule)
           \/ Compiles(rule)
    /\ next' = next + 1
    /\ UNCHANGED <<documents, outcome>>

\* An AttributeError or a ValidationError: neither is a reason that is noted.
Break ==
    /\ outcome = "compiling"
    /\ next \in DOMAIN Rules
    /\ \E block \in EvidenceOf(Rules[next], documents) : Breaks(Rules[next], block)
    /\ outcome' = "broken"
    /\ UNCHANGED <<documents, next, compiled, missing>>

\* Mutant: what did compile is returned.
FinishPartly ==
    /\ outcome = "compiling"
    /\ next \notin DOMAIN Rules
    /\ outcome' = IF compiled = <<>> THEN "raised" ELSE "returned"
    /\ UNCHANGED <<documents, next, compiled, missing>>

Finish ==
    /\ outcome = "compiling"
    /\ next \notin DOMAIN Rules
    /\ outcome' = IF missing = {} THEN "returned" ELSE "raised"
    /\ UNCHANGED <<documents, next, compiled, missing>>

Next == CompileRule \/ Break \/ Finish

Spec == Init /\ [][Next]_vars

-----------------------------------------------------------------------------

BlocksOf(rule) == {documents[rule.source][i] : i \in DOMAIN documents[rule.source]}

\* What is captured, for rule n, in the blocks that it may be read from:
\* those of its page when one of them matches, any other otherwise.
Readings(n) ==
    LET matching == {b \in BlocksOf(Rules[n]) : Matches(Rules[n], b)}
        onPage == {b \in matching : b.page = Rules[n].page}
    IN  IF onPage # {} THEN onPage ELSE matching

\* Nothing is manufactured (docs/NUTRIENT_DWS.md:11): each claim that is
\* returned is the typed reading of a block of its source, and of a block of
\* the declared page when one matches there.
ClaimsAreRead ==
    outcome = "returned" =>
        \A n \in DOMAIN Rules : \E block \in Readings(n) :
            compiled[n] \in ClaimsFrom(Rules[n], block)

\* All or nothing, however failures and successes mix (compiler.py compile,
\* docs/DEVPOST_DRAFT.md:71): one claim per rule in the profile's order, or an
\* error that names each rule that has none, once; and what breaks off has a
\* rule that could not have had one.
AllOrNothing ==
    /\ outcome = "returned" => {compiled} = Compile(documents)
    /\ outcome = "raised" =>
        /\ {m[1] : m \in missing} =
                {n \in DOMAIN Rules : ClaimsOf(Rules[n], documents) = {}}
        /\ \A m, k \in missing : m[1] = k[1] => m = k
        /\ missing # {}
    /\ outcome = "broken" => Compile(documents) = {}

\* Together with the trust policy: what is accepted without a reviewer has a
\* block behind it that was extracted with the confidence the policy asks for
\* (compiler.py compile, policies.py assess).
AcceptedIsWellRead ==
    outcome = "returned" =>
        \A n \in DOMAIN Rules : Assess(compiled)[n].status = "accepted" =>
            /\ Rules[n].confidence >= AutoAcceptConfidence
            /\ \E block \in Readings(n) :
                /\ compiled[n].value \in {claim.value : claim \in ClaimsFrom(Rules[n], block)}
                /\ block.confidence # NoConfidence =>
                        block.confidence >= AutoAcceptConfidence

\* Numbers and truth values that mean the same never contradict each other,
\* in whatever words the sources put them, and those that do not always do
\* (compiler.py _coerce_value, policies.py assess).
ConflictMeansDisagreement ==
    outcome = "returned" =>
        \A m, n \in DOMAIN Rules :
            /\ Rules[m].key = Rules[n].key
            /\ Rules[m].value_type = Rules[n].value_type
            /\ Rules[m].value_type # "string"
            => \E a \in EvidenceOf(Rules[m], documents), b \in EvidenceOf(Rules[n], documents) :
                \E r \in Captures[Rules[m].pattern][a.text],
                   s \in Captures[Rules[n].pattern][b.text] :
                    compiled[m].value = compiled[n].value <=> Means[r] = Means[s]
=============================================================================
