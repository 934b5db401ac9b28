------------------------------ MODULE Compiler ------------------------------
(***************************************************************************)
(* application/compiler.py: the profile's rules are matched against the    *)
(* blocks extracted from the source documents, and what a pattern captures *)
(* is converted to a JSON value.  Pure operators, no state.                *)
(*                                                                         *)
(* Regular expressions are tables: Captures[pattern][text] holds what the  *)
(* group 'value' captures in a text, normalised and stripped, or nothing   *)
(* where there is no match.                                                *)
(***************************************************************************)
EXTENDS TrustKernel

CONSTANTS
    Rules,              \* the profile's assertion rules, in order
    Captures,
    NoGroup,            \* the capture of a group that takes no part in the match
    Unquotable,         \* <<pattern, text>>: the match is empty or too long to quote
    Lower,              \* str.lower on what is captured
    IntegerLiterals,    \* what int() accepts, and the number it makes of it
    JsonString,         \* the JSON value of a string
    JsonInteger,        \* of a number
    JsonBoolean,        \* of a truth value
    NoConfidence,       \* a block extracted without a confidence
    NotExtracted        \* no document for a source

ValueType == {"string", "integer", "boolean"}

AssertionRule ==
    [key : Keys, source : Artifacts, page : Nat \ {0}, pattern : DOMAIN Captures,
     value_type : ValueType, confidence : Percent, authority : Percent]

\* A pattern has one group 'value', and re.search finds one match of it.
ASSUME ProfileAssumption ==
    /\ Rules \in Seq(AssertionRule)
    /\ \A pattern \in DOMAIN Captures :
        \A text \in DOMAIN Captures[pattern] :
            \A r, s \in Captures[pattern][text] : r = s

-----------------------------------------------------------------------------
(* _coerce_value: none or one.                                             *)

IntegerWords ==
    [zero |-> 0, one |-> 1, two |-> 2, three |-> 3, four |-> 4, five |-> 5,
     six |-> 6, seven |-> 7, eight |-> 8, nine |-> 9, ten |-> 10]

TrueValues == {"required", "mandatory", "true", "yes"}
FalseValues == {"optional", "not required", "false", "no"}

\* Mutant: a number in words stays a word.
CoerceIntegerLeavingWords(raw) ==
    {JsonString[w] : w \in {Lower[raw]} \cap DOMAIN IntegerWords}
        \cup {JsonInteger[IntegerLiterals[r]] :
                r \in {s \in {raw} \cap DOMAIN IntegerLiterals :
                        Lower[s] \notin DOMAIN IntegerWords}}

CoerceInteger(raw) ==
    {JsonInteger[IntegerWords[w]] : w \in {Lower[raw]} \cap DOMAIN IntegerWords}
        \cup {JsonInteger[IntegerLiterals[r]] :
                r \in {s \in {raw} \cap DOMAIN IntegerLiterals :
                        Lower[s] \notin DOMAIN IntegerWords}}

CoerceBoolean(raw) ==
    {JsonBoolean[b] : b \in {b \in BOOLEAN :
        Lower[raw] \in IF b THEN TrueValues ELSE FalseValues}}

Coerce(raw, value_type) ==
    CASE value_type = "string" -> {JsonString[raw]}
      [] value_type = "integer" -> CoerceInteger(raw)
      [] value_type = "boolean" -> CoerceBoolean(raw)

-----------------------------------------------------------------------------
(* _find_evidence: none or one.                                            *)

\* Mutant: blocks are searched in the order of the document.
SearchedInOrder(rule, blocks, i, j) == i < j

\* Block i is searched before block j: those of the declared page come first.
SearchedBefore(rule, blocks, i, j) ==
    \/ blocks[i].page = rule.page /\ blocks[j].page # rule.page
    \/ (blocks[i].page = rule.page <=> blocks[j].page = rule.page) /\ i < j

Matches(rule, block) == Captures[rule.pattern][block.text] # {}

FindEvidence(rule, blocks) ==
    LET matching == {i \in DOMAIN blocks : Matches(rule, blocks[i])}
    IN  {blocks[i] : i \in {i \in matching :
            \A j \in matching \ {i} : SearchedBefore(rule, blocks, i, j)}}

-----------------------------------------------------------------------------
(* compile.                                                                *)

\* Mutant: a block that was hardly legible is as good as its rule says.
RuleConfidence(rule, block) == rule.confidence

\* The lower of the two, where the block has one.
ConfidenceOf(rule, block) ==
    IF block.confidence = NoConfidence \/ rule.confidence <= block.confidence
    THEN rule.confidence
    ELSE block.confidence

Captured(rule, block) == Captures[rule.pattern][block.text]

ValuesRead(rule, block) ==
    UNION {Coerce(raw, rule.value_type) : raw \in Captured(rule, block) \ {NoGroup}}

Quotable(rule, block) == <<rule.pattern, block.text>> \notin Unquotable

\* There is nothing to strip where the group takes no part, and a locator
\* refuses a quote that is empty or too long (models.py EvidenceLocator).
Breaks(rule, block) ==
    \/ NoGroup \in Captured(rule, block)
    \/ ValuesRead(rule, block) # {} /\ ~Quotable(rule, block)

ClaimsFrom(rule, block) ==
    {[key |-> rule.key, value |-> value, evidence |-> rule.source,
      confidence |-> ConfidenceOf(rule, block), authority |-> rule.authority]
        : value \in {v \in ValuesRead(rule, block) : Quotable(rule, block)}}

Extracted(rule, documents) == documents[rule.source] # NotExtracted

EvidenceOf(rule, documents) ==
    IF Extracted(rule, documents)
    THEN FindEvidence(rule, documents[rule.source])
    ELSE {}

\* What a rule makes of the documents: none or one.
ClaimsOf(rule, documents) ==
    UNION {ClaimsFrom(rule, block) : block \in EvidenceOf(rule, documents)}

\* The claims of all rules in the profile's order, or none of them.
Compile(documents) ==
    IF \E n \in DOMAIN Rules : ClaimsOf(Rules[n], documents) = {}
    THEN {}
    ELSE {[n \in DOMAIN Rules |->
            CHOOSE claim \in ClaimsOf(Rules[n], documents) : TRUE]}
=============================================================================
