----------------------------- MODULE MCCompiler -----------------------------
(* A guide and a policy that state the same count, and a flag.             *)
EXTENDS CompilerLoop, TLC

CONSTANTS count, verify, guide, policy

MCKeys == {count, verify}
MCArtifacts == {guide, policy}
MCWords == {"two", "Two", "2", "3", "many", "Required", "maybe"}
MCLower == [w \in MCWords |->
    CASE w = "Two" -> "two" [] w = "Required" -> "required" [] OTHER -> w]
MCIntegerLiterals == "2" :> 2 @@ "3" :> 3
MCMeans == [w \in MCWords |->
    CASE w \in {"two", "Two", "2"} -> "2" [] w = "Required" -> "true" [] OTHER -> w]

\* JSON values are written as their JSON text.
MCJsonString == [w \in MCWords |-> "'" \o w \o "'"]
MCJsonInteger == [n \in 0 .. 10 |-> ToString(n)]
MCJsonBoolean == [b \in BOOLEAN |-> IF b THEN "true" ELSE "false"]
MCValues == {MCJsonString[w] : w \in MCWords} \cup {MCJsonInteger[n] : n \in 0 .. 10}
                \cup {"true", "false"}
MCPyClass == [v \in MCValues |-> IF v = "1" THEN "true" ELSE IF v = "0" THEN "false" ELSE v]

MCRule(key, source, pattern, type, confidence, authority) ==
    [key |-> key, source |-> source, page |-> 1, pattern |-> pattern,
     value_type |-> type, confidence |-> confidence, authority |-> authority]

MCRules ==
    <<MCRule(count, guide, "approvals", "integer", 97, 60),
      MCRule(count, policy, "approvals", "integer", 99, 95),
      MCRule(verify, policy, "verification", "boolean", 99, 95)>>

\* Texts are named by what they state: approvals, verification or both.
\* A "quorum" has no number in it, and what surrounds the 3 of "3..." is long.
MCTexts == {"Two", "2", "3", "many", "Required", "maybe", "2,Required", "none",
            "quorum", "3..."}
MCCaptures ==
    [approvals |-> [t \in MCTexts |->
        CASE t \in {"Two", "2", "3", "many"} -> {t}
          [] t = "2,Required" -> {"2"}
          [] t = "3..." -> {"3"}
          [] t = "quorum" -> {NoGroup}
          [] OTHER -> {}],
     verification |-> [t \in MCTexts |->
        CASE t \in {"Required", "maybe"} -> {t}
          [] t = "2,Required" -> {"Required"}
          [] OTHER -> {}]]

MCUnquotable == {<<"approvals", "3...">>}

MCBlocks(texts, pages, confidences) ==
    [text : texts, page : pages, confidence : confidences]

MCUpTo(n, S) == UNION {[1 .. k -> S] : k \in 0 .. n}

MCDocumentInputs ==
    {guide :> g @@ policy :> p :
        g \in MCUpTo(1, MCBlocks({"Two", "3", "many", "quorum", "3..."}, {1}, {NoConfidence}))
                \cup {NotExtracted},
        p \in MCUpTo(3, MCBlocks({"2", "many", "2,Required", "maybe"}, {1, 2},
                                 {NoConfidence, 90}))}
=============================================================================
