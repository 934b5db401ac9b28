---------------------------- MODULE MCBenchmark -----------------------------
(* The profile, the fixtures and the golden file of data/synthetic.        *)
EXTENDS Benchmark, TLC

CONSTANTS api, guide, policy

MCArtifacts == {api, guide, policy}

\* A capture is its JSON text, strings in quotes but for what is converted.
MCWords == {"/change-api", "/v2/changes", "Network Operations", "required",
            "POST", "PUT", "PATCH", "DELETE", "GET", "MERGE",
            "One", "three", "four", "five", "one", "two",
            "30", "60", "90", "120", "180", "365"}
MCLower == [w \in MCWords |-> IF w = "One" THEN "one" ELSE w]
MCIntegerLiterals ==
    "30" :> 30 @@ "60" :> 60 @@ "90" :> 90 @@ "120" :> 120 @@ "180" :> 180 @@ "365" :> 365
MCNumbers == (0 .. 10) \cup {30, 60, 90, 120, 180, 365}
MCJsonString == [w \in MCWords |-> "'" \o w \o "'"]
MCJsonInteger == [n \in MCNumbers |-> ToString(n)]
MCJsonBoolean == [b \in BOOLEAN |-> IF b THEN "true" ELSE "false"]
MCValues == {MCJsonString[w] : w \in MCWords} \cup {MCJsonInteger[n] : n \in MCNumbers}
                \cup {"true", "false"}
MCPyClass == [v \in MCValues |-> IF v = "1" THEN "true" ELSE IF v = "0" THEN "false" ELSE v]

\* Patterns are named after what they read, and so are texts.
MCRule(key, source, type, confidence, authority) ==
    [key |-> key, source |-> source, page |-> 1,
     pattern |-> IF source = guide THEN "legacy " \o key ELSE key,
     value_type |-> type, confidence |-> confidence, authority |-> authority]

MCRules ==
    <<MCRule("base_path", api, "string", 99, 95),
      MCRule("method", api, "string", 99, 95),
      MCRule("method", guide, "string", 97, 60),
      MCRule("relative_path", api, "string", 99, 95),
      MCRule("idempotency", api, "boolean", 99, 95),
      MCRule("timeout", api, "integer", 99, 95),
      MCRule("owner", guide, "string", 96, 70),
      MCRule("approvals", guide, "integer", 97, 60),
      MCRule("approvals", policy, "integer", 99, 95),
      MCRule("retention", guide, "integer", 97, 60),
      MCRule("retention", policy, "integer", 99, 95),
      MCRule("verification", policy, "boolean", 99, 95)>>

MCKeys == {MCRules[n].key : n \in DOMAIN MCRules}

MCMethods == {"PUT", "PATCH", "DELETE", "GET", "MERGE"}
MCCreateText == [m \in MCMethods |-> "guide " \o m]
MCApprovalText == "one" :> "One" @@ "three" :> "three" @@ "four" :> "four" @@ "five" :> "five"
MCRetentionText == [d \in MCNumbers |-> "for " \o ToString(d)]

MCTexts == {"base", "create", "idempotency", "timeout", "get", "owner",
            "One", "three", "four", "five", "independent", "retained", "verification", "audit"}
                \cup {MCCreateText[m] : m \in MCMethods}
                \cup {MCRetentionText[d] : d \in MCNumbers}

MCReads ==
    [base_path |-> "base" :> "/change-api",
     method |-> "create" :> "POST",
     relative_path |-> "create" :> "/v2/changes",
     idempotency |-> "idempotency" :> "required",
     timeout |-> "timeout" :> "30",
     approvals |-> "independent" :> "two",
     retention |-> "retained" :> "180",
     verification |-> "verification" :> "required"]

MCLegacyReads ==
    "legacy method" :> [t \in {MCCreateText[m] : m \in MCMethods} |->
                            CHOOSE m \in MCMethods : MCCreateText[m] = t]
    @@ "legacy owner" :> ("owner" :> "Network Operations")
    @@ "legacy approvals" :> [t \in {"One", "three", "four", "five"} |-> t]
    @@ "legacy retention" :> [t \in {MCRetentionText[d] : d \in DOMAIN MCRetentionText} |->
                            ToString(CHOOSE d \in MCNumbers : MCRetentionText[d] = t)]

MCCaptures ==
    [p \in DOMAIN MCReads \cup DOMAIN MCLegacyReads |->
        LET reads == (MCReads @@ MCLegacyReads)[p]
        IN  [t \in MCTexts |-> {reads[u] : u \in {t} \cap DOMAIN reads}]]

MCBlock(id, text, confidence) ==
    [block_id |-> id, page |-> 1, text |-> text, confidence |-> confidence]

MCFixtures ==
    api :> <<MCBlock("api_summary", "base", 99),
             MCBlock("api_create", "create", 99),
             MCBlock("api_idempotency", "idempotency", 99),
             MCBlock("api_timeout", "timeout", 99),
             MCBlock("api_get", "get", 99)>>
    @@ guide :> <<MCBlock("ops_owner", "owner", 96),
                  MCBlock("ops_create", "guide PUT", 97),
                  MCBlock("ops_approval", "One", 97),
                  MCBlock("ops_retention", "for 90", 97)>>
    @@ policy :> <<MCBlock("policy_approval", "independent", 99),
                   MCBlock("policy_retention", "retained", 99),
                   MCBlock("policy_verification", "verification", 99),
                   MCBlock("policy_audit", "audit", 99)>>

\* As they are, and with a guide that names no owner.
MCFixtureInputs == {MCFixtures, [MCFixtures EXCEPT ![guide] = Tail(@)]}

MCRow(key, value, status) == [key |-> key, value |-> value, expected_status |-> status]

MCGoldenAssertions ==
    {MCRow("base_path", "'/change-api'", "accepted"),
     MCRow("method", "'POST'", "conflicted"), MCRow("method", "'PUT'", "conflicted"),
     MCRow("relative_path", "'/v2/changes'", "accepted"),
     MCRow("idempotency", "true", "accepted"),
     MCRow("timeout", "30", "accepted"),
     MCRow("owner", "'Network Operations'", "review_required"),
     MCRow("approvals", "1", "conflicted"), MCRow("approvals", "2", "conflicted"),
     MCRow("retention", "90", "conflicted"), MCRow("retention", "180", "conflicted"),
     MCRow("verification", "true", "accepted")}

MCGoldenFacts ==
    [method |-> "'POST'", owner |-> "'Network Operations'",
     approvals |-> "2", retention |-> "180"]
=============================================================================
