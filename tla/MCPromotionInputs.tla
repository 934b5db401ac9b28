------------------------- MODULE MCPromotionInputs -------------------------
(* Two keys, up to three candidates, decisions at two times.              *)
EXTENDS PromotionInputs, TLC

CONSTANTS method, verify, get, post, put, guide, policy

MCKeys == {method, verify}
MCValues == {get, post, put}
MCPyClass == [v \in MCValues |-> v]
MCArtifacts == {guide, policy}

MCAssertion(key, value, source, authority, status) ==
    [key |-> key, value |-> value, evidence |-> source,
     confidence |-> 98, authority |-> authority, status |-> status]

MCAssertionInputs ==
    {<<MCAssertion(method, get, guide, 95, "conflicted"),
       MCAssertion(method, post, policy, 90, "conflicted")>>,
     <<MCAssertion(method, post, guide, 80, "review_required"),
       MCAssertion(method, post, policy, 70, "review_required")>>,
     <<MCAssertion(verify, post, guide, 90, "accepted"),
       MCAssertion(verify, post, policy, 90, "accepted")>>,
     <<MCAssertion(verify, post, guide, 90, "accepted"),
       MCAssertion(verify, post, policy, 80, "review_required")>>}

\* The fingerprints of the assertions above, and of the second one before
\* its source was edited.
MCFingerprints ==
    {Fingerprint(a[i]) : a \in MCAssertionInputs, i \in 1 .. 2}
        \cup {<<method, put, policy>>}

MCDecisionInputs ==
    {d \in [op : {0}, assertion : 1 .. 3, fingerprint : MCFingerprints,
            outcome : ReviewOutcome, corrected_value : {put, NoValue},
            created_at : 1 .. 2] :
        /\ d.outcome = "correct" <=> d.corrected_value # NoValue
        /\ d.assertion = 1 => d.fingerprint[3] = guide
        /\ d.assertion = 2 => d.fingerprint[3] = policy /\ d.fingerprint[1] = method
        /\ d.assertion = 3 => d.fingerprint = <<method, get, guide>>}
=============================================================================
