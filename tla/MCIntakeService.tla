-------------------------- MODULE MCIntakeService --------------------------
(***************************************************************************)
(* Small runs for TLC: two fact keys, two documents.  yes and one stand    *)
(* for JSON true and 1, which are two JSON texts and one Python value.     *)
(***************************************************************************)
EXTENDS IntakeProperties, TLC

CONSTANTS method, verify, get, post, yes, one, guide, policy

MCKeys == {method, verify}
MCValues == {get, post, yes, one}
MCPyClass == [v \in MCValues |-> IF v = one THEN yes ELSE v]
MCArtifacts == {guide, policy}

MCContractValues == (method :> {get, post}) @@ (verify :> {yes})

MCClaim(key, value, source, confidence, authority) ==
    [key |-> key, value |-> value, evidence |-> source,
     confidence |-> confidence, authority |-> authority]

\* method in conflict between two sure sources; verify accepted at once.
MCConflict == <<MCClaim(method, get, guide, 99, 95),
                MCClaim(method, post, policy, 99, 90),
                MCClaim(verify, yes, policy, 98, 90)>>

\* method supported by a sure and an unsure source; verify a little under
\* the confidence threshold.
MCMixed == <<MCClaim(verify, yes, guide, 97, 95),
             MCClaim(method, post, guide, 99, 89),
             MCClaim(method, post, policy, 98, 90)>>

\* Two unsure sources that agree, and a conflict that could not be accepted.
MCUnsure == <<MCClaim(method, post, guide, 90, 80),
              MCClaim(verify, yes, guide, 99, 95),
              MCClaim(method, post, policy, 90, 80),
              MCClaim(verify, one, policy, 50, 50)>>

MCIntakes == {MCConflict, MCMixed, MCUnsure}

MCCorrections == {one, get}

MCWorkerSymmetry == Permutations(Workers)
=============================================================================
