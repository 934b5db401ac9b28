----------------------------- MODULE AgentGate -----------------------------
(***************************************************************************)
(* The downstream agent gate: application/agent_gate.py.  Pure operators   *)
(* over the facts of a run, as TrustKernel keeps them: per key, the        *)
(* versions in the order they were promoted.                               *)
(***************************************************************************)
EXTENDS Integers, Sequences

CONSTANTS
    RequiredFactKeys,   \* REQUIRED_FACT_KEYS
    ContractValues      \* ContractValues[key]: the values of the type and
                        \* range the operation contract takes for key

\* _latest_facts: the highest version, the earlier of two equal ones.
LatestFact(history) ==
    CHOOSE f \in {history[i] : i \in DOMAIN history} :
        \E i \in DOMAIN history :
            /\ f = history[i]
            /\ \A j \in DOMAIN history \ {i} :
                \/ history[i].version > history[j].version
                \/ history[i].version = history[j].version /\ i < j

MissingFactKeys(facts) == {key \in RequiredFactKeys : facts[key] = <<>>}

\* Mutant: the first version of a fact is looked at.
InvalidFirstKeys(facts) ==
    {key \in RequiredFactKeys \ MissingFactKeys(facts) :
        facts[key][1].value \notin ContractValues[key]}

InvalidFactKeys(facts) ==
    {key \in RequiredFactKeys \ MissingFactKeys(facts) :
        LatestFact(facts[key]).value \notin ContractValues[key]}

\* build_agent_execution_gate: missing facts are reported first, then
\* ill-typed ones; the contract is issued only when there are neither.
BuildGate(facts) ==
    LET missing == MissingFactKeys(facts)
        invalid == IF missing = {} THEN InvalidFactKeys(facts) ELSE {}
        ready == missing = {} /\ invalid = {}
    IN  [status |-> IF ready THEN "ready" ELSE "blocked",
         missing |-> missing,
         invalid |-> invalid,
         contract |-> [key \in IF ready THEN RequiredFactKeys ELSE {} |->
                        LatestFact(facts[key])]]
=============================================================================
