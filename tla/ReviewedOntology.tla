-------------------------- MODULE ReviewedOntology --------------------------
(***************************************************************************)
(* What the intake service promises whoever reads a run: an ontology that  *)
(* reviewers amend one fact key at a time.  A reviewer works on a draft,   *)
(* the ontology as it was read, and what is published is that draft        *)
(* amended: the last one to publish wins.  Nothing is said here of         *)
(* sources, policies, clocks, tables or the ledger.                        *)
(*                                                                         *)
(* An ontology is a record: the keys whose sources contradict each other,  *)
(* the keys that were decided on, and per key its facts so far.            *)
(***************************************************************************)
EXTENDS Integers, Sequences

CONSTANTS
    Keys,       \* fact keys
    Reviewers

VARIABLES
    ontology,   \* what is published: none or one
    drafts      \* drafts[r]: what reviewer r has read: none or one

vars == <<ontology, drafts>>

Init ==
    /\ ontology = {}
    /\ drafts = [r \in Reviewers |-> {}]

\* The first ontology has no decisions, and no fact on a contested key.
IsIntake(new) ==
    /\ new.decided = {}
    /\ \A key \in Keys :
        /\ Len(new.facts[key]) <= 1
        /\ key \in new.contested => new.facts[key] = <<>>

Publish ==
    /\ ontology = {}
    /\ \E new \in ontology' : ontology' = {new} /\ IsIntake(new)
    /\ UNCHANGED drafts

Read(r) ==
    /\ drafts[r] = {}
    /\ ontology # {}
    /\ drafts' = [drafts EXCEPT ![r] = ontology]
    /\ UNCHANGED ontology

\* One key is decided on, and gets at most one new version; every other key
\* stays as it was in the draft.
Amends(new, draft, key) ==
    /\ new.contested = draft.contested
    /\ new.decided = draft.decided \cup {key}
    /\ \A k \in Keys \ {key} : new.facts[k] = draft.facts[k]
    /\ \/ new.facts[key] = draft.facts[key]
       \/ \E fact \in {new.facts[key][Len(new.facts[key])]} :
            new.facts[key] = Append(draft.facts[key], fact)

Amend(r) ==
    /\ \E new \in ontology', draft \in drafts[r], key \in Keys :
        ontology' = {new} /\ Amends(new, draft, key)
    /\ drafts' = [drafts EXCEPT ![r] = {}]

\* Drafts are lost: one in an error, all of them in a restart.
Abandon ==
    /\ \E lost \in SUBSET Reviewers :
        drafts' = [r \in Reviewers |-> IF r \in lost THEN {} ELSE drafts[r]]
    /\ UNCHANGED ontology

Next ==
    \/ Publish
    \/ \E r \in Reviewers : Read(r) \/ Amend(r)
    \/ Abandon

Spec == Init /\ [][Next]_vars

-----------------------------------------------------------------------------

ContestedDecided(o) ==
    \A key \in o.contested \cap Keys : o.facts[key] # <<>> => key \in o.decided

\* No contested key has a fact before someone has decided on it
\* (docs/ARCHITECTURE.md:39), in what is published and in every draft.
ContestedAwaitsDecision ==
    /\ \A o \in ontology : ContestedDecided(o)
    /\ \A r \in Reviewers : \A o \in drafts[r] : ContestedDecided(o)
=============================================================================
