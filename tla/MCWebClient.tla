---------------------------- MODULE MCWebClient ----------------------------
(* A contradicted key and one that needs a confirmation; two handlers      *)
(* beside or after the one that loads the latest run.                      *)
EXTENDS WebClient

CONSTANTS method, owner, get, post, network, h1, h2

MCKeyOf == [c \in {get, post, network} |-> IF c = network THEN owner ELSE method]

\* No run yet; one with a decision left; one that is done.
MCStoredRuns == {<<>>, << <<post>> >>, << <<post, network>> >>}
=============================================================================
