---------------------------- MODULE MCCandidates ----------------------------
(* An instance of Candidates for model checking.                             *)
EXTENDS Candidates, TLC

CONSTANTS
    c0, pol, owner,
    ShortVersions, ShortIntents   \* bounds for histories other than a stretch

(* Histories that begin like this go on for longer: Version 2 depends on     *)
(* Version 1, which Version 3 amends.                                        *)
Stretch(history) ==
    /\ 1 .. 3 \subseteq DOMAIN history
    /\ \A i \in 1 .. 3 : history[i].base = 1
    /\ history[2].deps = {1}
    /\ history[3].op = "amend" /\ history[3].from = 1

Within ==
    \/ Len(pins') <= ShortVersions /\ Len(revisions') <= ShortIntents
    \/ Stretch(versions')

(* Keys are interchangeable: new ones are used in the order of their numbers.*)
InOrder ==
    LET used == claimed' \cup {d.key : d \in inFlight'} IN used = 1 .. Cardinality(used)
=============================================================================
