----------------------------- MODULE MCJournal -----------------------------
(* An instance of Journal: the records of one decision.                      *)
EXTENDS Journal, TLC

CONSTANTS h1, h2, init, proposal, evaluation, huge

(* The repository's initialization comes first, an Evaluation after the      *)
(* Proposal of its Version.                                                  *)
DecisionNeeds ==
    init :> {} @@ proposal :> {init} @@ evaluation :> {init, proposal} @@ huge :> {init}
=============================================================================
