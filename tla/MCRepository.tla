---------------------------- MODULE MCRepository ----------------------------
(* Instances of Repository for model checking.                               *)
EXTENDS Repository, TLC

CONSTANTS c0, c1, c2, k1, k2, k3, k4, k5, pol, owner

(* Content other than the initial one, and keys, are interchangeable.        *)
ContentAndKeys == Permutations(Content \ {InitialContent}) \cup Permutations(Keys)
=============================================================================
