---------------------------- MODULE MCProcessor ----------------------------
(* Instances of Processor for model checking.                                *)
EXTENDS Processor, TLC

CONSTANTS c0, c1, c2, k1, k2, k3, w1, w2, pol, other, owner

(* The initial content lays down one policy, c1 another, c2 both.            *)
PolicyFiles ==
    [c \in Content |-> IF c = c0 THEN {pol} ELSE IF c = c1 THEN {other} ELSE {pol, other}]
=============================================================================
