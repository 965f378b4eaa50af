------------------------------ MODULE MCPaging ------------------------------
(* An instance of Paging for model checking.                                 *)
EXTENDS Paging

CONSTANTS c0, owner, other

(* Keys are interchangeable: new ones are used in the order of their numbers.*)
InOrder ==
    LET used == claimed' \cup {d.key : d \in inFlight'} IN used = 1 .. Cardinality(used)
=============================================================================
