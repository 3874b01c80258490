------------------------- MODULE MCAccountIdentities -------------------------
(* The identities of two accounts, one request after the other, and of two    *)
(* addresses one that the other matches as a pattern.                         *)
EXTENDS AccountIdentities

CONSTANTS e1, e2

Wildcards == [e \in Address |-> IF e = e1 THEN {e1, e2} ELSE {e}]
=============================================================================
