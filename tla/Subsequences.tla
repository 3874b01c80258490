----------------------------- MODULE Subsequences -----------------------------
(* What a filter leaves of a list: its elements at some places, in order.      *)
EXTENDS Naturals, FiniteSets

\* The k-th of a set of numbers.
Nth(S, k) == CHOOSE i \in S : Cardinality({j \in S : j < i}) = k - 1

\* The elements of s at the given places.
Picked(s, places) == [k \in 1..Cardinality(places) |-> s[Nth(places, k)]]

===============================================================================
