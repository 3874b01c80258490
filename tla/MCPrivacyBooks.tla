---------------------------- MODULE MCPrivacyBooks ----------------------------
(* Two instances in one run: the books of two requests of a user without   *)
(* photos, whom administrators may cancel; and one deletion of a user with *)
(* photos who goes on adding them and may delete the account alone.        *)
EXTENDS MCPrivacyFulfilment

VARIABLE scope

ScopedInit ==
    /\ scope \in {"books", "cleanup"}
    /\ Init
    /\ scope = "books" => stored = {}

ScopedNext ==
    /\ Next
    /\ UNCHANGED scope
    /\ IF scope = "books" THEN stored' = {} /\ leaving' = {}
       ELSE /\ request'[q2] = NotSubmitted
            /\ request'[q1].status # "cancelled"

ScopedSpec == ScopedInit /\ [][ScopedNext]_<<vars, scope>>

=============================================================================
