------------------------- MODULE MCPrivacyFulfilment -------------------------
(* Small instances of PrivacyFulfilment for TLC.                           *)
EXTENDS PrivacyFulfilment, TLC

CONSTANTS q1, q2, u1, p1, p2, e1, e2

OneUser == [q \in Request |-> u1]

Deletions == [q \in Request |-> "account_deletion"]
DeletionAndExport ==
    [q \in Request |-> IF q = q1 THEN "account_deletion" ELSE "data_export"]
\* Any request but a deletion may be fulfilled by hand.
AllButDeletion == RequestType \ {"account_deletion"}

OwnedByU1 == [p \in Photo |-> u1]

\* The forms in which photo URLs are stored: the bucket's own URLs, or also one
\* as uploads issues them now.
BucketUrls == [p \in Photo |-> "bucket"]
MixedUrls == [p \in Photo |-> IF p = p1 THEN "bucket" ELSE "proxy"]

Symmetry == Permutations(Exec)

=============================================================================
