--------------------------- MODULE MCPlatformJobs ---------------------------
(* Small instances of PlatformJobs for TLC.                                *)
EXTENDS PlatformJobsLease, TLC

CONSTANTS j1, j2, w1, w2, s1, s2, c1, c2

TwoAttempts == [j \in Job |-> 2]
SameRank == [j \in Job |-> 0]
AllQueues == [w \in Worker |-> Job]

\* j1 is the job with the higher priority.
RankByJob == [j \in Job |-> IF j = j1 THEN 0 ELSE 1]

Symmetry == Permutations(Worker) \cup Permutations(Slot)
            \cup Permutations(Caller)

=============================================================================
