--------------------------- MODULE PlatformJobsLease ---------------------------
(***************************************************************************)
(* The queue of PlatformJobs implements JobLease while database calls do   *)
(* not fail and nobody but the workers writes rows: a tick holds the job   *)
(* it has claimed until it has recorded the outcome, the status of the row *)
(* tells the phase, and the attempts count the leases.                     *)
(***************************************************************************)
EXTENDS PlatformJobs

PhaseOf(status) ==
    CASE status = "absent" -> "absent"
      [] status \in {"queued", "scheduled", "retry_scheduled"} -> "waiting"
      [] status = "running" -> "leased"
      [] status = "completed" -> "done"
      [] status \in {"failed", "dead_lettered", "cancelled"} -> "dropped"

Lease == INSTANCE JobLease WITH
    Holder <- Run,
    Nobody <- NoJob,
    phase <- [j \in Job |-> PhaseOf(row[j].status)],
    spent <- [j \in Job |-> row[j].attempts],
    holds <- [r \in Run |-> IF Live(r) THEN run[r].job ELSE NoJob]

\* Whatever ticks overlap, handlers outlive their timeout, processes crash and
\* stalled jobs are reclaimed from a list that is no longer true, what the
\* workers do is what a queue of leases does: one holder at a time, every claim
\* counted, completed for good (platform-job.worker.ts, claimNext, complete, fail,
\* reclaimStalled).
ImplementsLease == Lease!LeaseSpec

=============================================================================
