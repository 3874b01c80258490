------------------------------- MODULE JobLease -------------------------------
(***************************************************************************)
(* What the job queue promises the handlers of platform_jobs, without its  *)
(* snapshots, heartbeats, clocks and overlapping ticks: a job is leased to *)
(* one holder at a time, every lease is counted, a lease whose holder is   *)
(* gone is taken back, and a job that is done is never leased again.       *)
(* PlatformJobsLease states that the queue of PlatformJobs implements it.  *)
(***************************************************************************)
EXTENDS Naturals

CONSTANTS Job, Holder, Nobody

VARIABLES
    phase,    \* of every job
    spent,    \* leases granted so far
    holds     \* the job each holder has, or Nobody

leaseVars == <<phase, spent, holds>>

Phase == {"absent", "waiting", "leased", "done", "dropped"}

LeaseTypeOK ==
    /\ phase \in [Job -> Phase]
    /\ spent \in [Job -> Nat]
    /\ holds \in [Holder -> Job \cup {Nobody}]

LeaseInit ==
    /\ phase = [j \in Job |-> "absent"]
    /\ spent = [j \in Job |-> 0]
    /\ holds = [h \in Holder |-> Nobody]

Held(j) == \E h \in Holder : holds[h] = j

Accept(j) ==
    /\ phase[j] = "absent"
    /\ phase' = [phase EXCEPT ![j] = "waiting"]
    /\ UNCHANGED <<spent, holds>>

Grant(h, j) ==
    /\ phase[j] = "waiting"
    /\ holds[h] = Nobody
    /\ phase' = [phase EXCEPT ![j] = "leased"]
    /\ spent' = [spent EXCEPT ![j] = @ + 1]
    /\ holds' = [holds EXCEPT ![h] = j]

\* The result is on record before the holder lets the job go.
Finish(h) ==
    /\ holds[h] # Nobody
    /\ phase' = [phase EXCEPT ![holds[h]] = "done"]
    /\ UNCHANGED <<spent, holds>>

\* The lease ends without a result: the job waits for the next, or is given up.
Return(h) ==
    /\ holds[h] # Nobody
    /\ phase[holds[h]] = "leased"
    /\ \E next \in {"waiting", "dropped"} :
         phase' = [phase EXCEPT ![holds[h]] = next]
    /\ holds' = [holds EXCEPT ![h] = Nobody]
    /\ UNCHANGED spent

\* Holders that have recorded their result, or that are gone with their process.
LetGo ==
    /\ UNCHANGED <<phase, spent>>
    /\ holds' \in [Holder -> Job \cup {Nobody}]
    /\ \A h \in Holder : holds'[h] \in {holds[h], Nobody}

TakeBack(j) ==
    /\ phase[j] = "leased"
    /\ ~Held(j)
    /\ \E next \in {"waiting", "dropped"} : phase' = [phase EXCEPT ![j] = next]
    /\ UNCHANGED <<spent, holds>>

LeaseNext ==
    \/ LetGo
    \/ \E j \in Job : Accept(j) \/ TakeBack(j)
    \/ \E h \in Holder : Finish(h) \/ Return(h)
    \/ \E h \in Holder, j \in Job : Grant(h, j)

LeaseSpec == LeaseInit /\ [][LeaseNext]_leaseVars

-----------------------------------------------------------------------------
(* What follows from it.                                                   *)

\* No two holders have one job.
OneHolder ==
    \A g, h \in Holder : holds[g] = holds[h] /\ holds[g] # Nobody => g = h

\* A job that is held is leased, or done and about to be let go.
HeldIsLeased ==
    \A h \in Holder : holds[h] # Nobody => phase[holds[h]] \in {"leased", "done"}

\* No lease is forgotten, and a job that is done stays so.
LeasesCount ==
    [][\A j \in Job : /\ spent'[j] >= spent[j]
                      /\ phase[j] = "done" => phase'[j] = "done"]_leaseVars

=============================================================================
