---------------------------- MODULE JobLeaseProofs ----------------------------
(* What every queue of leases keeps, for all jobs and holders: the queue of    *)
(* PlatformJobs inherits it wherever it implements JobLease.                   *)
EXTENDS JobLease, TLAPS

LeaseInv == LeaseTypeOK /\ OneHolder /\ HeldIsLeased

LEMMA LeaseInvInit == LeaseInit => LeaseInv
  BY DEF LeaseInit, LeaseInv, LeaseTypeOK, OneHolder, HeldIsLeased, Phase

\* A job that waits, or is not there yet, is held by nobody.
LEMMA WaitingIsFree ==
  ASSUME LeaseInv, NEW j \in Job, phase[j] \notin {"leased", "done"}, j # Nobody
  PROVE  \A h \in Holder : holds[h] # j
  BY DEF LeaseInv, HeldIsLeased

LEMMA LeaseInvStep == LeaseInv /\ [LeaseNext]_leaseVars => LeaseInv'
<1> SUFFICES ASSUME LeaseInv, [LeaseNext]_leaseVars PROVE LeaseInv'
  OBVIOUS
<1> USE DEF LeaseInv, LeaseTypeOK, Phase
<1>1. CASE LetGo
  BY <1>1 DEF LetGo, OneHolder, HeldIsLeased
<1>2. ASSUME NEW j \in Job, Accept(j) PROVE LeaseInv'
  BY <1>2 DEF Accept, OneHolder, HeldIsLeased
<1>3. ASSUME NEW j \in Job, TakeBack(j) PROVE LeaseInv'
  BY <1>3 DEF TakeBack, Held, OneHolder, HeldIsLeased
<1>4. ASSUME NEW h \in Holder, Finish(h) PROVE LeaseInv'
  <2>1. holds[h] \in Job
    BY <1>4 DEF Finish
  <2> QED
    BY <1>4, <2>1 DEF Finish, OneHolder, HeldIsLeased
<1>5. ASSUME NEW h \in Holder, Return(h) PROVE LeaseInv'
  <2>1. holds[h] \in Job
    BY <1>5 DEF Return
  <2>2. LeaseTypeOK' /\ OneHolder'
    BY <1>5, <2>1 DEF Return, OneHolder
  <2>3. HeldIsLeased'
    BY <1>5, <2>1 DEF Return, OneHolder, HeldIsLeased
  <2> QED
    BY <2>2, <2>3
<1>6. ASSUME NEW h \in Holder, NEW j \in Job, Grant(h, j) PROVE LeaseInv'
  <2>1. LeaseTypeOK'
    BY <1>6 DEF Grant
  <2>2. j # Nobody => \A g \in Holder : holds[g] # j
    BY <1>6, WaitingIsFree DEF Grant
  <2>3. OneHolder'
    BY <1>6, <2>2 DEF Grant, OneHolder
  <2>4. HeldIsLeased'
    BY <1>6, <2>2 DEF Grant, HeldIsLeased
  <2> QED
    BY <2>1, <2>3, <2>4
<1>7. CASE UNCHANGED leaseVars
  BY <1>7 DEF leaseVars, OneHolder, HeldIsLeased
<1> QED
  BY <1>1, <1>2, <1>3, <1>4, <1>5, <1>6, <1>7 DEF LeaseNext

\* A queue of leases never gives one job to two holders, and what is held is
\* leased or done.
THEOREM LeasesAreExclusive == LeaseSpec => [](OneHolder /\ HeldIsLeased)
<1>1. LeaseInv => OneHolder /\ HeldIsLeased
  BY DEF LeaseInv
<1> QED
  BY <1>1, LeaseInvInit, LeaseInvStep, PTL DEF LeaseSpec

\* No step of it forgets a lease or takes a job up again that is done.
LEMMA LeasesCountStep ==
  ASSUME LeaseInv, [LeaseNext]_leaseVars, NEW j \in Job
  PROVE  spent'[j] >= spent[j] /\ (phase[j] = "done" => phase'[j] = "done")
<1> USE DEF LeaseInv, LeaseTypeOK, Phase
<1>1. CASE LetGo
  BY <1>1 DEF LetGo
<1>2. CASE \E k \in Job : Accept(k) \/ TakeBack(k)
  BY <1>2 DEF Accept, TakeBack
<1>3. CASE \E h \in Holder : Finish(h) \/ Return(h)
  BY <1>3 DEF Finish, Return
<1>4. CASE \E h \in Holder, k \in Job : Grant(h, k)
  BY <1>4 DEF Grant
<1>5. CASE UNCHANGED leaseVars
  BY <1>5 DEF leaseVars
<1> QED
  BY <1>1, <1>2, <1>3, <1>4, <1>5 DEF LeaseNext

\* Every claim counts, and completed is for good.
THEOREM LeasesCountAlways == LeaseSpec => LeasesCount
<1>1. LeaseInv /\ [LeaseNext]_leaseVars
        => [\A j \in Job : /\ spent'[j] >= spent[j]
                           /\ phase[j] = "done" => phase'[j] = "done"]_leaseVars
  BY LeasesCountStep
<1> QED
  BY <1>1, LeaseInvInit, LeaseInvStep, PTL DEF LeaseSpec, LeasesCount

=============================================================================
