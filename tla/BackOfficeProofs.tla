---------------------------- MODULE BackOfficeProofs ----------------------------
(* Proofs about the administrators' desks: first SupportCases, for any number of *)
(* cases, replies, escalations and requests, then TemplatePublishing, for any    *)
(* contents, forms and creators and whatever the bound on versions, then         *)
(* RepitModeration, for any Repits, reports, reviewers, requests and keys, and   *)
(* last the run that visits them (MCBackOffice).                                 *)
(*                                                                               *)
(* The safety properties of support cases follow from one inductive invariant,   *)
(* whose heart is Held: a request whose reply is with the mail provider is the   *)
(* only one, and the row of the reply stays queued until it has recorded the     *)
(* answer, so that the operations that look for queued rows see it.              *)
EXTENDS MCBackOffice, FiniteSetTheorems, TLAPS

-------------------------------------------------------------------------------
(* The inductive invariant                                                     *)

Flying(s) == sender[s].pc \in {"sending", "rejected", "accepted"}
IsQueued(r) == response[r].status = "queued"
IsActive(e) == escalation[e].status \in {"open", "accepted"}

\* Rows and requests that exist name the rows they are about.
Named ==
    /\ \A r \in Response : response[r].status # "none" => response[r].ticket \in Ticket
    /\ \A e \in Escalation : escalation[e].status # "none" => escalation[e].ticket \in Ticket
    /\ \A s \in Sender : sender[s].pc # "idle" =>
          sender[s].ticket \in Ticket /\ sender[s].response \in Response

\* A reply that is with the provider is still queued, in the case of its request,
\* and no second request is sending it.
Held ==
    /\ \A s \in Sender : Flying(s) =>
          /\ IsQueued(sender[s].response)
          /\ response[sender[s].response].ticket = sender[s].ticket
    /\ \A s1, s2 \in Sender :
          Flying(s1) /\ Flying(s2) /\ sender[s1].response = sender[s2].response
            => s1 = s2

\* How often the provider accepted a reply, by what its row and request say.
Counted ==
    /\ \A r \in Response :
          /\ response[r].status \in {"none", "failed"} => mail[r].accepted = 0
          /\ response[r].status = "sent_to_provider" => mail[r].accepted = 1
    /\ \A s \in Sender :
          /\ sender[s].pc \in {"sending", "rejected"} => mail[sender[s].response].accepted = 0
          /\ sender[s].pc = "accepted" => mail[sender[s].response].accepted = 1

\* An escalation is active as long as a transaction that completes it is open.
Working == \A e \in Escalation : work[e] # "none" => IsActive(e)

\* OneInFlight and ResolvedIsQuiet, row by row.
Single ==
    \A q, r \in Response :
        IsQueued(q) /\ IsQueued(r) /\ response[q].ticket = response[r].ticket => q = r
Quiet ==
    /\ \A r \in Response : IsQueued(r) => status[response[r].ticket] \notin Done
    /\ \A e \in Escalation : IsActive(e) => status[escalation[e].ticket] \notin Done

IInv == TypeOK /\ Named /\ Held /\ Counted /\ Working /\ Single /\ Quiet

-------------------------------------------------------------------------------
(* What follows from it in a state                                             *)

LEMMA InFlightFromSingle ==
    ASSUME Single PROVE OneInFlight
<1> SUFFICES ASSUME NEW t \in Ticket PROVE Cardinality(Queued(t)) <= 1
  BY DEF OneInFlight
<1>1. CASE Queued(t) = {}
  BY <1>1, FS_EmptySet
<1>2. CASE Queued(t) # {}
  <2>1. PICK r \in Queued(t) : TRUE
    BY <1>2
  <2>2. Queued(t) = {r}
    BY <2>1 DEF Single, Queued, IsQueued
  <2> QED
    BY <2>2, FS_Singleton
<1> QED
  BY <1>1, <1>2

LEMMA QuietParts ==
    ASSUME Quiet PROVE ResolvedIsQuiet
BY DEF Quiet, ResolvedIsQuiet, Queued, Active, IsQueued, IsActive

LEMMA OutcomeFromCounted ==
    ASSUME Counted, Held, TypeOK PROVE OutcomeIsTrue
<1> SUFFICES ASSUME NEW r \in Response
             PROVE  /\ Outcome(r) = "already_accepted" => mail[r].accepted = 1
                    /\ Outcome(r) = "rejected" =>
                          /\ mail[r].accepted = 0
                          /\ ~\E s \in Sender : sender[s].response = r /\ Flying(s)
  BY DEF OutcomeIsTrue, Flying
<1>1. Outcome(r) = "already_accepted" => response[r].status = "sent_to_provider"
  BY DEF Outcome
<1>2. Outcome(r) = "rejected" => response[r].status = "failed"
  BY DEF Outcome
<1> QED
  BY <1>1, <1>2 DEF Counted, Held, IsQueued

-------------------------------------------------------------------------------
(* Type correctness, step by step                                              *)

LEMMA InitInv == Init => IInv
BY CasesAssumption
DEF Init, IInv, TypeOK, Named, Held, Counted, Working, Single, Quiet, Flying,
    IsQueued, IsActive, ResponseRow, EscalationRow, Attempt, Idle, Done

\* The rows and requests that the actions build are well typed.
LEMMA RowTypes ==
    /\ \A x \in ResponseRow, v \in {"none", "queued", "sent_to_provider", "failed"} :
          [x EXCEPT !.status = v] \in ResponseRow
    /\ \A x \in EscalationRow, v \in {"none", "open", "accepted", "resolved", "returned"} :
          [x EXCEPT !.status = v] \in EscalationRow
    /\ \A x \in [accepted : Nat, lost : Nat] :
          /\ [x EXCEPT !.accepted = @ + 1] \in [accepted : Nat, lost : Nat]
          /\ [x EXCEPT !.accepted = @ + 1].accepted = x.accepted + 1
          /\ [x EXCEPT !.lost = @ + 1] \in [accepted : Nat, lost : Nat]
          /\ [x EXCEPT !.lost = @ + 1].accepted = x.accepted
BY DEF ResponseRow, EscalationRow

\* What the three ways of updating a request's state leave it as.
Becomes(s, pc, t, r, at) ==
    /\ sender' \in [Sender -> Attempt]
    /\ sender'[s].pc = pc
    /\ sender'[s].ticket = t
    /\ sender'[s].response = r
    /\ sender'[s].at = at
    /\ \A d \in Sender : d # s => sender'[d] = sender[d]

LEMMA Looked ==
    ASSUME TypeOK, NEW s \in Sender, NEW t \in Ticket, NEW r \in Response,
           NEW pc \in {"fresh", "retry"},
           sender' = [sender EXCEPT ![s] =
                [Idle EXCEPT !.pc = pc, !.ticket = t, !.response = r]]
    PROVE  Becomes(s, pc, t, r, None)
<1> DEFINE x == [Idle EXCEPT !.pc = pc, !.ticket = t, !.response = r]
<1>1. \A h \in Attempt :
        LET y == [h EXCEPT !.pc = pc, !.ticket = t, !.response = r]
        IN  /\ y \in Attempt
            /\ y.pc = pc /\ y.ticket = t /\ y.response = r /\ y.at = h.at
  BY DEF Attempt
<1>2. /\ x \in Attempt
      /\ x.pc = pc /\ x.ticket = t /\ x.response = r /\ x.at = None
  <2>1. Idle \in Attempt /\ Idle.at = None
    BY DEF Idle, Attempt
  <2> QED
    BY <1>1, <2>1
<1>3. sender' = [sender EXCEPT ![s] = x]
  OBVIOUS
<1> HIDE DEF x
<1> QED
  BY <1>2, <1>3 DEF Becomes, TypeOK

LEMMA MovedTo ==
    ASSUME TypeOK, NEW s \in Sender,
           NEW pc \in {"rejected", "accepted", "booking"},
           sender' = [sender EXCEPT ![s] = [@ EXCEPT !.pc = pc]]
    PROVE  Becomes(s, pc, sender[s].ticket, sender[s].response, sender[s].at)
<1> DEFINE x == [sender[s] EXCEPT !.pc = pc]
<1>1. /\ x \in Attempt
      /\ x.pc = pc /\ x.ticket = sender[s].ticket
      /\ x.response = sender[s].response /\ x.at = sender[s].at
  BY DEF Attempt, TypeOK
<1> HIDE DEF x
<1>2. sender' = [sender EXCEPT ![s] = x]
  BY DEF x, TypeOK
<1> QED
  BY <1>1, <1>2 DEF Becomes, TypeOK

LEMMA ClaimedAt ==
    ASSUME TypeOK, NEW s \in Sender, NEW v \in Status,
           sender' = [sender EXCEPT ![s] = [@ EXCEPT !.pc = "sending", !.at = v]]
    PROVE  Becomes(s, "sending", sender[s].ticket, sender[s].response, v)
<1>1. \A h \in Attempt :
        LET x == [h EXCEPT !.pc = "sending", !.at = v]
        IN  /\ x \in Attempt
            /\ x.pc = "sending" /\ x.ticket = h.ticket
            /\ x.response = h.response /\ x.at = v
  BY DEF Attempt
<1> DEFINE x == [sender[s] EXCEPT !.pc = "sending", !.at = v]
<1>2. /\ x \in Attempt
      /\ x.pc = "sending" /\ x.ticket = sender[s].ticket
      /\ x.response = sender[s].response /\ x.at = v
  BY <1>1 DEF TypeOK
<1>3. sender' = [sender EXCEPT ![s] = x]
  BY DEF TypeOK
<1> HIDE DEF x
<1> QED
  BY <1>2, <1>3 DEF Becomes, TypeOK

LEMMA BecameIdle ==
    ASSUME TypeOK, NEW s \in Sender, sender' = [sender EXCEPT ![s] = Idle]
    PROVE  Becomes(s, "idle", None, None, None)
<1>1. /\ Idle \in Attempt
      /\ Idle.pc = "idle" /\ Idle.ticket = None
      /\ Idle.response = None /\ Idle.at = None
  BY DEF Idle, Attempt
<1> QED
  BY <1>1 DEF Becomes, TypeOK

LEMMA TransitionTypes == \A v \in Status : Transitions[v] \subseteq Status
BY DEF Transitions, Status

-------------------------------------------------------------------------------
(* Steps that change no more than the status of cases                          *)

LEMMA StatusOnly ==
    ASSUME IInv, UNCHANGED <<response, mail, escalation, sender, work>>,
           status' \in [Ticket -> Status \cup {"none"}], forwarding' \subseteq Ticket,
           \A t \in Ticket : status'[t] \in Done =>
              status[t] \in Done \/ (Queued(t) = {} /\ Active(t) = {})
    PROVE  IInv'
<1>1. TypeOK' /\ Named' /\ Held' /\ Counted' /\ Working' /\ Single'
  BY DEF IInv, TypeOK, Named, Held, Counted, Working, Single, Flying, IsQueued, IsActive
<1>2. ASSUME NEW r \in Response, IsQueued(r)
      PROVE  status'[response[r].ticket] \notin Done
  <2>1. response[r].ticket \in Ticket
    BY <1>2 DEF IInv, Named, IsQueued
  <2>2. r \in Queued(response[r].ticket)
    BY <1>2 DEF Queued, IsQueued
  <2> QED
    BY <1>2, <2>1, <2>2 DEF IInv, Quiet
<1>3. ASSUME NEW e \in Escalation, IsActive(e)
      PROVE  status'[escalation[e].ticket] \notin Done
  <2>1. escalation[e].ticket \in Ticket
    BY <1>3 DEF IInv, Named, IsActive
  <2>2. e \in Active(escalation[e].ticket)
    BY <1>3 DEF Active, IsActive
  <2> QED
    BY <1>3, <2>1, <2>2 DEF IInv, Quiet
<1>4. Quiet'
  BY <1>2, <1>3 DEF Quiet, IsQueued, IsActive
<1> QED
  BY <1>1, <1>4 DEF IInv

LEMMA TicketInv ==
    ASSUME IInv, NEW t \in Ticket,
           \/ CreateTicket(t) \/ SubmitForm(t) \/ ForwardSaved(t) \/ ForwardFails(t)
           \/ Assign(t) \/ Release(t) \/ Resolve(t) \/ Reopen(t)
           \/ \E to \in Status : UpdateStatus(t, to)
    PROVE  IInv'
<1> USE DEF Status, Done
<1>0. TypeOK
  BY DEF IInv
<1>1. CASE CreateTicket(t) \/ SubmitForm(t) \/ ForwardSaved(t) \/ ForwardFails(t)
  BY <1>0, <1>1, StatusOnly
  DEF CreateTicket, SubmitForm, ForwardSaved, ForwardFails, TypeOK
<1>2. CASE Assign(t) \/ Release(t) \/ Reopen(t)
  BY <1>0, <1>2, StatusOnly DEF Assign, Release, Reopen, TypeOK
<1>3. CASE Resolve(t)
  BY <1>0, <1>3, StatusOnly DEF Resolve, TypeOK
<1>4. ASSUME NEW to \in Status, UpdateStatus(t, to)
      PROVE  IInv'
  <2>1. to \in Done => status[t] \in Done
    BY <1>0, <1>4 DEF UpdateStatus, Transitions, Exists, TypeOK
  <2> QED
    BY <1>0, <1>4, <2>1, StatusOnly DEF UpdateStatus, TypeOK
<1> QED
  BY <1>1, <1>2, <1>3, <1>4

-------------------------------------------------------------------------------
(* Steps of a request that sends a reply                                       *)

\* A request that neither starts to send nor changes a row.
LEMMA SenderOnly ==
    ASSUME IInv, NEW s \in Sender,
           UNCHANGED <<status, forwarding, response, mail, escalation, work>>,
           NEW pc, NEW t, NEW r, NEW at, Becomes(s, pc, t, r, at),
           pc \in {"idle", "fresh", "retry"}
              \/ (pc = "rejected" /\ sender[s].pc = "sending"
                  /\ t = sender[s].ticket /\ r = sender[s].response),
           pc # "idle" => t \in Ticket /\ r \in Response
    PROVE  IInv'
<1>1. TypeOK' /\ Working' /\ Single' /\ Quiet'
  BY DEF IInv, TypeOK, Working, Single, Quiet, IsQueued, IsActive, Becomes
<1>2. Named'
  BY DEF IInv, Named, Becomes
<1>3. Held'
  BY DEF IInv, Held, Flying, IsQueued, Becomes
<1>4. Counted'
  BY DEF IInv, Counted, Becomes
<1> QED
  BY <1>1, <1>2, <1>3, <1>4 DEF IInv

LEMMA QuietStepsInv ==
    ASSUME IInv, NEW s \in Sender,
           \/ \E t \in Ticket, r \in Response : Look(s, t, r)
           \/ ClaimRefused(s) \/ Refuse(s) \/ Abandon(s)
    PROVE  IInv'
<1>0. TypeOK /\ Named
  BY DEF IInv
<1>1. ASSUME NEW t \in Ticket, NEW r \in Response, Look(s, t, r)
      PROVE  IInv'
  <2>1. \E pc \in {"fresh", "retry"} : Becomes(s, pc, t, r, None)
    BY <1>0, <1>1, Looked DEF Look
  <2> QED
    BY <1>1, <2>1, SenderOnly DEF Look
<1>2. CASE ClaimRefused(s) \/ Abandon(s)
  <2>1. Becomes(s, "idle", None, None, None)
    BY <1>0, <1>2, BecameIdle DEF ClaimRefused, Abandon
  <2> QED
    BY <1>2, <2>1, SenderOnly DEF ClaimRefused, Abandon
<1>3. CASE Refuse(s)
  <2>1. Becomes(s, "rejected", sender[s].ticket, sender[s].response, sender[s].at)
    BY <1>0, <1>3, MovedTo DEF Refuse
  <2> QED
    BY <1>0, <1>3, <2>1, SenderOnly DEF Refuse, Named
<1> QED
  BY <1>1, <1>2, <1>3

\* Taking the lock on a reply: the row becomes queued and its request sends.
LEMMA ClaimInv ==
    ASSUME IInv, NEW s \in Sender, Claim(s) PROVE IInv'
<1> DEFINE t == sender[s].ticket
           r == sender[s].response
<1>0. TypeOK /\ Named /\ Held /\ Counted /\ Working /\ Single /\ Quiet
  BY DEF IInv
<1>1. /\ t \in Ticket /\ r \in Response
      /\ status[t] \in Status /\ status[t] \notin Done
      /\ Queued(t) = {}
      /\ response[r].status \in {"none", "failed"}
  BY <1>0 DEF Claim, Claims, Live, Exists, Named, TypeOK
<1>2. Becomes(s, "sending", t, r, status[t])
  BY <1>0, <1>1, ClaimedAt DEF Claim
<1>3. /\ response' \in [Response -> ResponseRow]
      /\ response'[r].status = "queued" /\ response'[r].ticket = t
      /\ \A q \in Response : q # r => response'[q] = response[q]
  <2>1. [status |-> "queued", ticket |-> t] \in ResponseRow
    BY <1>1 DEF ResponseRow
  <2>2. response' = [response EXCEPT ![r] = [status |-> "queued", ticket |-> t]]
    BY DEF Claim
  <2> HIDE DEF t, r
  <2> QED
    BY <1>0, <1>1, <2>1, <2>2 DEF TypeOK
<1>4. UNCHANGED <<status, forwarding, mail, escalation, work>>
  BY DEF Claim
<1> HIDE DEF t, r
<1>5. \A d \in Sender : Flying(d) => sender[d].response # r
  BY <1>0, <1>1 DEF Held, IsQueued
<1>6. \A q \in Response : IsQueued(q) => response[q].ticket # t
  BY <1>1 DEF Queued, IsQueued
<1>7. TypeOK' /\ Working'
  BY <1>0, <1>2, <1>3, <1>4 DEF TypeOK, Working, IsActive, Becomes
<1>8. Named'
  BY <1>0, <1>1, <1>2, <1>3, <1>4 DEF Named, Becomes
<1>9. Held'
  <2>1. \A d \in Sender : d # s /\ Flying(d)' =>
            /\ Flying(d) /\ sender'[d] = sender[d] /\ sender[d].response # r
            /\ sender[d].response \in Response
    BY <1>0, <1>2, <1>5 DEF Flying, Becomes, Named
  <2>2. ASSUME NEW d \in Sender, Flying(d)'
        PROVE  IsQueued(sender[d].response)' /\ response'[sender'[d].response].ticket = sender'[d].ticket
    <3>1. CASE d = s
      BY <1>2, <1>3, <3>1 DEF IsQueued, Becomes
    <3>2. CASE d # s
      BY <1>0, <1>3, <2>1, <2>2, <3>2 DEF Held, IsQueued
    <3> QED
      BY <3>1, <3>2
  <2>3. ASSUME NEW d \in Sender, NEW f \in Sender, Flying(d)', Flying(f)',
               sender'[d].response = sender'[f].response
        PROVE  d = f
    BY <1>0, <1>2, <2>1, <2>3 DEF Held, Becomes
  <2> QED
    BY <2>2, <2>3 DEF Held
<1>10. Counted'
  BY <1>0, <1>1, <1>2, <1>3, <1>4 DEF Counted, Becomes
<1>11. Single'
  BY <1>0, <1>3, <1>6 DEF Single, IsQueued
<1>12. Quiet'
  BY <1>0, <1>1, <1>3, <1>4 DEF Quiet, IsQueued, IsActive
<1> QED
  BY <1>7, <1>8, <1>9, <1>10, <1>11, <1>12 DEF IInv

\* The provider takes the mail, and either says so or does not.
LEMMA MailInv ==
    ASSUME IInv, NEW s \in Sender, Deliver(s) \/ LoseAnswer(s) PROVE IInv'
<1> DEFINE r == sender[s].response
<1>0. TypeOK /\ Named /\ Held /\ Counted /\ Working /\ Single /\ Quiet
  BY DEF IInv
<1>1. r \in Response /\ sender[s].pc = "sending" /\ IsQueued(r)
      /\ mail[r].accepted = 0
  BY <1>0 DEF Deliver, LoseAnswer, Named, Held, Flying, Counted
<1>2. UNCHANGED <<status, forwarding, response, escalation, work>>
  BY DEF Deliver, LoseAnswer
<1>3. \E pc \in {"accepted", "rejected"} :
        /\ Becomes(s, pc, sender[s].ticket, r, sender[s].at)
        /\ mail' \in [Response -> [accepted : Nat, lost : Nat]]
        /\ mail'[r].accepted = IF pc = "accepted" THEN 1 ELSE 0
        /\ \A q \in Response : q # r => mail'[q] = mail[q]
  <2>1. mail[r] \in [accepted : Nat, lost : Nat]
    BY <1>0, <1>1 DEF TypeOK
  <2>2. CASE Deliver(s)
    <3>1. Becomes(s, "accepted", sender[s].ticket, r, sender[s].at)
      BY <1>0, <2>2, MovedTo DEF Deliver
    <3> DEFINE m == [mail[r] EXCEPT !.accepted = @ + 1]
    <3>2. m \in [accepted : Nat, lost : Nat] /\ m.accepted = 1
      <4>1. mail[r].accepted = 0
        BY <1>1
      <4> HIDE DEF r
      <4> QED
        BY <2>1, <4>1, RowTypes
    <3>3. mail' = [mail EXCEPT ![r] = m]
      BY <1>0, <1>1, <2>2 DEF Deliver, TypeOK
    <3> HIDE DEF m, r
    <3> QED
      BY <1>0, <1>1, <3>1, <3>2, <3>3 DEF TypeOK
  <2>3. CASE LoseAnswer(s)
    <3>1. Becomes(s, "rejected", sender[s].ticket, r, sender[s].at)
      BY <1>0, <2>3, MovedTo DEF LoseAnswer
    <3> DEFINE m == [mail[r] EXCEPT !.lost = @ + 1]
    <3>2. m \in [accepted : Nat, lost : Nat] /\ m.accepted = 0
      <4>1. mail[r].accepted = 0
        BY <1>1
      <4> HIDE DEF r
      <4> QED
        BY <2>1, <4>1, RowTypes
    <3>3. mail' = [mail EXCEPT ![r] = m]
      BY <1>0, <1>1, <2>3 DEF LoseAnswer, TypeOK
    <3> HIDE DEF m, r
    <3> QED
      BY <1>0, <1>1, <3>1, <3>2, <3>3 DEF TypeOK
  <2> QED
    BY <2>2, <2>3
<1>4. PICK pc \in {"accepted", "rejected"} :
        /\ Becomes(s, pc, sender[s].ticket, r, sender[s].at)
        /\ mail' \in [Response -> [accepted : Nat, lost : Nat]]
        /\ mail'[r].accepted = IF pc = "accepted" THEN 1 ELSE 0
        /\ \A q \in Response : q # r => mail'[q] = mail[q]
  BY <1>3
<1> HIDE DEF r
<1>5. TypeOK' /\ Working' /\ Single' /\ Quiet'
  BY <1>0, <1>2, <1>4
  DEF TypeOK, Working, Single, Quiet, IsQueued, IsActive, Becomes
<1>6. Named'
  <2>1. sender[s].ticket \in Ticket /\ r \in Response
    BY <1>0, <1>1 DEF Named
  <2>2. \A d \in Sender : sender'[d].pc # "idle" =>
            sender'[d].ticket \in Ticket /\ sender'[d].response \in Response
    BY <1>0, <1>4, <2>1 DEF Named, Becomes
  <2> QED
    BY <1>0, <1>2, <2>2 DEF Named
<1>7. Held'
  BY <1>0, <1>1, <1>2, <1>4 DEF Held, Flying, IsQueued, Becomes, r
<1>8. Counted'
  <2>1. \A d \in Sender : d # s /\ Flying(d) => sender[d].response # r /\ sender[d].response \in Response
    BY <1>0, <1>1 DEF Held, Flying, Named, r
  <2> QED
    BY <1>0, <1>1, <1>2, <1>4, <2>1 DEF Counted, Becomes, IsQueued, Flying
<1> QED
  BY <1>5, <1>6, <1>7, <1>8 DEF IInv

\* The provider's answer is recorded: the row leaves "queued".
LEMMA RecordInv ==
    ASSUME IInv, NEW s \in Sender, RecordFailed(s) \/ RecordSent(s) PROVE IInv'
<1> DEFINE r == sender[s].response
<1>0. TypeOK /\ Named /\ Held /\ Counted /\ Working /\ Single /\ Quiet
  BY DEF IInv
<1>1. /\ r \in Response /\ sender[s].ticket \in Ticket /\ IsQueued(r) /\ Flying(s)
      /\ \A d \in Sender : d # s /\ Flying(d) =>
            sender[d].response # r /\ sender[d].response \in Response
  BY <1>0 DEF RecordFailed, RecordSent, Named, Held, Flying
<1>2. UNCHANGED <<status, forwarding, mail, escalation, work>>
  BY DEF RecordFailed, RecordSent
<1>3. PICK v \in {"failed", "sent_to_provider"} :
        /\ response' = [response EXCEPT ![r] = [@ EXCEPT !.status = v]]
        /\ v = "failed" => mail[r].accepted = 0
                           /\ Becomes(s, "idle", None, None, None)
        /\ v = "sent_to_provider" => mail[r].accepted = 1
             /\ Becomes(s, "booking", sender[s].ticket, r, sender[s].at)
  <2>1. CASE RecordFailed(s)
    BY <1>0, <2>1, BecameIdle DEF RecordFailed, Counted
  <2>2. CASE RecordSent(s)
    BY <1>0, <2>2, MovedTo DEF RecordSent, Counted
  <2> QED
    BY <2>1, <2>2
<1> HIDE DEF r
<1>4. /\ response' \in [Response -> ResponseRow]
      /\ response'[r].status = v /\ response'[r].ticket = response[r].ticket
      /\ \A q \in Response : q # r => response'[q] = response[q]
  <2>1. \A x \in ResponseRow :
          LET y == [x EXCEPT !.status = v]
          IN  y \in ResponseRow /\ y.status = v /\ y.ticket = x.ticket
    BY DEF ResponseRow
  <2> QED
    BY <1>0, <1>1, <1>3, <2>1 DEF TypeOK
<1>5. /\ sender' \in [Sender -> Attempt]
      /\ ~Flying(s)'
      /\ sender'[s].pc \notin {"fresh", "retry"}
      /\ sender'[s].pc # "idle" =>
            sender'[s].ticket \in Ticket /\ sender'[s].response \in Response
      /\ \A d \in Sender : d # s => sender'[d] = sender[d]
  BY <1>1, <1>3 DEF Becomes, Flying
<1>6. TypeOK' /\ Working'
  BY <1>0, <1>2, <1>4, <1>5 DEF TypeOK, Working, IsActive
<1>7. Named'
  BY <1>0, <1>1, <1>2, <1>4, <1>5 DEF Named, IsQueued
<1>8. Held'
  <2>1. \A d \in Sender : Flying(d)' => d # s /\ Flying(d) /\ sender'[d] = sender[d]
    BY <1>5 DEF Flying
  <2> QED
    BY <1>0, <1>1, <1>4, <2>1 DEF Held, IsQueued
<1>9. Counted'
  <2>1. \A d \in Sender : d # s => sender'[d] = sender[d]
    BY <1>5
  <2>2. \A d \in Sender :
          /\ sender'[d].pc \in {"sending", "rejected"} => mail[sender'[d].response].accepted = 0
          /\ sender'[d].pc = "accepted" => mail[sender'[d].response].accepted = 1
    BY <1>0, <1>5, <2>1 DEF Counted, Flying
  <2>3. \A q \in Response :
          /\ response'[q].status \in {"none", "failed"} => mail[q].accepted = 0
          /\ response'[q].status = "sent_to_provider" => mail[q].accepted = 1
    BY <1>0, <1>3, <1>4 DEF Counted
  <2> QED
    BY <1>2, <2>2, <2>3 DEF Counted
<1>10. Single' /\ Quiet'
  BY <1>0, <1>2, <1>3, <1>4 DEF Single, Quiet, IsQueued, IsActive
<1> QED
  BY <1>6, <1>7, <1>8, <1>9, <1>10 DEF IInv

\* The booking never moves a case into or out of "resolved" and "closed".
LEMMA BookInv ==
    ASSUME IInv, NEW s \in Sender, Book(s)
    PROVE  /\ IInv'
           /\ \A t \in Ticket : status[t] \in Done => status'[t] = status[t]
<1> DEFINE t == sender[s].ticket
<1>0. TypeOK /\ Named /\ Held /\ Counted /\ Working /\ Single /\ Quiet
  BY DEF IInv
<1>1. t \in Ticket
  BY <1>0 DEF Book, Named
<1>2. /\ Booked(s) \in Status \cup {"none"}
      /\ Booked(s) = status[t] \/ (Booked(s) = "waiting_for_customer" /\ status[t] \notin Done)
  BY <1>0, <1>1 DEF Booked, TypeOK, Status
<1>3. /\ status' \in [Ticket -> Status \cup {"none"}]
      /\ \A d \in Ticket :
            status'[d] = status[d]
              \/ (status'[d] = "waiting_for_customer" /\ status[d] \notin Done)
  BY <1>0, <1>1, <1>2 DEF Book, TypeOK
<1>4. /\ UNCHANGED <<forwarding, response, mail, escalation, work>>
      /\ Becomes(s, "idle", None, None, None)
  BY <1>0, BecameIdle DEF Book
<1> HIDE DEF t
<1>5. TypeOK' /\ Working' /\ Single'
  BY <1>0, <1>3, <1>4 DEF TypeOK, Working, Single, IsQueued, IsActive, Becomes
<1>6. Named' /\ Held' /\ Counted'
  BY <1>0, <1>4 DEF Named, Held, Counted, Flying, IsQueued, Becomes
<1>7. Quiet'
  <2>1. \A r \in Response : IsQueued(r) => response[r].ticket \in Ticket
    BY <1>0 DEF Named, IsQueued
  <2>2. \A e \in Escalation : IsActive(e) => escalation[e].ticket \in Ticket
    BY <1>0 DEF Named, IsActive
  <2> QED
    BY <1>0, <1>3, <1>4, <2>1, <2>2 DEF Quiet, IsQueued, IsActive, Done
<1> QED
  BY <1>3, <1>5, <1>6, <1>7 DEF IInv, Done

LEMMA SenderInv ==
    ASSUME IInv, NEW s \in Sender, SenderStep(s) PROVE IInv'
BY QuietStepsInv, ClaimInv, MailInv, RecordInv, BookInv DEF SenderStep

-------------------------------------------------------------------------------
(* Escalations                                                                 *)

\* A row of one escalation is replaced, and the case it names is not done unless
\* the escalation is complete.
LEMMA EscalationReplaced ==
    ASSUME IInv, NEW e \in Escalation, NEW x \in EscalationRow,
           escalation' = [escalation EXCEPT ![e] = x],
           UNCHANGED <<forwarding, response, mail, sender>>,
           status' \in [Ticket -> Status \cup {"none"}],
           \A d \in Ticket : status'[d] \in Done => status[d] \in Done,
           work' \in [Escalation -> {"none", "last", "keep", "return"}],
           \A d \in Escalation : d # e => work'[d] = work[d],
           work'[e] = "none", x.ticket \in Ticket,
           x.status \in {"open", "accepted"} => status'[x.ticket] \notin Done
    PROVE  IInv'
<1>0. TypeOK /\ Named /\ Held /\ Counted /\ Working /\ Single /\ Quiet
  BY DEF IInv
<1>1. /\ escalation' \in [Escalation -> EscalationRow]
      /\ escalation'[e] = x
      /\ \A d \in Escalation : d # e => escalation'[d] = escalation[d]
  BY <1>0 DEF TypeOK
<1>2. TypeOK' /\ Held' /\ Counted' /\ Single'
  BY <1>0, <1>1 DEF TypeOK, Held, Counted, Single, Flying, IsQueued
<1>3. Named'
  BY <1>0, <1>1 DEF Named
<1>4. Working'
  BY <1>0, <1>1 DEF Working, IsActive
<1>5. Quiet'
  <2>1. \A r \in Response : IsQueued(r) => response[r].ticket \in Ticket
    BY <1>0 DEF Named, IsQueued
  <2>2. \A d \in Escalation : IsActive(d) => escalation[d].ticket \in Ticket
    BY <1>0 DEF Named, IsActive
  <2>3. \A r \in Response : IsQueued(r) => status'[response[r].ticket] \notin Done
    BY <1>0, <2>1 DEF Quiet
  <2>4. \A d \in Escalation : d # e /\ IsActive(d) => status'[escalation[d].ticket] \notin Done
    BY <1>0, <2>2 DEF Quiet
  <2> QED
    BY <1>1, <2>3, <2>4 DEF Quiet, IsQueued, IsActive
<1> QED
  BY <1>2, <1>3, <1>4, <1>5 DEF IInv

LEMMA EscalateInv ==
    ASSUME IInv, NEW t \in Ticket, NEW e \in Escalation, Escalate(t, e) PROVE IInv'
<1>0. TypeOK /\ Working
  BY DEF IInv
<1>1. [status |-> "open", ticket |-> t] \in EscalationRow
  BY DEF EscalationRow
<1>2. work[e] = "none"
  BY <1>0 DEF Escalate, Working, IsActive, TypeOK
<1> QED
  BY <1>0, <1>1, <1>2, EscalationReplaced DEF Escalate, TypeOK, Status, Done

\* A transaction that completes an escalation moves on, or is rolled back.
LEMMA WorkOnly ==
    ASSUME IInv, NEW e \in Escalation, IsActive(e),
           NEW w \in {"none", "last", "keep", "return"},
           work' = [work EXCEPT ![e] = w],
           UNCHANGED <<status, forwarding, response, mail, escalation, sender>>
    PROVE  IInv'
<1>1. TypeOK' /\ Working'
  BY DEF IInv, TypeOK, Working, IsActive
<1>2. Named' /\ Held' /\ Counted' /\ Single' /\ Quiet'
  BY DEF IInv, Named, Held, Counted, Single, Quiet, Flying, IsQueued, IsActive
<1> QED
  BY <1>1, <1>2 DEF IInv

\* The commit: the case of the escalation is not done, since the escalation has
\* been active until now; nor is it afterwards.
LEMMA CommitInv ==
    ASSUME IInv, NEW e \in Escalation, CommitComplete(e)
    PROVE  /\ IInv'
           /\ \A t \in Ticket : status[t] \in Done => status'[t] = status[t]
<1> DEFINE t == escalation[e].ticket
<1>0. TypeOK /\ Named /\ Working /\ Quiet
  BY DEF IInv
<1>1. IsActive(e) /\ t \in Ticket /\ status[t] \notin Done
  BY <1>0 DEF CommitComplete, Named, Working, Quiet, IsActive
<1>2. PICK x \in EscalationRow :
        /\ escalation' = [escalation EXCEPT ![e] = x]
        /\ x.ticket = t /\ x.status \notin {"open", "accepted"}
  <2>1. PICK done \in {"resolved", "returned"} :
          escalation' = [escalation EXCEPT ![e] = [@ EXCEPT !.status = done]]
    BY DEF CommitComplete
  <2>2. \A y \in EscalationRow :
          LET z == [y EXCEPT !.status = done]
          IN  z \in EscalationRow /\ z.ticket = y.ticket /\ z.status = done
    BY DEF EscalationRow
  <2> QED
    BY <1>0, <2>1, <2>2 DEF TypeOK
<1>3. /\ status' \in [Ticket -> Status \cup {"none"}]
      /\ \A d \in Ticket :
            status'[d] = status[d] \/ (status[d] \notin Done /\ status'[d] \notin Done)
  BY <1>0, <1>1 DEF CommitComplete, TypeOK, Status, Done
<1>4. /\ UNCHANGED <<forwarding, response, mail, sender>>
      /\ work' \in [Escalation -> {"none", "last", "keep", "return"}]
      /\ work'[e] = "none"
      /\ \A d \in Escalation : d # e => work'[d] = work[d]
  BY <1>0 DEF CommitComplete, TypeOK
<1> HIDE DEF t
<1>5. IInv'
  BY <1>1, <1>2, <1>3, <1>4, EscalationReplaced
<1> QED
  BY <1>3, <1>5

LEMMA EscalationInv ==
    ASSUME IInv, NEW e \in Escalation, EscalationStep(e) PROVE IInv'
<1>0. TypeOK /\ Named /\ Working /\ Quiet
  BY DEF IInv
<1>1. CASE AcceptEscalation(e)
  <2> DEFINE x == [escalation[e] EXCEPT !.status = "accepted"]
  <2>1. \A y \in EscalationRow :
          LET z == [y EXCEPT !.status = "accepted"]
          IN  z \in EscalationRow /\ z.ticket = y.ticket
    BY DEF EscalationRow
  <2>2. x \in EscalationRow /\ x.ticket = escalation[e].ticket
    BY <1>0, <2>1 DEF TypeOK
  <2>3. escalation' = [escalation EXCEPT ![e] = x]
    BY <1>1 DEF AcceptEscalation
  <2>4. escalation[e].ticket \in Ticket /\ status[escalation[e].ticket] \notin Done
    BY <1>0, <1>1 DEF AcceptEscalation, Named, Quiet, IsActive
  <2> HIDE DEF x
  <2> QED
    BY <1>0, <1>1, <2>2, <2>3, <2>4, EscalationReplaced DEF AcceptEscalation, TypeOK
<1>2. CASE BeginComplete(e)
  BY <1>2, WorkOnly DEF BeginComplete, IsActive
<1>3. CASE ReadCase(e)
  BY <1>0, <1>3, WorkOnly DEF ReadCase, Working
<1>4. CASE Rollback(e)
  BY <1>0, <1>4, WorkOnly DEF Rollback, Working
<1>5. CASE CommitComplete(e)
  BY <1>5, CommitInv
<1> QED
  BY <1>1, <1>2, <1>3, <1>4, <1>5 DEF EscalationStep

-------------------------------------------------------------------------------
(* The theorems                                                                *)

LEMMA NextInv == IInv /\ [Next]_vars => IInv'
<1> SUFFICES ASSUME IInv, [Next]_vars PROVE IInv'
  OBVIOUS
<1>1. ASSUME NEW t \in Ticket, TicketStep(t) PROVE IInv'
  BY <1>1, TicketInv, EscalateInv DEF TicketStep
<1>2. CASE UNCHANGED vars
  BY <1>2 DEF vars, IInv, TypeOK, Named, Held, Counted, Working, Single, Quiet,
              Flying, IsQueued, IsActive
<1> QED
  BY <1>1, <1>2, SenderInv, EscalationInv DEF Next

\* In every reachable state the inductive invariant holds.
THEOREM CasesInvariant == Spec => []IInv
BY InitInv, NextInv, PTL DEF Spec

\* Every row and every request of the support desk is well typed.
THEOREM CasesTypes == Spec => []TypeOK
<1>1. IInv => TypeOK
  BY DEF IInv
<1> QED
  BY <1>1, CasesInvariant, PTL

\* However many agents, keys and retries compete, a case never has two replies
\* under way; the unique index on queued replies is not needed for it.
THEOREM OneReplyInFlight == Spec => []OneInFlight
<1>1. IInv => OneInFlight
  BY InFlightFromSingle DEF IInv
<1> QED
  BY <1>1, CasesInvariant, PTL

\* A resolved or closed case has neither a reply under way nor an active
\* escalation.
THEOREM ResolvedStaysQuiet == Spec => []ResolvedIsQuiet
<1>1. IInv => ResolvedIsQuiet
  BY QuietParts DEF IInv
<1> QED
  BY <1>1, CasesInvariant, PTL

\* A reply reported accepted was accepted by the provider exactly once, and one
\* reported rejected never was and is not being sent.
THEOREM ReportedOutcomeIsTrue == Spec => []OutcomeIsTrue
<1>1. IInv => OutcomeIsTrue
  BY OutcomeFromCounted DEF IInv
<1> QED
  BY <1>1, CasesInvariant, PTL

\* No mail leaves for a case that is resolved or closed.
THEOREM ResolvedCasesAreSilent == Spec => NoMailFromResolved
<1>1. IInv => \A s \in Sender : sender[s].pc = "sending" => status[sender[s].ticket] \notin Done
  BY DEF IInv, Held, Named, Quiet, Flying, IsQueued
<1>2. IInv /\ [Next]_vars =>
        [\A s \in Sender :
            (mail' # mail /\ sender[s].pc = "sending" /\ sender'[s].pc # "sending")
                => status[sender[s].ticket] \notin Done]_vars
  BY <1>1
<1> QED
  BY <1>2, CasesInvariant, PTL DEF Spec, NoMailFromResolved

\* Apart from cases whose contact form is still mailing, a done case is only
\* closed or reopened.
THEOREM DoneCasesStayDone == Spec => DoneIsLeftByReopen
<1> DEFINE A == \A t \in Ticket \ forwarding :
                    status[t] \in Done => status'[t] \in Done \cup {"reopened"}
<1>1. ASSUME IInv, [Next]_vars PROVE [A]_vars
  <2>0. TypeOK
    BY <1>1 DEF IInv
  <2>1. ASSUME NEW d \in Ticket, TicketStep(d) PROVE A
    <3>1. ASSUME NEW to \in Status, UpdateStatus(d, to) PROVE A
      BY <2>0, <3>1 DEF UpdateStatus, Transitions, Exists, TypeOK, Done
    <3>2. ASSUME NEW e \in Escalation, Escalate(d, e) PROVE A
      BY <2>0, <3>2 DEF Escalate, Live, Exists, TypeOK
    <3>3. CASE ForwardSaved(d)
      BY <2>0, <3>3 DEF ForwardSaved, TypeOK
    <3> QED
      BY <2>0, <2>1, <3>1, <3>2, <3>3
      DEF TicketStep, CreateTicket, SubmitForm, ForwardFails, Assign, Release,
          Resolve, Reopen, Live, Exists, TypeOK, Done
  <2>2. ASSUME NEW s \in Sender, SenderStep(s) PROVE A
    <3>1. CASE Book(s)
      BY <1>1, <3>1, BookInv
    <3>2. CASE ~Book(s)
      BY <2>2, <3>2
      DEF SenderStep, Look, Claim, ClaimRefused, Deliver, Refuse, LoseAnswer,
          RecordFailed, RecordSent, Abandon
    <3> QED
      BY <3>1, <3>2
  <2>3. ASSUME NEW e \in Escalation, EscalationStep(e) PROVE A
    <3>1. CASE CommitComplete(e)
      BY <1>1, <3>1, CommitInv
    <3>2. CASE ~CommitComplete(e)
      BY <2>3, <3>2
      DEF EscalationStep, AcceptEscalation, BeginComplete, ReadCase, Rollback
    <3> QED
      BY <3>1, <3>2
  <2> QED
    BY <1>1, <2>1, <2>2, <2>3 DEF Next
<1> QED
  BY <1>1, CasesInvariant, PTL DEF Spec, DoneIsLeftByReopen

\* Replies keep to their case, one at a time and none once it is done.
THEOREM RepliesAlwaysFollow == Spec => []RepliesFollowTheCase
<1>1. OneInFlight /\ ResolvedIsQuiet => RepliesFollowTheCase
  BY DEF RepliesFollowTheCase
<1> QED
  BY <1>1, OneReplyInFlight, ResolvedStaysQuiet, PTL

-------------------------------------------------------------------------------
(* Templates.                                                                  *)

-------------------------------------------------------------------------------
(* Types.                                                                      *)

\* The write path's levels are levels, and never elevated ones.
LEMMA WrittenIsLow ==
    ASSUME NEW next \in Certification, NEW current \in Certification
    PROVE  WrittenLevel(next, current) \in Certification \ Elevated
  BY DEF WrittenLevel, Certification, Elevated

LEMMA RowExists == TemplateTypeOK /\ Created => live \in Row
  BY DEF TemplateTypeOK, Created, NotCreated

LEMMA DraftExists == TemplateTypeOK /\ HasDraft => draft \in DraftRow
  BY DEF TemplateTypeOK, HasDraft, NoDraft

LEMMA EffectiveType == TemplateTypeOK /\ Created => Effective \in Form
  BY RowExists, DraftExists DEF Effective, Row, DraftRow

\* A new draft of a template that exists.
LEMMA DraftForType ==
    ASSUME TemplateTypeOK, Created, DraftIsCurrent, NEW f \in Form, live.version # 0
    PROVE  DraftFor(f) \in DraftRow
<1>1. live.version \in Nat
  BY RowExists DEF Row
<1> QED
  BY <1>1 DEF DraftFor, DraftRow

\* What an operation puts into a form.
LEMMA LevelledForm ==
    ASSUME NEW f \in Form, NEW level \in Certification
    PROVE  [f EXCEPT !.cert = level] \in Form
  BY DEF Form

LEMMA OfferedForm ==
    ASSUME NEW f \in Form, NEW flag \in BOOLEAN
    PROVE  [f EXCEPT !.active = flag] \in Form
  BY DEF Form

\* Every version has a number above 0.
TemplateCounted ==
    /\ Created => live.version # 0
    /\ ~Created => live.version = 0
TemplateShape == TemplateTypeOK /\ DraftIsCurrent /\ TemplateCounted

LEMMA TemplateShapeInit == TemplateInit => TemplateShape
  BY DEF TemplateInit, TemplateShape, TemplateTypeOK, DraftIsCurrent, TemplateCounted, HasDraft, Created, NoDraft, NotCreated

LEMMA TemplateShapeStep == TemplateShape /\ [TemplateNext]_templateVars => TemplateShape'
<1> SUFFICES ASSUME TemplateShape, [TemplateNext]_templateVars PROVE TemplateShape'
  OBVIOUS
<1> USE DEF TemplateShape
<1>1. ASSUME NEW c \in Creator, CreateCheck(c) \/ CreateFails(c)
      PROVE  TemplateShape'
  BY <1>1 DEF CreateCheck, CreateFails, TemplateTypeOK, DraftIsCurrent, TemplateCounted, HasDraft, Created
<1>2. ASSUME NEW c \in Creator, NEW f \in Form, CreateSave(c, f)
      PROVE  TemplateShape'
  <2> DEFINE g == [f EXCEPT !.cert = WrittenLevel(@, "none")]
  <2>1. g \in Form
    <3>1. f.cert \in Certification /\ "none" \in Certification
      BY DEF Form, Certification
    <3> QED
      BY <3>1, WrittenIsLow, LevelledForm
  <2>2. /\ live' = [status |-> "draft", version |-> 1, stamp |-> 1, form |-> g]
        /\ draft' = [basedOn |-> 1, form |-> g, stamp |-> 1]
        /\ versions' = versions \cup {live'}
        /\ creating' = [creating EXCEPT ![c] = "saved"]
        /\ certified' = certified
    BY <1>2 DEF CreateSave
  <2> HIDE DEF g
  <2>3. live' \in Row /\ draft' \in DraftRow
    BY <2>1, <2>2 DEF Row, DraftRow
  <2> QED
    BY <2>2, <2>3 DEF TemplateTypeOK, DraftIsCurrent, TemplateCounted, HasDraft, Created
<1>3. ASSUME NEW f \in Form, Update(f)
      PROVE  TemplateShape'
  <2>1. PICK level \in {Effective.cert, WrittenLevel(f.cert, Effective.cert)} :
          draft' = DraftFor([f EXCEPT !.cert = level])
    BY <1>3 DEF Update
  <2>2. f.cert \in Certification /\ Effective.cert \in Certification
    BY <1>3, EffectiveType DEF Update, Form
  <2>3. level \in Certification
    BY <2>1, <2>2, WrittenIsLow
  <2>4. draft' \in DraftRow
    BY <1>3, <2>1, <2>3, LevelledForm, DraftForType DEF Update, TemplateCounted
  <2> QED
    BY <1>3, <2>1, <2>4
    DEF Update, DraftFor, TemplateTypeOK, DraftIsCurrent, TemplateCounted, HasDraft, Created
<1>4. ASSUME NEW level \in Elevated, Certify(level)
      PROVE  TemplateShape'
  <2>1. draft.form \in Form /\ level \in Certification
    BY <1>4, DraftExists DEF Certify, DraftRow, Certification
  <2>2. draft' \in DraftRow
    BY <1>4, <2>1, LevelledForm, DraftForType DEF Certify, TemplateCounted
  <2> QED
    BY <1>4, <2>2
    DEF Certify, DraftFor, TemplateTypeOK, DraftIsCurrent, TemplateCounted, HasDraft, Created
<1>5. ASSUME NEW v \in versions, RollbackTo(v)
      PROVE  TemplateShape'
  <2>1. v.form \in Form /\ live.form.active \in BOOLEAN
    BY <1>5, RowExists DEF RollbackTo, TemplateTypeOK, Row, Form
  <2> DEFINE f == [v.form EXCEPT !.active = live.form.active]
  <2>2. f \in Form /\ draft' = DraftFor(f)
    BY <1>5, <2>1, OfferedForm DEF RollbackTo
  <2> HIDE DEF f
  <2>3. draft' \in DraftRow
    BY <1>5, <2>2, DraftForType DEF RollbackTo, TemplateCounted
  <2> QED
    BY <1>5, <2>2, <2>3
    DEF RollbackTo, DraftFor, TemplateTypeOK, DraftIsCurrent, TemplateCounted, HasDraft, Created
<1>6. CASE Publish
  <2>1. draft \in DraftRow /\ live \in Row
    BY <1>6, DraftExists, RowExists DEF Publish, DraftIsCurrent
  <2>2. live' \in Row
    BY <1>6, <2>1 DEF Publish, Row, DraftRow
  <2>3. live'.version = live.version + 1 /\ live'.status = "published"
    BY <1>6 DEF Publish
  <2> QED
    BY <1>6, <2>1, <2>2, <2>3
    DEF Publish, TemplateTypeOK, DraftIsCurrent, TemplateCounted, HasDraft, Created, NoDraft, Row
<1>7. CASE Archive
  <2> DEFINE g == [live.form EXCEPT !.active = FALSE]
  <2>1. live \in Row
    BY <1>7, RowExists DEF Archive
  <2>2. live.form \in Form /\ live.version + 1 \in Nat /\ FALSE \in BOOLEAN
    BY <2>1 DEF Row
  <2>3. g \in Form
    BY <2>2, OfferedForm
  <2>4. live' \in Row /\ live'.version = live.version + 1 /\ live'.status = "archived"
    <3>1. live' = [live EXCEPT !.status = "archived", !.form = g,
                               !.version = live.version + 1]
      BY <1>7, <2>1 DEF Archive, Row
    <3> HIDE DEF g
    <3> QED
      BY <2>1, <2>2, <2>3, <3>1 DEF Row
  <2>5. CASE HasDraft
    <3>1. draft \in DraftRow /\ draft' = [draft EXCEPT !.basedOn = live'.version]
      BY <1>7, <2>5, DraftExists DEF Archive
    <3>2. live'.version \in Nat \ {0}
      BY <2>1, <2>4 DEF Row
    <3>3. draft' \in DraftRow /\ draft'.basedOn = live'.version
      BY <3>1, <3>2 DEF DraftRow
    <3> QED
      BY <1>7, <2>1, <2>4, <3>2, <3>3
      DEF Archive, TemplateTypeOK, DraftIsCurrent, TemplateCounted, HasDraft, Created
  <2>6. CASE ~HasDraft
    <3>1. live'.version # 0
      BY <2>1, <2>4 DEF Row
    <3> QED
      BY <1>7, <2>1, <2>4, <2>6, <3>1
      DEF Archive, TemplateTypeOK, DraftIsCurrent, TemplateCounted, HasDraft, Created
  <2> QED
    BY <2>5, <2>6
<1>8. CASE UNCHANGED templateVars
  BY <1>8 DEF templateVars, TemplateTypeOK, DraftIsCurrent, TemplateCounted, HasDraft, Created
<1> QED
  BY <1>1, <1>2, <1>3, <1>4, <1>5, <1>6, <1>7, <1>8 DEF TemplateNext

\* The columns of the template's three tables keep their types.
THEOREM TemplateTypes == TemplateSpec => []TemplateTypeOK
<1>1. TemplateShape => TemplateTypeOK
  BY DEF TemplateShape
<1> QED
  BY TemplateShapeInit, TemplateShapeStep, <1>1, PTL DEF TemplateSpec

\* No draft is ever stranded on an older version, however often its template is
\* created, archived, published and rolled back.
THEOREM DraftsAreCurrent == TemplateSpec => []DraftIsCurrent
<1>1. TemplateShape => DraftIsCurrent
  BY DEF TemplateShape
<1> QED
  BY TemplateShapeInit, TemplateShapeStep, <1>1, PTL DEF TemplateSpec

-------------------------------------------------------------------------------
(* The history.                                                                *)

LEMMA OnFileStep == TemplateShape /\ LiveIsOnFile /\ [TemplateNext]_templateVars => LiveIsOnFile'
<1> SUFFICES ASSUME TemplateShape, LiveIsOnFile, [TemplateNext]_templateVars PROVE LiveIsOnFile'
  OBVIOUS
<1>1. CASE UNCHANGED <<live, versions>>
  BY <1>1 DEF LiveIsOnFile, Created
<1>2. CASE versions' = versions \cup {live'}
  BY <1>2 DEF LiveIsOnFile
<1> QED
  BY <1>1, <1>2
  DEF TemplateNext, templateVars, CreateCheck, CreateFails, CreateSave, Update, Certify, RollbackTo,
      Publish, Archive

\* Nothing is filed before a template is created, and no number is above the
\* row's: the next one is fresh.
NumbersGrow ==
    /\ (\A c \in Creator : creating[c] # "saved") => ~Created /\ versions = {}
    /\ CreatedOnce => \A v \in versions : v.version <= live.version
Numbered == NumberNamesOne /\ NumbersGrow

\* A row that is filed under the next number.
LEMMA FiledNext ==
    ASSUME TemplateShape, LiveIsOnFile, Numbered, Created,
           live'.version = live.version + 1,
           versions' = versions \cup {live'},
           creating' = creating
    PROVE  Numbered'
<1>1. live.version \in Nat /\ \A v \in versions : v.version \in Nat
  BY RowExists DEF TemplateShape, TemplateTypeOK, Row
<1>2. CreatedOnce' <=> CreatedOnce
  BY DEF CreatedOnce
<1>3. \E c \in Creator : creating[c] = "saved"
  BY DEF Numbered, NumbersGrow
<1>4. ASSUME CreatedOnce
      PROVE  \A v \in versions : v.version <= live.version /\ v.version # live'.version
  BY <1>1, <1>4 DEF Numbered, NumbersGrow
<1>5. NumberNamesOne'
  BY <1>2, <1>4 DEF Numbered, NumberNamesOne
<1>6. ASSUME CreatedOnce PROVE \A v \in versions' : v.version <= live'.version
  BY <1>1, <1>4, <1>6
<1> QED
  BY <1>2, <1>3, <1>5, <1>6 DEF Numbered, NumbersGrow

\* The first row of all: any other creation makes it a second one.
LEMMA FiledFirst ==
    ASSUME TemplateShape, Numbered, NEW c \in Creator, creating[c] = "checked",
           creating' = [creating EXCEPT ![c] = "saved"],
           versions' = versions \cup {live'},
           live'.version = 1
    PROVE  Numbered'
<1>1. creating'[c] = "saved" /\ \A d \in Creator \ {c} : creating'[d] = creating[d]
  BY DEF TemplateShape, TemplateTypeOK
<1>2. ASSUME CreatedOnce' PROVE versions = {}
  <2>1. \A d \in Creator : creating[d] # "saved"
    BY <1>1, <1>2 DEF CreatedOnce
  <2> QED
    BY <2>1 DEF Numbered, NumbersGrow
<1> QED
  BY <1>1, <1>2 DEF Numbered, NumberNamesOne, NumbersGrow

\* A creation that does not save, or an edit, files nothing.
LEMMA FiledNothing ==
    ASSUME Numbered, UNCHANGED <<live, versions>>,
           \A c \in Creator : creating'[c] = "saved" <=> creating[c] = "saved"
    PROVE  Numbered'
  BY DEF Numbered, NumberNamesOne, NumbersGrow, CreatedOnce, Created

LEMMA NumberedStep ==
    TemplateShape /\ LiveIsOnFile /\ Numbered /\ [TemplateNext]_templateVars => Numbered'
<1> SUFFICES ASSUME TemplateShape, LiveIsOnFile, Numbered, [TemplateNext]_templateVars PROVE Numbered'
  OBVIOUS
<1>1. ASSUME NEW c \in Creator, CreateCheck(c) \/ CreateFails(c)
      PROVE  Numbered'
  <2>1. \A d \in Creator : creating'[d] = "saved" <=> creating[d] = "saved"
    BY <1>1 DEF CreateCheck, CreateFails, TemplateShape, TemplateTypeOK
  <2> QED
    BY <1>1, <2>1, FiledNothing DEF CreateCheck, CreateFails
<1>2. ASSUME NEW c \in Creator, NEW f \in Form, CreateSave(c, f)
      PROVE  Numbered'
  BY <1>2, FiledFirst DEF CreateSave
<1>3. CASE UNCHANGED <<live, versions, creating>>
  BY <1>3, FiledNothing
<1>4. CASE Publish
  <2>1. Created /\ live'.version = live.version + 1
    BY <1>4 DEF Publish, TemplateShape, DraftIsCurrent
  <2> QED
    BY <1>4, <2>1, FiledNext DEF Publish
<1>5. CASE Archive
  <2>1. live \in Row
    BY <1>5, RowExists DEF Archive, TemplateShape
  <2>2. live'.version = live.version + 1
    BY <1>5, <2>1 DEF Archive, Row
  <2> QED
    BY <1>5, <2>2, FiledNext DEF Archive
<1> QED
  BY <1>1, <1>2, <1>3, <1>4, <1>5 DEF TemplateNext, templateVars, Update, Certify, RollbackTo

\* What users see can always be restored, by its number.
THEOREM HistoryIsAlwaysTrue == TemplateSpec => []HistoryIsTrue
<1>1. TemplateInit => LiveIsOnFile /\ Numbered
  BY DEF TemplateInit, LiveIsOnFile, Numbered, NumberNamesOne, NumbersGrow, Created,
         NotCreated
<1>2. LiveIsOnFile /\ Numbered => HistoryIsTrue
  BY DEF HistoryIsTrue, Numbered
<1> QED
  BY TemplateShapeInit, TemplateShapeStep, OnFileStep, NumberedStep, <1>1, <1>2, PTL DEF TemplateSpec

-------------------------------------------------------------------------------
(* Certification.                                                              *)

LEMMA LevelsStep == TemplateShape /\ LevelsAreGiven /\ [TemplateNext]_templateVars => LevelsAreGiven'
<1> SUFFICES ASSUME TemplateShape, LevelsAreGiven, [TemplateNext]_templateVars PROVE LevelsAreGiven'
  OBVIOUS
<1> USE DEF TemplateShape
<1>1. ASSUME NEW c \in Creator, CreateCheck(c) \/ CreateFails(c)
      PROVE  LevelsAreGiven'
  BY <1>1 DEF CreateCheck, CreateFails, LevelsAreGiven, Created, HasDraft
<1>2. ASSUME NEW c \in Creator, NEW f \in Form, CreateSave(c, f)
      PROVE  LevelsAreGiven'
  <2> DEFINE g == [f EXCEPT !.cert = WrittenLevel(@, "none")]
  <2>1. g.cert \notin Elevated
    <3>1. f.cert \in Certification /\ "none" \in Certification
      BY DEF Form, Certification
    <3> QED
      BY <3>1, WrittenIsLow DEF Form
  <2>2. live'.form = g /\ draft'.form = g /\ versions' = versions \cup {live'}
        /\ certified' = certified
    BY <1>2 DEF CreateSave
  <2> HIDE DEF g
  <2> QED
    BY <2>1, <2>2 DEF LevelsAreGiven
<1>3. ASSUME NEW f \in Form, Update(f)
      PROVE  LevelsAreGiven'
  <2>1. PICK level \in {Effective.cert, WrittenLevel(f.cert, Effective.cert)} :
          draft' = DraftFor([f EXCEPT !.cert = level])
    BY <1>3 DEF Update
  <2>2. f.cert \in Certification /\ Effective.cert \in Certification
    BY <1>3, EffectiveType DEF Update, Form
  <2>3. level \in Elevated => level \in certified
    BY <1>3, <2>1, <2>2, WrittenIsLow DEF Update, Effective, LevelsAreGiven
  <2>4. draft'.form.cert = level
    BY <2>1 DEF DraftFor, Form
  <2> QED
    BY <1>3, <2>3, <2>4 DEF Update, LevelsAreGiven, Created
<1>4. ASSUME NEW level \in Elevated, Certify(level)
      PROVE  LevelsAreGiven'
  <2>1. draft.form \in Form
    BY <1>4, DraftExists DEF Certify, DraftRow
  <2>2. draft'.form.cert = level
    BY <1>4, <2>1 DEF Certify, DraftFor, Form
  <2> QED
    BY <1>4, <2>2 DEF Certify, LevelsAreGiven, Created
<1>5. ASSUME NEW v \in versions, RollbackTo(v)
      PROVE  LevelsAreGiven'
  <2>1. v.form \in Form
    BY <1>5 DEF TemplateTypeOK, Row
  <2>2. draft'.form.cert = v.form.cert
    BY <1>5, <2>1 DEF RollbackTo, DraftFor, Form
  <2> QED
    BY <1>5, <2>2 DEF RollbackTo, LevelsAreGiven, Created
<1>6. CASE Publish
  <2>1. live'.form = draft.form /\ ~HasDraft' /\ HasDraft
    BY <1>6 DEF Publish, HasDraft, NoDraft
  <2> QED
    BY <1>6, <2>1 DEF Publish, LevelsAreGiven
<1>7. CASE Archive
  <2>1. live \in Row /\ live.form \in Form
    BY <1>7, RowExists DEF Archive, Row
  <2> DEFINE g == [live.form EXCEPT !.active = FALSE]
  <2>2. live'.form.cert = live.form.cert
    <3>1. g.cert = live.form.cert
      BY <2>1 DEF Form
    <3>2. live'.form = g
      BY <1>7, <2>1 DEF Archive, Row
    <3> QED
      BY <3>1, <3>2
  <2>3. HasDraft' => HasDraft /\ draft'.form = draft.form
    BY <1>7, DraftExists DEF Archive, DraftRow, HasDraft
  <2>4. Created /\ versions' = versions \cup {live'} /\ certified' = certified
    BY <1>7 DEF Archive
  <2> HIDE <1>7
  <2> QED
    BY <2>2, <2>3, <2>4 DEF LevelsAreGiven
<1>8. CASE UNCHANGED templateVars
  BY <1>8 DEF templateVars, LevelsAreGiven, Created, HasDraft
<1> QED
  BY <1>1, <1>2, <1>3, <1>4, <1>5, <1>6, <1>7, <1>8 DEF TemplateNext

\* Nobody certifies a content but through certifyTemplate(), by whatever detour
\* over drafts, versions and second creations.
THEOREM LevelsComeFromCertifiers == TemplateSpec => []LevelsAreGiven
<1>1. TemplateInit => LevelsAreGiven
  BY DEF TemplateInit, LevelsAreGiven, Created, HasDraft, NotCreated, NoDraft
<1> QED
  BY TemplateShapeInit, TemplateShapeStep, LevelsStep, <1>1, PTL DEF TemplateSpec

-------------------------------------------------------------------------------
(* The catalogue.                                                              *)

LEMMA ArchiveLeaves == TemplateTypeOK /\ Archive => live'.status = "archived"
<1> SUFFICES ASSUME TemplateTypeOK, Archive PROVE live'.status = "archived"
  OBVIOUS
<1>1. live \in Row
  BY RowExists DEF Archive
<1> QED
  BY <1>1 DEF Archive, Row

LEMMA CatalogueStep ==
    TemplateTypeOK /\ CatalogueIsReady /\ [TemplateNext]_templateVars => CatalogueIsReady'
<1> SUFFICES ASSUME TemplateTypeOK, CatalogueIsReady, [TemplateNext]_templateVars PROVE CatalogueIsReady'
  OBVIOUS
<1>1. CASE UNCHANGED live
  BY <1>1 DEF CatalogueIsReady, Ready
<1>2. ASSUME NEW c \in Creator, NEW f \in Form, CreateSave(c, f)
      PROVE  live'.status # "published"
  BY <1>2 DEF CreateSave
<1>3. CASE Publish
  BY <1>3 DEF Publish, CatalogueIsReady, Ready
<1>4. Archive => live'.status # "published"
  BY ArchiveLeaves
<1> QED
  BY <1>1, <1>2, <1>3, <1>4
  DEF TemplateNext, templateVars, CreateCheck, CreateFails, Update, Certify, RollbackTo, CatalogueIsReady

\* Users only ever see templates that are ready, under the number they bear.
THEOREM CatalogueIsAlwaysReady == TemplateSpec => []CatalogueIsReady
<1>1. TemplateInit => CatalogueIsReady
  BY DEF TemplateInit, CatalogueIsReady, NotCreated
<1> QED
  BY TemplateTypes, CatalogueStep, <1>1, PTL DEF TemplateSpec

\* Drafting, certifying and rolling back stay in the draft.
THEOREM EditorsStayOutOfTheCatalogue == TemplateSpec => EditorsStayInTheirDraft
<1>1. TemplateTypeOK /\ [TemplateNext]_templateVars => [ live.status = "published" /\ live' # live
                         /\ live'.status = "published"
                       => /\ live'.version = live.version + 1
                          /\ HasDraft /\ live'.form = draft.form
                          /\ ~HasDraft' ]_templateVars
  <2> SUFFICES ASSUME TemplateTypeOK, TemplateNext,
                      live' # live, live'.status = "published"
               PROVE  /\ live'.version = live.version + 1
                      /\ HasDraft /\ live'.form = draft.form
                      /\ ~HasDraft'
    OBVIOUS
  <2>1. ASSUME NEW c \in Creator, NEW f \in Form PROVE ~CreateSave(c, f)
    BY DEF CreateSave
  <2>2. ~Archive
    BY ArchiveLeaves
  <2>3. Publish
    BY <2>1, <2>2 DEF TemplateNext, CreateCheck, CreateFails, Update, Certify, RollbackTo
  <2> QED
    BY <2>3 DEF Publish, HasDraft, NoDraft
<1> QED
  BY TemplateTypes, <1>1, PTL DEF TemplateSpec, EditorsStayInTheirDraft

\* Row, draft and history fit each other.
THEOREM VersionsAlwaysFit == TemplateSpec => []VersionsFit
<1>1. DraftIsCurrent /\ HistoryIsTrue => VersionsFit
  BY DEF VersionsFit
<1> QED
  BY <1>1, DraftsAreCurrent, HistoryIsAlwaysTrue, PTL

\* Levels come from certifiers, and the catalogue needs them.
THEOREM CertificationIsAlwaysTrue == TemplateSpec => []CertificationIsTrue
<1>1. LevelsAreGiven /\ CatalogueIsReady => CertificationIsTrue
  BY DEF CertificationIsTrue
<1> QED
  BY <1>1, LevelsComeFromCertifiers, CatalogueIsAlwaysReady, PTL

-------------------------------------------------------------------------------
(* Moderation of Repits.                                                       *)

-------------------------------------------------------------------------------
(* What an operation on a report does to it, and to the Repit it is about.     *)

\* Report p becomes q and Repit r becomes s.
Rewrites(p, q, r, s) ==
    /\ report' = [report EXCEPT ![p] = q]
    /\ mod' = [mod EXCEPT ![r] = s]
    /\ UNCHANGED overwritten

\* Taking and releasing.
TakenRow(p, a) == [report[p] EXCEPT !.assignee = a, !.status = Taken(p)]
ReleasedRow(p) == [report[p] EXCEPT !.assignee = Null, !.status = Freed(p)]

\* Types, with every report that exists being about a Repit.
ModerationShape ==
    /\ ModerationTypeOK
    /\ \A p \in Report : report[p].status # "none" => report[p].repit \in Repit

LEMMA ReportTypes ==
    ASSUME ModerationShape, NEW p \in Report
    PROVE  /\ report[p].repit \in Repit \cup {Null}
           /\ report[p].status \in ActiveStatus \cup {"none", "resolved"}
           /\ report[p].assignee \in Reviewer \cup {Null}
           /\ ActiveReport(p) => report[p].repit \in Repit
  BY DEF ModerationShape, ModerationTypeOK, ReportRow, ActiveReport, ActiveStatus

\* The columns of a row that was taken, and that it stays a row.
LEMMA TakenFields ==
    ASSUME ModerationShape, NEW p \in Report, NEW a \in Reviewer, ActiveReport(p)
    PROVE  /\ TakenRow(p, a) \in ReportRow
           /\ TakenRow(p, a).repit = report[p].repit
           /\ TakenRow(p, a).assignee = a
           /\ TakenRow(p, a).status = Taken(p)
<1>1. Taken(p) \in ActiveStatus
  BY DEF Taken, ActiveStatus
<1>2. report[p] \in ReportRow
  BY DEF ModerationShape, ModerationTypeOK
<1> DEFINE row == report[p]
           s == Taken(p)
<1> HIDE DEF row, s
<1>3. [row EXCEPT !.assignee = a, !.status = s] \in ReportRow
  BY <1>1, <1>2 DEF ReportRow, row, s
<1> QED
  BY <1>1, <1>2, <1>3 DEF TakenRow, ReportRow, row, s

LEMMA ReleasedFields ==
    ASSUME ModerationShape, NEW p \in Report, ActiveReport(p)
    PROVE  /\ ReleasedRow(p) \in ReportRow
           /\ ReleasedRow(p).repit = report[p].repit
           /\ ReleasedRow(p).assignee = Null
           /\ ReleasedRow(p).status = Freed(p)
<1>1. Freed(p) \in ActiveStatus
  BY DEF Freed, ActiveReport, ActiveStatus
<1>2. report[p] \in ReportRow
  BY DEF ModerationShape, ModerationTypeOK
<1> DEFINE row == report[p]
           s == Freed(p)
<1> HIDE DEF row, s
<1>3. [row EXCEPT !.assignee = Null, !.status = s] \in ReportRow
  BY <1>1, <1>2 DEF ReportRow, row, s
<1> QED
  BY <1>1, <1>2, <1>3 DEF ReleasedRow, ReportRow, row, s

\* Taking and releasing, as rewritings.
LEMMA TakeRewrites ==
    ASSUME ModerationShape, NEW p \in Report, NEW a \in Reviewer, Take(p, a)
    PROVE  Rewrites(p, TakenRow(p, a), report[p].repit,
                    IF mod[report[p].repit] = "reported" THEN "under_review"
                    ELSE mod[report[p].repit])
<1>1. report[p].repit \in Repit /\ mod \in [Repit -> Moderation \cup {"gone"}]
  BY ReportTypes DEF Take, ModerationShape, ModerationTypeOK
<1>2. report' = [report EXCEPT ![p] = TakenRow(p, a)]
  BY DEF Take, TakenRow
<1> QED
  BY <1>1, <1>2 DEF Take, Rewrites

LEMMA ReleaseRewrites ==
    ASSUME ModerationShape, NEW p \in Report, ReleaseReport(p)
    PROVE  Rewrites(p, ReleasedRow(p), report[p].repit,
                    IF report[p].status = "under_review"
                       /\ mod[report[p].repit] = "under_review" THEN "reported"
                    ELSE mod[report[p].repit])
<1>1. report[p].repit \in Repit /\ mod \in [Repit -> Moderation \cup {"gone"}]
  BY ReportTypes DEF ReleaseReport, ModerationShape, ModerationTypeOK
<1>2. report' = [report EXCEPT ![p] = ReleasedRow(p)]
  BY DEF ReleaseReport, ReleasedRow
<1> QED
  BY <1>1, <1>2 DEF ReleaseReport, Rewrites

-------------------------------------------------------------------------------
(* Types.                                                                      *)

LEMMA ModerationTypeStep == ModerationShape /\ [ModerationNext]_moderationVars => ModerationShape'
<1> SUFFICES ASSUME ModerationShape, [ModerationNext]_moderationVars PROVE ModerationShape'
  OBVIOUS
<1>1. ASSUME NEW o \in Opener, NEW r \in Repit, OpenLook(o, r)
      PROVE  ModerationShape'
  BY <1>1 DEF OpenLook, ModerationShape, ModerationTypeOK
<1>2. ASSUME NEW o \in Opener, NEW p \in Report, Open(o, p)
      PROVE  ModerationShape'
  <2> DEFINE row == [repit |-> opener[o], status |-> "open", assignee |-> Null]
  <2>1. opener[o] \in Repit
    BY <1>2 DEF Open, ModerationShape, ModerationTypeOK
  <2>2. row \in ReportRow /\ row.repit \in Repit
    BY <2>1 DEF ReportRow, ActiveStatus
  <2>3. mod' \in [Repit -> Moderation \cup {"gone"}]
    BY <1>2, <2>1 DEF Open, ModerationShape, ModerationTypeOK, Moderation
  <2>4. report' = [report EXCEPT ![p] = row]
    BY <1>2 DEF Open
  <2> HIDE DEF row
  <2> QED
    BY <1>2, <2>2, <2>3, <2>4 DEF Open, ModerationShape, ModerationTypeOK
<1>3. ASSUME NEW o \in Opener, OpenFails(o)
      PROVE  ModerationShape'
  BY <1>3 DEF OpenFails, ModerationShape, ModerationTypeOK
<1>4. ASSUME NEW p \in Report, NEW a \in Reviewer, Take(p, a)
      PROVE  ModerationShape'
  <2>1. TakenRow(p, a) \in ReportRow /\ TakenRow(p, a).repit \in Repit
    BY <1>4, TakenFields, ReportTypes DEF Take
  <2>2. report' = [report EXCEPT ![p] = TakenRow(p, a)]
    BY <1>4 DEF Take, TakenRow
  <2>3. mod' \in [Repit -> Moderation \cup {"gone"}]
    BY <1>4, ReportTypes DEF Take, ModerationShape, ModerationTypeOK, Moderation
  <2> QED
    BY <1>4, <2>1, <2>2, <2>3 DEF Take, ModerationShape, ModerationTypeOK
<1>5. ASSUME NEW p \in Report, ReleaseReport(p)
      PROVE  ModerationShape'
  <2>1. ReleasedRow(p) \in ReportRow /\ ReleasedRow(p).repit \in Repit
    BY <1>5, ReleasedFields, ReportTypes DEF ReleaseReport
  <2>2. report' = [report EXCEPT ![p] = ReleasedRow(p)]
    BY <1>5 DEF ReleaseReport, ReleasedRow
  <2>3. mod' \in [Repit -> Moderation \cup {"gone"}]
    BY <1>5, ReportTypes DEF ReleaseReport, ModerationShape, ModerationTypeOK, Moderation
  <2> QED
    BY <1>5, <2>1, <2>2, <2>3 DEF ReleaseReport, ModerationShape, ModerationTypeOK
<1>6. ASSUME NEW q \in Request, NEW r \in Repit, NEW k \in Key \cup {Null}, LookKeyUp(q, r, k)
      PROVE  ModerationShape'
  <2>1. [pc |-> IF Uses(k) = {} THEN "looked"
                ELSE IF \E d \in Uses(k) : d.repit = r THEN "done" ELSE "refused",
         repit |-> r, key |-> k] \in Asked
    BY DEF Asked
  <2> QED
    BY <1>6, <2>1 DEF LookKeyUp, ModerationShape, ModerationTypeOK
<1>7. ASSUME NEW q \in Request, NEW p \in Report, NEW act \in Action, Decide(q, p, act)
      PROVE  ModerationShape'
  <2>1. request[q] \in Asked /\ report[p] \in ReportRow
    BY DEF ModerationShape, ModerationTypeOK
  <2>2. request[q].repit \in Repit /\ request[q].key \in Key \cup {Null}
    BY <1>7, <2>1, ReportTypes DEF Decide, Asked, Decidable
  <2>3. [request[q] EXCEPT !.pc = "done"] \in Asked
    BY <2>1 DEF Asked
  <2>4. ModAfter(act) \in Moderation
    BY DEF ModAfter, Moderation
  <2> DEFINE s == IF act \in Final THEN "resolved" ELSE "escalated"
  <2>5. s \in ActiveStatus \cup {"none", "resolved"}
    BY DEF ActiveStatus
  <2>6. report' = [report EXCEPT ![p] = [report[p] EXCEPT !.status = s]]
    BY <1>7 DEF Decide
  <2> HIDE DEF s
  <2>7. /\ [report[p] EXCEPT !.status = s] \in ReportRow
        /\ [report[p] EXCEPT !.status = s].repit = request[q].repit
    BY <1>7, <2>1, <2>5 DEF ReportRow, Decide
  <2>8. report' \in [Report -> ReportRow]
        /\ \A x \in Report : report'[x].status # "none" => report'[x].repit \in Repit
    BY <2>2, <2>6, <2>7 DEF ModerationShape, ModerationTypeOK
  <2>9. mod' \in [Repit -> Moderation \cup {"gone"}] /\ request' \in [Request -> Asked]
    BY <1>7, <2>3, <2>4 DEF Decide, Answer, ModerationShape, ModerationTypeOK
  <2>10. decisions' \subseteq [by : Request, repit : Repit, report : Report,
                               action : Action, key : Key \cup {Null}]
    BY <1>7, <2>2 DEF Decide, ModerationShape, ModerationTypeOK
  <2> QED
    BY <1>7, <2>8, <2>9, <2>10 DEF Decide, ModerationShape, ModerationTypeOK
<1>8. ASSUME NEW q \in Request, Recover(q) \/ DecideFails(q)
      PROVE  ModerationShape'
  <2>1. \A pc \in {"done", "refused"} : [request[q] EXCEPT !.pc = pc] \in Asked
    BY DEF ModerationShape, ModerationTypeOK, Asked
  <2>2. request' \in [Request -> Asked]
    BY <1>8, <2>1 DEF Recover, DecideFails, Answer, ModerationShape, ModerationTypeOK
  <2> QED
    BY <1>8, <2>2 DEF Recover, DecideFails, ModerationShape, ModerationTypeOK
<1>9. ASSUME NEW r \in Repit, OwnerStep(r)
      PROVE  ModerationShape'
  BY <1>9 DEF OwnerStep, EditRead, EditSave, EditRefused, OwnerDeletes, ModerationShape, ModerationTypeOK,
              Moderation, Hidden
<1>10. CASE UNCHANGED moderationVars
  BY <1>10 DEF moderationVars, ModerationShape, ModerationTypeOK
<1> QED
  BY <1>1, <1>2, <1>3, <1>4, <1>5, <1>6, <1>7, <1>8, <1>9, <1>10
  DEF ModerationNext, OpenerStep, ReportStep, RequestStep, ClaimReport, AssignReport

LEMMA ModerationShapeInit == ModerationInit => ModerationShape
  BY DEF ModerationInit, ModerationShape, ModerationTypeOK, ReportRow, Moderation, Asked, NotAsked

\* Rows and requests keep their types.
THEOREM ModerationTypes == ModerationSpec => []ModerationTypeOK
<1>1. ModerationShape => ModerationTypeOK
  BY DEF ModerationShape
<1> QED
  BY ModerationShapeInit, ModerationTypeStep, <1>1, PTL DEF ModerationSpec

-------------------------------------------------------------------------------
(* The Repit and its report.                                                   *)

\* What the unique index keeps.
OneActive ==
    \A p, q \in Report : ActiveReport(p) /\ ActiveReport(q) /\ report[p].repit = report[q].repit
                            => p = q
Expected(s) == IF s = "open" THEN "reported" ELSE "under_review"

\* An active report and its Repit are rewritten together.
LEMMA RewrittenTogether ==
    ASSUME ModerationShape, OneActive, RepitFollowsReport,
           NEW p \in Report, NEW q, NEW s, ActiveReport(p),
           Rewrites(p, q, report[p].repit, s),
           q.repit = report[p].repit,
           q.status \in ActiveStatus \cup {"resolved"},
           report[p].repit \notin overwritten /\ s # "gone" =>
              /\ q.status \in ActiveStatus => s = Expected(q.status)
              /\ q.status = "resolved" => s \in Hidden \cup {"active"}
    PROVE  OneActive' /\ RepitFollowsReport'
<1> DEFINE r == report[p].repit
<1>1. r \in Repit
  BY ReportTypes
<1>2. /\ report'[p] = q
      /\ \A x \in Report \ {p} : report'[x] = report[x]
      /\ mod'[r] = s
      /\ \A y \in Repit \ {r} : mod'[y] = mod[y]
      /\ overwritten' = overwritten
  BY <1>1 DEF Rewrites, ModerationShape, ModerationTypeOK
<1>3. q.status \in ActiveStatus <=> q.status # "resolved"
  BY DEF ActiveStatus
<1> HIDE DEF r
<1>4. q.repit = r /\ report[p].repit = r
  BY DEF r
<1>5. \A x \in Report \ {p} : ActiveReport(x) => report[x].repit # r
  BY <1>4 DEF OneActive
<1>6. OneActive'
  BY <1>2, <1>4, <1>5 DEF OneActive, ActiveReport
<1>7. ASSUME NEW y \in Repit \ overwritten', mod'[y] # "gone"
      PROVE  /\ \A x \in ActiveOf(y)' : mod'[y] = Expected(report'[x].status)
             /\ ActiveOf(y)' = {} => mod'[y] \in Hidden \cup {"active"}
  <2>1. CASE y = r
    <3>1. \A x \in ActiveOf(y)' : x = p
      BY <1>2, <1>5, <2>1 DEF ActiveOf, ActiveReport
    <3>2. p \in ActiveOf(y)' <=> q.status \in ActiveStatus
      BY <1>2, <1>4, <2>1 DEF ActiveOf, ActiveReport
    <3>3. y \notin overwritten /\ s # "gone"
      BY <1>2, <1>7, <2>1
    <3> QED
      BY <1>2, <1>3, <1>4, <2>1, <3>1, <3>2, <3>3
  <2>2. CASE y # r
    <3>1. ActiveOf(y)' = ActiveOf(y)
      BY <1>2, <1>4, <2>2 DEF ActiveOf, ActiveReport
    <3>2. \A x \in ActiveOf(y) : x # p /\ report'[x] = report[x]
      BY <1>2, <1>4, <2>2 DEF ActiveOf
    <3>3. mod'[y] = mod[y] /\ y \notin overwritten
      BY <1>2, <1>7, <2>2
    <3> QED
      BY <1>7, <3>1, <3>2, <3>3 DEF RepitFollowsReport, Expected
  <2> QED
    BY <2>1, <2>2
<1>8. RepitFollowsReport'
  BY <1>7 DEF RepitFollowsReport, Expected
<1> QED
  BY <1>6, <1>8

\* What the invariant says of the Repit of an active report.
LEMMA AgreeOn ==
    ASSUME ModerationShape, RepitFollowsReport, NEW p \in Report, ActiveReport(p),
           report[p].repit \notin overwritten, mod[report[p].repit] # "gone"
    PROVE  mod[report[p].repit] = Expected(report[p].status)
<1>1. report[p].repit \in Repit \ overwritten /\ p \in ActiveOf(report[p].repit)
  BY ReportTypes DEF ActiveOf
<1> QED
  BY <1>1 DEF RepitFollowsReport, Expected

LEMMA AgreeStep ==
    ModerationShape /\ OneActive /\ RepitFollowsReport /\ [ModerationNext]_moderationVars
        => OneActive' /\ RepitFollowsReport'
<1> SUFFICES ASSUME ModerationShape, OneActive, RepitFollowsReport, [ModerationNext]_moderationVars
             PROVE  OneActive' /\ RepitFollowsReport'
  OBVIOUS
<1>1. ASSUME NEW o \in Opener, NEW p \in Report, Open(o, p)
      PROVE  OneActive' /\ RepitFollowsReport'
  <2> DEFINE r == opener[o]
  <2>1. r \in Repit /\ ActiveOf(r) = {} /\ ~ActiveReport(p)
    BY <1>1 DEF Open, ModerationShape, ModerationTypeOK, ActiveReport, ActiveStatus
  <2>2. /\ report'[p] = [repit |-> r, status |-> "open", assignee |-> Null]
        /\ \A x \in Report \ {p} : report'[x] = report[x]
        /\ mod'[r] = "reported"
        /\ \A y \in Repit \ {r} : mod'[y] = mod[y]
        /\ overwritten' = overwritten
    BY <1>1, <2>1 DEF Open, ModerationShape, ModerationTypeOK
  <2> HIDE DEF r
  <2>3. OneActive'
    BY <2>1, <2>2 DEF OneActive, ActiveReport, ActiveOf
  <2>4. ASSUME NEW y \in Repit \ overwritten', mod'[y] # "gone"
        PROVE  /\ \A x \in ActiveOf(y)' : mod'[y] = Expected(report'[x].status)
               /\ ActiveOf(y)' = {} => mod'[y] \in Hidden \cup {"active"}
    <3>1. CASE y = r
      <4>1. \A x \in ActiveOf(y)' : x = p
        BY <2>1, <2>2, <3>1 DEF ActiveOf, ActiveReport
      <4>2. p \in ActiveOf(y)'
        BY <2>2, <3>1 DEF ActiveOf, ActiveReport, ActiveStatus
      <4> QED
        BY <2>2, <3>1, <4>1, <4>2 DEF Expected
    <3>2. CASE y # r
      <4>1. ActiveOf(y)' = ActiveOf(y) /\ p \notin ActiveOf(y)
        BY <2>1, <2>2, <3>2 DEF ActiveOf, ActiveReport
      <4>2. \A x \in ActiveOf(y) : report'[x] = report[x]
        BY <2>2, <4>1 DEF ActiveOf
      <4>3. mod'[y] = mod[y] /\ y \notin overwritten
        BY <2>2, <2>4, <3>2
      <4> QED
        BY <2>4, <4>1, <4>2, <4>3 DEF RepitFollowsReport, Expected
    <3> QED
      BY <3>1, <3>2
  <2> QED
    BY <2>3, <2>4 DEF RepitFollowsReport, Expected
<1>2. ASSUME NEW p \in Report, NEW a \in Reviewer, Take(p, a)
      PROVE  OneActive' /\ RepitFollowsReport'
  <2>1. ActiveReport(p)
    BY <1>2 DEF Take
  <2> DEFINE r == report[p].repit
             s == IF mod[r] = "reported" THEN "under_review" ELSE mod[r]
  <2>2. Rewrites(p, TakenRow(p, a), r, s)
    BY <1>2, TakeRewrites
  <2>3. r \notin overwritten /\ s # "gone" => s = Expected(Taken(p))
    BY <2>1, AgreeOn DEF Expected, Taken, ActiveReport, ActiveStatus
  <2>4. Taken(p) \in ActiveStatus
    BY DEF Taken, ActiveStatus
  <2>5. TakenRow(p, a).repit = r /\ TakenRow(p, a).status = Taken(p)
    BY <2>1, TakenFields
  <2>6. Taken(p) # "resolved"
    BY DEF Taken
  <2> HIDE DEF s
  <2> QED
    BY <2>1, <2>2, <2>3, <2>4, <2>5, <2>6, RewrittenTogether
<1>3. ASSUME NEW p \in Report, ReleaseReport(p)
      PROVE  OneActive' /\ RepitFollowsReport'
  <2>1. ActiveReport(p)
    BY <1>3 DEF ReleaseReport
  <2> DEFINE r == report[p].repit
             s == IF report[p].status = "under_review" /\ mod[r] = "under_review"
                  THEN "reported" ELSE mod[r]
  <2>2. Rewrites(p, ReleasedRow(p), r, s)
    BY <1>3, ReleaseRewrites
  <2>3. r \notin overwritten /\ s # "gone" => s = Expected(Freed(p))
    BY <2>1, AgreeOn DEF Expected, Freed, ActiveReport, ActiveStatus
  <2>4. Freed(p) \in ActiveStatus /\ Freed(p) # "resolved"
    BY <2>1 DEF Freed, ActiveReport, ActiveStatus
  <2>5. ReleasedRow(p).repit = r /\ ReleasedRow(p).status = Freed(p)
    BY <2>1, ReleasedFields
  <2> HIDE DEF s
  <2> QED
    BY <2>1, <2>2, <2>3, <2>4, <2>5, RewrittenTogether
<1>4. ASSUME NEW q \in Request, NEW p \in Report, NEW act \in Action, Decide(q, p, act)
      PROVE  OneActive' /\ RepitFollowsReport'
  <2>1. ActiveReport(p) /\ report[p].repit = request[q].repit
    BY <1>4 DEF Decide, Decidable
  <2> DEFINE s == IF act \in Final THEN "resolved" ELSE "escalated"
             row == [report[p] EXCEPT !.status = s]
  <2>2. report' = [report EXCEPT ![p] = row]
        /\ mod' = [mod EXCEPT ![report[p].repit] = ModAfter(act)]
        /\ overwritten' = overwritten
    BY <1>4, <2>1 DEF Decide
  <2>3. report[p] \in ReportRow
    BY DEF ModerationShape, ModerationTypeOK
  <2>4. s \in ActiveStatus \cup {"resolved"} /\ (s = "resolved" <=> act \in Final)
        /\ (s # "resolved" => s = "escalated")
    BY DEF ActiveStatus
  <2> HIDE DEF s
  <2>5. row.repit = report[p].repit /\ row.status = s
    BY <2>3, <2>4 DEF ReportRow
  <2> HIDE DEF row
  <2>6. /\ act \in Final => ModAfter(act) \in Hidden \cup {"active"}
        /\ act \notin Final => ModAfter(act) = "under_review"
    BY DEF ModAfter, Final, Action, Hidden
  <2>7. "resolved" \notin ActiveStatus /\ Expected("escalated") = "under_review"
    BY DEF ActiveStatus, Expected
  <2>8. /\ row.status \in ActiveStatus => ModAfter(act) = Expected(row.status)
        /\ row.status = "resolved" => ModAfter(act) \in Hidden \cup {"active"}
    BY <2>4, <2>5, <2>6, <2>7
  <2>9. row.status \in ActiveStatus \cup {"resolved"}
    BY <2>4, <2>5
  <2> QED
    BY <2>1, <2>2, <2>5, <2>8, <2>9, RewrittenTogether DEF Rewrites
<1>5. CASE UNCHANGED <<mod, report, overwritten>>
  BY <1>5 DEF OneActive, RepitFollowsReport, ActiveOf, ActiveReport
<1>6. ASSUME NEW r \in Repit, EditSave(r) \/ OwnerDeletes(r)
      PROVE  OneActive' /\ RepitFollowsReport'
  <2>1. OneActive'
    BY <1>6 DEF EditSave, OwnerDeletes, OneActive, ActiveReport
  <2>2. \A y \in Repit : ActiveOf(y)' = ActiveOf(y)
    BY <1>6 DEF EditSave, OwnerDeletes, ActiveOf, ActiveReport
  <2>3. \A y \in Repit \ overwritten' :
            /\ y \notin overwritten
            /\ (mod'[y] = mod[y] \/ mod'[y] = "gone")
    BY <1>6 DEF EditSave, OwnerDeletes, ModerationShape, ModerationTypeOK
  <2>4. report' = report
    BY <1>6 DEF EditSave, OwnerDeletes
  <2> QED
    BY <2>1, <2>2, <2>3, <2>4 DEF RepitFollowsReport
<1> QED
  BY <1>1, <1>2, <1>3, <1>4, <1>5, <1>6
  DEF ModerationNext, moderationVars, OpenerStep, ReportStep, RequestStep, OwnerStep,
      OpenLook, OpenFails,
      ClaimReport, AssignReport, LookKeyUp, Recover, DecideFails, EditRead, EditRefused

-------------------------------------------------------------------------------
(* Hidden Repits.                                                              *)

\* A hidden Repit has no active report, and so nothing to take, release or decide.
LEMMA HiddenHasNoReport ==
    ASSUME ModerationShape, RepitFollowsReport, NEW r \in Repit \ overwritten, mod[r] \in Hidden,
           NEW p \in Report, report[p].repit = r
    PROVE  ~ActiveReport(p)
<1> SUFFICES ASSUME ActiveReport(p) PROVE FALSE
  OBVIOUS
<1>1. mod[r] = Expected(report[p].status)
  BY AgreeOn DEF Hidden
<1> QED
  BY <1>1 DEF Expected, Hidden

LEMMA HiddenStep ==
    ASSUME ModerationShape, RepitFollowsReport, [ModerationNext]_moderationVars,
           NEW r \in Repit, mod[r] \in Hidden, r \notin overwritten'
    PROVE  \/ mod'[r] \in {mod[r], "gone"}
           \/ /\ mod'[r] = "reported"
              /\ \E p \in Report : report[p].status = "none"
                                   /\ report'[p].status = "open"
                                   /\ report'[p].repit = r
<1>1. ASSUME NEW o \in Opener, NEW p \in Report, Open(o, p), opener[o] = r
      PROVE  /\ mod'[r] = "reported"
             /\ report[p].status = "none"
             /\ report'[p].status = "open"
             /\ report'[p].repit = r
  BY <1>1 DEF Open, ModerationShape, ModerationTypeOK
<1>2. ASSUME NEW o \in Opener, NEW p \in Report, Open(o, p), opener[o] # r
      PROVE  mod'[r] = mod[r]
  BY <1>2 DEF Open, ModerationShape, ModerationTypeOK
<1>3. ASSUME NEW p \in Report, NEW a \in Reviewer, Take(p, a)
      PROVE  mod'[r] = mod[r]
  <2>1. r \notin overwritten /\ ActiveReport(p)
    BY <1>3 DEF Take
  <2>2. report[p].repit # r
    BY <2>1, HiddenHasNoReport
  <2> QED
    BY <1>3, <2>2 DEF Take, ModerationShape, ModerationTypeOK
<1>4. ASSUME NEW p \in Report, ReleaseReport(p)
      PROVE  mod'[r] = mod[r]
  <2>1. r \notin overwritten /\ ActiveReport(p)
    BY <1>4 DEF ReleaseReport
  <2>2. report[p].repit # r
    BY <2>1, HiddenHasNoReport
  <2> QED
    BY <1>4, <2>2 DEF ReleaseReport, ModerationShape, ModerationTypeOK
<1>5. ASSUME NEW q \in Request, NEW p \in Report, NEW act \in Action, Decide(q, p, act)
      PROVE  mod'[r] = mod[r]
  <2>1. r \notin overwritten /\ ActiveReport(p)
    BY <1>5 DEF Decide, Decidable
  <2>2. report[p].repit # r
    BY <2>1, HiddenHasNoReport
  <2> QED
    BY <1>5, <2>2 DEF Decide, ModerationShape, ModerationTypeOK
<1>6. ASSUME NEW y \in Repit, EditSave(y)
      PROVE  mod'[r] = mod[r]
  BY <1>6 DEF EditSave, ModerationShape, ModerationTypeOK
<1>7. ASSUME NEW y \in Repit, OwnerDeletes(y)
      PROVE  mod'[r] \in {mod[r], "gone"}
  BY <1>7 DEF OwnerDeletes, ModerationShape, ModerationTypeOK
<1>8. CASE UNCHANGED mod
  BY <1>8
<1> QED
  BY <1>1, <1>2, <1>3, <1>4, <1>5, <1>6, <1>7, <1>8
  DEF ModerationNext, moderationVars, OpenerStep, ReportStep, RequestStep, OwnerStep,
      OpenLook, OpenFails,
      ClaimReport, AssignReport, LookKeyUp, Recover, DecideFails, EditRead, EditRefused

\* What a moderator hides stays hidden until it is reported again.
THEOREM HiddenStaysHidden == ModerationSpec => HiddenUntilReportedAgain
<1> DEFINE Step ==
      \A r \in Repit :
          mod[r] \in Hidden /\ r \notin overwritten' =>
              \/ mod'[r] \in {mod[r], "gone"}
              \/ /\ mod'[r] = "reported"
                 /\ \E p \in Report : report[p].status = "none"
                                      /\ report'[p].status = "open"
                                      /\ report'[p].repit = r
<1>1. ModerationShape /\ RepitFollowsReport /\ [ModerationNext]_moderationVars => [Step]_moderationVars
  BY HiddenStep
<1>2. ModerationInit => OneActive /\ RepitFollowsReport
  BY DEF ModerationInit, OneActive, RepitFollowsReport, ActiveOf, ActiveReport, ActiveStatus
<1> QED
  BY ModerationShapeInit, ModerationTypeStep, AgreeStep, <1>1, <1>2, PTL DEF ModerationSpec, HiddenUntilReportedAgain

-------------------------------------------------------------------------------
(* Reviewers and decisions.                                                    *)

LEMMA WorkStep ==
    ASSUME Null \notin Reviewer, ModerationShape, WorkHasAReviewer, [ModerationNext]_moderationVars
    PROVE  WorkHasAReviewer'
<1>1. ASSUME NEW o \in Opener, NEW p \in Report, Open(o, p)
      PROVE  WorkHasAReviewer'
  BY <1>1 DEF Open, WorkHasAReviewer, ModerationShape, ModerationTypeOK
<1>2. ASSUME NEW p \in Report, NEW a \in Reviewer, Take(p, a)
      PROVE  WorkHasAReviewer'
  <2>1. report' = [report EXCEPT ![p] = TakenRow(p, a)]
    BY <1>2 DEF Take, TakenRow
  <2>2. TakenRow(p, a).assignee # Null /\ TakenRow(p, a).status # "open"
    BY <1>2, TakenFields DEF Take, Taken
  <2> QED
    BY <2>1, <2>2 DEF WorkHasAReviewer, ModerationShape, ModerationTypeOK
<1>3. ASSUME NEW p \in Report, ReleaseReport(p)
      PROVE  WorkHasAReviewer'
  <2>1. report' = [report EXCEPT ![p] = ReleasedRow(p)]
    BY <1>3 DEF ReleaseReport, ReleasedRow
  <2>2. ReleasedRow(p).assignee = Null /\ ReleasedRow(p).status # "under_review"
    BY <1>3, ReleasedFields DEF ReleaseReport, Freed
  <2> QED
    BY <2>1, <2>2 DEF WorkHasAReviewer, ModerationShape, ModerationTypeOK
<1>4. ASSUME NEW q \in Request, NEW p \in Report, NEW act \in Action, Decide(q, p, act)
      PROVE  WorkHasAReviewer'
  <2>1. report[p] \in ReportRow
    BY DEF ModerationShape, ModerationTypeOK
  <2>2. report'[p].status \in {"resolved", "escalated"}
    BY <1>4, <2>1 DEF Decide, ReportRow, ModerationShape, ModerationTypeOK
  <2>3. \A x \in Report \ {p} : report'[x] = report[x]
    BY <1>4 DEF Decide, ModerationShape, ModerationTypeOK
  <2> QED
    BY <2>2, <2>3 DEF WorkHasAReviewer
<1>5. CASE UNCHANGED report
  BY <1>5 DEF WorkHasAReviewer
<1> QED
  BY <1>1, <1>2, <1>3, <1>4, <1>5
  DEF ModerationNext, moderationVars, OpenerStep, ReportStep, RequestStep, OwnerStep,
      OpenLook, OpenFails,
      ClaimReport, AssignReport, LookKeyUp, Recover, DecideFails, EditRead, EditSave, EditRefused,
      OwnerDeletes

\* The queue, the Repits and the reviewers agree.
THEOREM QueueIsAlwaysTrue ==
    ASSUME Null \notin Reviewer
    PROVE  ModerationSpec => []QueueIsTrue
<1> DEFINE Inv == OneActive /\ RepitFollowsReport /\ WorkHasAReviewer
<1>1. ModerationInit => Inv
  BY DEF ModerationInit, OneActive, RepitFollowsReport, ActiveOf, ActiveReport,
         ActiveStatus, WorkHasAReviewer
<1>2. ModerationShape /\ Inv /\ [ModerationNext]_moderationVars => Inv'
  BY AgreeStep, WorkStep
<1>3. Inv => QueueIsTrue
  BY DEF QueueIsTrue
<1> QED
  BY ModerationShapeInit, ModerationTypeStep, <1>1, <1>2, <1>3, PTL DEF ModerationSpec

\* The final decisions about a report.
Finals(p) == {d \in decisions : d.report = p /\ d.action \in Final}

LEMMA ResolvedUnfolded ==
    ResolvedByOneDecision <=>
        \A p \in Report : /\ \A d, e \in Finals(p) : d = e
                          /\ report[p].status = "resolved" <=> Finals(p) # {}
  BY DEF ResolvedByOneDecision, Finals

LEMMA ResolvedStep ==
    ModerationShape /\ ResolvedByOneDecision /\ [ModerationNext]_moderationVars => ResolvedByOneDecision'
<1> SUFFICES ASSUME ModerationShape, ResolvedByOneDecision, [ModerationNext]_moderationVars
             PROVE  ResolvedByOneDecision'
  OBVIOUS
<1>1. ASSUME UNCHANGED decisions,
             \A p \in Report : report'[p].status = "resolved"
                                  <=> report[p].status = "resolved"
      PROVE  ResolvedByOneDecision'
  BY <1>1 DEF ResolvedByOneDecision
<1>2. ASSUME NEW o \in Opener, NEW p \in Report, Open(o, p)
      PROVE  ResolvedByOneDecision'
  <2>1. \A x \in Report : report'[x].status = "resolved" <=> report[x].status = "resolved"
    BY <1>2 DEF Open, ModerationShape, ModerationTypeOK
  <2> QED
    BY <1>1, <1>2, <2>1 DEF Open
<1>3. ASSUME NEW p \in Report, NEW a \in Reviewer, Take(p, a)
      PROVE  ResolvedByOneDecision'
  <2>1. report' = [report EXCEPT ![p] = TakenRow(p, a)] /\ ActiveReport(p)
    BY <1>3 DEF Take, TakenRow
  <2>2. TakenRow(p, a).status # "resolved" /\ report[p].status # "resolved"
    BY <2>1, TakenFields DEF ActiveReport, ActiveStatus, Taken
  <2>3. \A x \in Report : report'[x].status = "resolved" <=> report[x].status = "resolved"
    BY <2>1, <2>2 DEF ModerationShape, ModerationTypeOK
  <2> QED
    BY <1>1, <1>3, <2>3 DEF Take
<1>4. ASSUME NEW p \in Report, ReleaseReport(p)
      PROVE  ResolvedByOneDecision'
  <2>1. report' = [report EXCEPT ![p] = ReleasedRow(p)] /\ ActiveReport(p)
    BY <1>4 DEF ReleaseReport, ReleasedRow
  <2>2. ReleasedRow(p).status # "resolved" /\ report[p].status # "resolved"
    BY <2>1, ReleasedFields DEF ActiveReport, ActiveStatus, Freed
  <2>3. \A x \in Report : report'[x].status = "resolved" <=> report[x].status = "resolved"
    BY <2>1, <2>2 DEF ModerationShape, ModerationTypeOK
  <2> QED
    BY <1>1, <1>4, <2>3 DEF ReleaseReport
<1>5. ASSUME NEW q \in Request, NEW p \in Report, NEW act \in Action, Decide(q, p, act)
      PROVE  ResolvedByOneDecision'
  <2> DEFINE d == [by |-> q, repit |-> request[q].repit, report |-> p, action |-> act,
                   key |-> request[q].key]
  <2>1. report[p].status # "resolved" /\ report[p] \in ReportRow
    BY <1>5 DEF Decide, Decidable, ActiveReport, ActiveStatus, ModerationShape, ModerationTypeOK
  <2>2. Finals(p) = {}
    BY <2>1, ResolvedUnfolded
  <2>3. decisions' = decisions \cup {d}
    BY <1>5 DEF Decide
  <2>4. d.report = p /\ d.action = act
    OBVIOUS
  <2>5. report'[p].status = "resolved" <=> act \in Final
    BY <1>5, <2>1 DEF Decide, ReportRow, ModerationShape, ModerationTypeOK
  <2>6. \A x \in Report \ {p} : report'[x] = report[x]
    BY <1>5 DEF Decide, ModerationShape, ModerationTypeOK
  <2> HIDE DEF d
  <2>7. Finals(p)' = IF act \in Final THEN {d} ELSE {}
    BY <2>2, <2>3, <2>4 DEF Finals
  <2>8. \A x \in Report \ {p} : Finals(x)' = Finals(x)
    BY <2>3, <2>4 DEF Finals
  <2>9. ASSUME NEW x \in Report
        PROVE  /\ \A e, f \in Finals(x)' : e = f
               /\ report'[x].status = "resolved" <=> Finals(x)' # {}
    <3>1. CASE x = p
      BY <2>5, <2>7, <3>1
    <3>2. CASE x # p
      BY <2>6, <2>8, <3>2, ResolvedUnfolded
    <3> QED
      BY <3>1, <3>2
  <2> QED
    BY <2>9 DEF ResolvedByOneDecision, Finals
<1>6. CASE UNCHANGED <<report, decisions>>
  BY <1>6 DEF ResolvedByOneDecision
<1> QED
  BY <1>2, <1>3, <1>4, <1>5, <1>6
  DEF ModerationNext, moderationVars, OpenerStep, ReportStep, RequestStep, OwnerStep,
      OpenLook, OpenFails,
      ClaimReport, AssignReport, LookKeyUp, Recover, DecideFails, EditRead, EditSave, EditRefused,
      OwnerDeletes

\* A report is resolved by one final decision.
THEOREM ResolvedOnce == ModerationSpec => []ResolvedByOneDecision
<1>1. ModerationInit => ResolvedByOneDecision
  BY DEF ModerationInit, ResolvedByOneDecision
<1> QED
  BY ModerationShapeInit, ModerationTypeStep, ResolvedStep, <1>1, PTL DEF ModerationSpec

\* The decision that a request may be told of.
Answers(q, d) ==
    /\ d.repit = request[q].repit
    /\ d.key = request[q].key
    /\ d.key = Null => d.by = q

LEMMA ToldStep == ModerationShape /\ ToldIsOnFile /\ [ModerationNext]_moderationVars => ToldIsOnFile'
<1> SUFFICES ASSUME ModerationShape, ToldIsOnFile, [ModerationNext]_moderationVars,
                    NEW q \in Request, request'[q].pc = "done"
             PROVE  \E d \in decisions' : Answers(q, d)'
  BY DEF ToldIsOnFile, Answers
<1>1. decisions \subseteq decisions'
  BY DEF ModerationNext, moderationVars, OpenerStep, ReportStep, RequestStep, OwnerStep, OpenLook, Open,
         OpenFails, ClaimReport, AssignReport, Take, ReleaseReport, LookKeyUp, Decide, Recover, DecideFails,
         EditRead, EditSave, EditRefused, OwnerDeletes
<1>2. CASE request'[q] = request[q]
  BY <1>1, <1>2 DEF ToldIsOnFile, Answers
<1>3. ASSUME NEW r \in Repit, NEW k \in Key \cup {Null}, LookKeyUp(q, r, k)
      PROVE  \E d \in decisions' : Answers(q, d)'
  <2>1. request'[q] = [pc |-> IF Uses(k) = {} THEN "looked"
                              ELSE IF \E d \in Uses(k) : d.repit = r THEN "done"
                              ELSE "refused",
                       repit |-> r, key |-> k]
    BY <1>3 DEF LookKeyUp, ModerationShape, ModerationTypeOK
  <2>2. PICK d \in Uses(k) : d.repit = r
    BY <2>1
  <2> QED
    BY <1>1, <2>1, <2>2 DEF Answers, Uses
<1>4. ASSUME NEW p \in Report, NEW act \in Action, Decide(q, p, act)
      PROVE  \E d \in decisions' : Answers(q, d)'
  <2> DEFINE d == [by |-> q, repit |-> request[q].repit, report |-> p, action |-> act,
                   key |-> request[q].key]
  <2>1. d \in decisions'
    BY <1>4 DEF Decide
  <2>2. request'[q].repit = request[q].repit /\ request'[q].key = request[q].key
    BY <1>4 DEF Decide, Answer, ModerationShape, ModerationTypeOK, Asked
  <2> QED
    BY <2>1, <2>2 DEF Answers
<1>5. ASSUME Recover(q)
      PROVE  \E d \in decisions' : Answers(q, d)'
  <2>1. request'[q].repit = request[q].repit /\ request'[q].key = request[q].key
    BY <1>5 DEF Recover, Answer, ModerationShape, ModerationTypeOK, Asked
  <2>2. PICK d \in Uses(request[q].key) : d.repit = request[q].repit
    BY <1>5 DEF Recover, Answer, ModerationShape, ModerationTypeOK, Asked
  <2> QED
    BY <1>1, <2>1, <2>2 DEF Answers, Uses
<1>6. ~DecideFails(q)
  BY DEF DecideFails, Answer, ModerationShape, ModerationTypeOK, Asked
<1>7. ASSUME NEW x \in Request, x # q, RequestStep(x)
      PROVE  request'[q] = request[q]
  BY <1>7 DEF RequestStep, LookKeyUp, Decide, Recover, DecideFails, Answer, ModerationShape, ModerationTypeOK
<1>8. CASE UNCHANGED request
  BY <1>2, <1>8
<1>9. CASE RequestStep(q)
  BY <1>3, <1>4, <1>5, <1>6, <1>9 DEF RequestStep
<1> QED
  BY <1>2, <1>7, <1>8, <1>9
  DEF ModerationNext, moderationVars, OpenerStep, ReportStep, OwnerStep, OpenLook, Open, OpenFails,
      ClaimReport, AssignReport, Take, ReleaseReport, EditRead, EditSave, EditRefused, OwnerDeletes

\* Whoever is told that his decision is made has one on file.
THEOREM ToldIsAlwaysOnFile == ModerationSpec => []ToldIsOnFile
<1>1. ModerationInit => ToldIsOnFile
  BY DEF ModerationInit, ToldIsOnFile, NotAsked
<1> QED
  BY ModerationShapeInit, ModerationTypeStep, ToldStep, <1>1, PTL DEF ModerationSpec

\* Decisions are final and on file.
THEOREM DecisionsAlwaysStand == ModerationSpec => []DecisionsStand
<1>1. ResolvedByOneDecision /\ ToldIsOnFile => DecisionsStand
  BY DEF DecisionsStand
<1> QED
  BY <1>1, ResolvedOnce, ToldIsAlwaysOnFile, PTL

-------------------------------------------------------------------------------
(* The desks together.                                                         *)

\* A step at one desk leaves the others as they are: a behaviour of the desks is
\* one of support cases, of templates and of moderation, and what is proved of
\* each of them above holds of the desks.
THEOREM DesksAreApart == DeskSpec => Spec /\ TemplateSpec /\ ModerationSpec
<1>1. DeskInit => Init /\ TemplateInit /\ ModerationInit
  BY DEF DeskInit
<1>2. [DeskNext]_<<vars, templateVars, moderationVars, desk>>
        => [Next]_vars /\ [TemplateNext]_templateVars /\ [ModerationNext]_moderationVars
  BY DEF DeskNext
<1> QED
  BY <1>1, <1>2, PTL DEF DeskSpec, Spec, TemplateSpec, ModerationSpec

\* DeskTypeOK: rows and requests hold values of their columns' types at every desk.
THEOREM DeskTypes == DeskSpec => []DeskTypeOK
<1>1. TypeOK /\ TemplateTypeOK /\ ModerationTypeOK => DeskTypeOK
  BY DEF DeskTypeOK
<1> QED
  BY <1>1, DesksAreApart, CasesTypes, TemplateTypes, ModerationTypes, PTL
================================================================================
