----------------------------- MODULE SupportCases -----------------------------
(* Support cases: admin-support.service.ts, the contact form that opens cases  *)
(* (contact.service.ts) and the table of ordinary status changes               *)
(* (support-lifecycle.constants.ts).                                           *)
(*                                                                             *)
(* A case has a status, replies identified by the client's idempotency key,    *)
(* and escalations.  Every admin operation but one runs in a transaction that  *)
(* locks the case row, and is one step here.  The exceptions are the steps     *)
(* between which other requests get in:                                        *)
(*   - a reply is looked up, claimed, mailed, recorded and booked on the case  *)
(*     in five steps, of which only the claim and the booking hold the lock;   *)
(*   - completing an escalation locks the escalation and not the case: it      *)
(*     counts, reads the case, and saves the row it read;                      *)
(*   - the contact form saves the case once more, with the status it was       *)
(*     created with, after its mail has left.                                  *)
(* Left out: subject, text, priority, classification, notes, SLA times and     *)
(* assignee (whose only effect on the status is the choice in CommitComplete). *)
EXTENDS Integers, FiniteSets

CONSTANTS
    Ticket,      \* cases
    Response,    \* idempotency keys, each of one reply
    Escalation,  \* escalations
    Sender,      \* requests that may be sending a reply at the same time
    None,        \* no case, no reply, no status
    MaxLost      \* mails per reply that leave although the mailer reports failure

ASSUME CasesAssumption ==
    /\ None \notin Ticket \cup Response
    /\ MaxLost \in Nat

VARIABLES
    status,      \* contact_submissions.status, "none" before the row exists
    forwarding,  \* cases whose contact form is still mailing the support address
    response,    \* support_ticket_responses
    mail,        \* what the customer was sent: mails accepted, mails left unreported
    escalation,  \* support_ticket_escalations
    sender,      \* respond() requests
    work         \* updateEscalation() transactions that complete an escalation

vars == <<status, forwarding, response, mail, escalation, sender, work>>

-------------------------------------------------------------------------------
(* State                                                                       *)

Transitions ==
    [new                  |-> {"open", "assigned", "waiting_for_internal", "escalated"},
     open                 |-> {"assigned", "waiting_for_customer", "waiting_for_internal", "escalated"},
     assigned             |-> {"open", "waiting_for_customer", "waiting_for_internal", "escalated"},
     waiting_for_customer |-> {"open", "assigned", "waiting_for_internal", "escalated"},
     waiting_for_internal |-> {"open", "assigned", "waiting_for_customer", "escalated"},
     escalated            |-> {"open", "assigned", "waiting_for_internal"},
     reopened             |-> {"open", "assigned", "waiting_for_customer", "waiting_for_internal", "escalated"},
     resolved             |-> {"closed"},
     closed               |-> {}]

Status == {"new", "open", "assigned", "waiting_for_customer",
           "waiting_for_internal", "escalated", "reopened", "resolved", "closed"}
Done == {"resolved", "closed"}

ResponseRow == [status : {"none", "queued", "sent_to_provider", "failed"},
                ticket : Ticket \cup {None}]
EscalationRow == [status : {"none", "open", "accepted", "resolved", "returned"},
                  ticket : Ticket \cup {None}]
Attempt == [pc : {"idle", "fresh", "retry", "sending", "rejected", "accepted", "booking"},
            ticket : Ticket \cup {None}, response : Response \cup {None},
            at : Status \cup {None}]
Idle == [pc |-> "idle", ticket |-> None, response |-> None, at |-> None]

Exists(t) == status[t] # "none"
Live(t) == Exists(t) /\ status[t] \notin Done
Queued(t) == {r \in Response : response[r].status = "queued" /\ response[r].ticket = t}
Active(t) == {e \in Escalation : escalation[e].status \in {"open", "accepted"}
                                 /\ escalation[e].ticket = t}

-------------------------------------------------------------------------------
(* Opening a case                                                              *)

\* An administrator opens a case; a moderation decision that is forwarded to
\* support opens one in the same way.
CreateTicket(t) ==
    /\ status[t] = "none"
    /\ status' = [status EXCEPT ![t] = "new"]
    /\ UNCHANGED <<forwarding, response, mail, escalation, sender, work>>

SubmitForm(t) ==
    /\ status[t] = "none"
    /\ status' = [status EXCEPT ![t] = "new"]
    /\ forwarding' = forwarding \cup {t}
    /\ UNCHANGED <<response, mail, escalation, sender, work>>

\* The mail to the support address has left: emailSent is saved with the entity
\* that was created, whose status is still the default one.
ForwardSaved(t) ==
    /\ t \in forwarding
    /\ status' = [status EXCEPT ![t] = "new"]
    /\ forwarding' = forwarding \ {t}
    /\ UNCHANGED <<response, mail, escalation, sender, work>>

\* The mail is refused, or the process ends: the row stays as it is.
ForwardFails(t) ==
    /\ t \in forwarding
    /\ forwarding' = forwarding \ {t}
    /\ UNCHANGED <<status, response, mail, escalation, sender, work>>

-------------------------------------------------------------------------------
(* Replying                                                                    *)

\* respond() looks its key up without a lock; only a key that is unknown, or
\* whose mail was refused, goes on.
Look(s, t, r) ==
    /\ sender[s].pc = "idle"
    /\ Exists(t)
    /\ \/ /\ response[r].status = "none"
          /\ sender' = [sender EXCEPT ![s] =
                [Idle EXCEPT !.pc = "fresh", !.ticket = t, !.response = r]]
       \/ /\ response[r].status = "failed"
          /\ response[r].ticket = t
          /\ sender' = [sender EXCEPT ![s] =
                [Idle EXCEPT !.pc = "retry", !.ticket = t, !.response = r]]
    /\ UNCHANGED <<status, forwarding, response, mail, escalation, work>>

\* Mutants: a retry that does not look for other replies under way; a retry that
\* does not look at its row again under the lock.
ClaimsFreshOnly(s) ==
    LET t == sender[s].ticket
        r == sender[s].response
    IN  /\ Live(t)
        /\ IF sender[s].pc = "fresh"
           THEN Queued(t) = {} /\ response[r].status = "none"
           ELSE response[r].status = "failed"

ClaimsUnchecked(s) ==
    /\ Live(sender[s].ticket)
    /\ Queued(sender[s].ticket) = {}
    /\ sender[s].pc = "fresh" => response[sender[s].response].status = "none"

\* What the claiming transaction requires, under the lock on the case: a live
\* case with no reply under way, and a key that is still as it was looked up.
Claims(s) ==
    LET t == sender[s].ticket
        r == sender[s].response
    IN  /\ Live(t)
        /\ Queued(t) = {}
        /\ response[r].status = IF sender[s].pc = "fresh" THEN "none" ELSE "failed"

Claim(s) ==
    /\ sender[s].pc \in {"fresh", "retry"}
    /\ Claims(s)
    /\ response' = [response EXCEPT ![sender[s].response] =
            [status |-> "queued", ticket |-> sender[s].ticket]]
    /\ sender' = [sender EXCEPT ![s] =
            [@ EXCEPT !.pc = "sending", !.at = status[sender[s].ticket]]]
    /\ UNCHANGED <<status, forwarding, mail, escalation, work>>

ClaimRefused(s) ==
    /\ sender[s].pc \in {"fresh", "retry"}
    /\ ~Claims(s)
    /\ sender' = [sender EXCEPT ![s] = Idle]
    /\ UNCHANGED <<status, forwarding, response, mail, escalation, work>>

\* The mail provider accepts the reply, or refuses it, or delivers it although
\* the mailer reports a failure (the answer was lost).
Deliver(s) ==
    /\ sender[s].pc = "sending"
    /\ mail' = [mail EXCEPT ![sender[s].response].accepted = @ + 1]
    /\ sender' = [sender EXCEPT ![s] = [@ EXCEPT !.pc = "accepted"]]
    /\ UNCHANGED <<status, forwarding, response, escalation, work>>

Refuse(s) ==
    /\ sender[s].pc = "sending"
    /\ sender' = [sender EXCEPT ![s] = [@ EXCEPT !.pc = "rejected"]]
    /\ UNCHANGED <<status, forwarding, response, mail, escalation, work>>

LoseAnswer(s) ==
    /\ sender[s].pc = "sending"
    /\ mail[sender[s].response].lost < MaxLost
    /\ mail' = [mail EXCEPT ![sender[s].response].lost = @ + 1]
    /\ sender' = [sender EXCEPT ![s] = [@ EXCEPT !.pc = "rejected"]]
    /\ UNCHANGED <<status, forwarding, response, escalation, work>>

RecordFailed(s) ==
    /\ sender[s].pc = "rejected"
    /\ response' = [response EXCEPT ![sender[s].response] = [@ EXCEPT !.status = "failed"]]
    /\ sender' = [sender EXCEPT ![s] = Idle]
    /\ UNCHANGED <<status, forwarding, mail, escalation, work>>

\* Mutant: the status is spelled as the interface spells it.
RecordSentMisspelt(s) ==
    /\ sender[s].pc = "accepted"
    /\ response' = [response EXCEPT
            ![sender[s].response] = [@ EXCEPT !.status = "accepted"]]
    /\ sender' = [sender EXCEPT ![s] = [@ EXCEPT !.pc = "booking"]]
    /\ UNCHANGED <<status, forwarding, mail, escalation, work>>

RecordSent(s) ==
    /\ sender[s].pc = "accepted"
    /\ response' = [response EXCEPT
            ![sender[s].response] = [@ EXCEPT !.status = "sent_to_provider"]]
    /\ sender' = [sender EXCEPT ![s] = [@ EXCEPT !.pc = "booking"]]
    /\ UNCHANGED <<status, forwarding, mail, escalation, work>>

\* Mutant: the booking does not look at the case it has locked.
BookedBlindly(s) == "waiting_for_customer"

\* The case as the reply leaves it: waiting for the customer, unless somebody
\* changed its status since the claim.
Booked(s) ==
    LET now == status[sender[s].ticket]
    IN  IF now = sender[s].at /\ now \notin Done THEN "waiting_for_customer" ELSE now

Book(s) ==
    /\ sender[s].pc = "booking"
    /\ status' = [status EXCEPT ![sender[s].ticket] = Booked(s)]
    /\ sender' = [sender EXCEPT ![s] = Idle]
    /\ UNCHANGED <<forwarding, response, mail, escalation, work>>

\* A save fails or the process ends.  What is on disk stays: a reply that was
\* claimed stays queued.
Abandon(s) ==
    /\ sender[s].pc # "idle"
    /\ sender' = [sender EXCEPT ![s] = Idle]
    /\ UNCHANGED <<status, forwarding, response, mail, escalation, work>>

-------------------------------------------------------------------------------
(* The operations that lock the case                                           *)

Assign(t) ==
    /\ Live(t)
    /\ status' = [status EXCEPT ![t] = IF @ = "escalated" THEN @ ELSE "assigned"]
    /\ UNCHANGED <<forwarding, response, mail, escalation, sender, work>>

Release(t) ==
    /\ status[t] = "assigned"
    /\ status' = [status EXCEPT ![t] = "open"]
    /\ UNCHANGED <<forwarding, response, mail, escalation, sender, work>>

UpdateStatus(t, to) ==
    /\ Exists(t)
    /\ to \in Transitions[status[t]]
    /\ (status[t] = "escalated") => (Active(t) = {})
    /\ (to = "closed") => (Queued(t) = {})
    /\ status' = [status EXCEPT ![t] = to]
    /\ UNCHANGED <<forwarding, response, mail, escalation, sender, work>>

Escalate(t, e) ==
    /\ Live(t)
    /\ escalation[e].status = "none"
    /\ escalation' = [escalation EXCEPT ![e] = [status |-> "open", ticket |-> t]]
    /\ status' = [status EXCEPT ![t] = "escalated"]
    /\ UNCHANGED <<forwarding, response, mail, sender, work>>

\* Mutant: active escalations are forgotten.
ResolveWhileEscalated(t) ==
    /\ Live(t)
    /\ Queued(t) = {}
    /\ status' = [status EXCEPT ![t] = "resolved"]
    /\ UNCHANGED <<forwarding, response, mail, escalation, sender, work>>

Resolve(t) ==
    /\ Live(t)
    /\ Queued(t) = {}
    /\ Active(t) = {}
    /\ status' = [status EXCEPT ![t] = "resolved"]
    /\ UNCHANGED <<forwarding, response, mail, escalation, sender, work>>

Reopen(t) ==
    /\ status[t] \in Done
    /\ status' = [status EXCEPT ![t] = "reopened"]
    /\ UNCHANGED <<forwarding, response, mail, escalation, sender, work>>

-------------------------------------------------------------------------------
(* Completing an escalation: the transaction holds the lock on the escalation, *)
(* so that nobody else changes it, and its own save shows only at the commit.  *)

AcceptEscalation(e) ==
    /\ work[e] = "none"
    /\ escalation[e].status \in {"open", "accepted"}
    /\ escalation' = [escalation EXCEPT ![e] = [@ EXCEPT !.status = "accepted"]]
    /\ UNCHANGED <<status, forwarding, response, mail, sender, work>>

\* The escalation is saved and the other active ones of the case are counted.
BeginComplete(e) ==
    /\ work[e] = "none"
    /\ escalation[e].status \in {"open", "accepted"}
    /\ work' = [work EXCEPT ![e] =
            IF Active(escalation[e].ticket) = {e} THEN "last" ELSE "keep"]
    /\ UNCHANGED <<status, forwarding, response, mail, escalation, sender>>

\* It was the last one: the case is read, without a lock.
ReadCase(e) ==
    /\ work[e] = "last"
    /\ work' = [work EXCEPT ![e] =
            IF status[escalation[e].ticket] = "escalated" THEN "return" ELSE "keep"]
    /\ UNCHANGED <<status, forwarding, response, mail, escalation, sender>>

\* The transaction commits, with the case as it was read but for its status,
\* which depends on whether somebody is assigned.
CommitComplete(e) ==
    /\ work[e] \in {"keep", "return"}
    /\ \E done \in {"resolved", "returned"} :
          escalation' = [escalation EXCEPT ![e] = [@ EXCEPT !.status = done]]
    /\ \/ work[e] = "keep" /\ UNCHANGED status
       \/ /\ work[e] = "return"
          /\ \E back \in {"assigned", "open"} :
                status' = [status EXCEPT ![escalation[e].ticket] = back]
    /\ work' = [work EXCEPT ![e] = "none"]
    /\ UNCHANGED <<forwarding, response, mail, sender>>

\* A statement fails or the process ends: the transaction is rolled back.
Rollback(e) ==
    /\ work[e] # "none"
    /\ work' = [work EXCEPT ![e] = "none"]
    /\ UNCHANGED <<status, forwarding, response, mail, escalation, sender>>

-------------------------------------------------------------------------------

Init ==
    /\ status = [t \in Ticket |-> "none"]
    /\ forwarding = {}
    /\ response = [r \in Response |-> [status |-> "none", ticket |-> None]]
    /\ mail = [r \in Response |-> [accepted |-> 0, lost |-> 0]]
    /\ escalation = [e \in Escalation |-> [status |-> "none", ticket |-> None]]
    /\ sender = [s \in Sender |-> Idle]
    /\ work = [e \in Escalation |-> "none"]

TicketStep(t) ==
    \/ CreateTicket(t) \/ SubmitForm(t) \/ ForwardSaved(t) \/ ForwardFails(t)
    \/ Assign(t) \/ Release(t) \/ Resolve(t) \/ Reopen(t)
    \/ \E to \in Status : UpdateStatus(t, to)
    \/ \E e \in Escalation : Escalate(t, e)

SenderStep(s) ==
    \/ \E t \in Ticket, r \in Response : Look(s, t, r)
    \/ Claim(s) \/ ClaimRefused(s)
    \/ Deliver(s) \/ Refuse(s) \/ LoseAnswer(s)
    \/ RecordFailed(s) \/ RecordSent(s) \/ Book(s) \/ Abandon(s)

EscalationStep(e) ==
    \/ AcceptEscalation(e) \/ BeginComplete(e) \/ ReadCase(e)
    \/ CommitComplete(e) \/ Rollback(e)

Next ==
    \/ \E t \in Ticket : TicketStep(t)
    \/ \E s \in Sender : SenderStep(s)
    \/ \E e \in Escalation : EscalationStep(e)

Spec == Init /\ [][Next]_vars

-------------------------------------------------------------------------------
(* What getResponseAttemptStatus tells the agent about a reply.                *)

Outcome(r) ==
    CASE response[r].status = "sent_to_provider" -> "already_accepted"
      [] response[r].status = "failed" -> "rejected"
      [] response[r].status = "queued" -> "in_progress_or_uncertain"
      [] OTHER -> "not_found"

-------------------------------------------------------------------------------
(* Properties                                                                  *)

\* Every row and every request holds values of its columns' types.
TypeOK ==
    /\ status \in [Ticket -> Status \cup {"none"}]
    /\ forwarding \subseteq Ticket
    /\ response \in [Response -> ResponseRow]
    /\ mail \in [Response -> [accepted : Nat, lost : Nat]]
    /\ escalation \in [Escalation -> EscalationRow]
    /\ sender \in [Sender -> Attempt]
    /\ work \in [Escalation -> {"none", "last", "keep", "return"}]

\* At most one reply of a case is under way, whichever keys, retries and
\* requests compete for it.  The lock on the case ensures it by itself: the
\* partial unique index on queued replies, which the code counts on as well, is
\* not in the model.
OneInFlight == \A t \in Ticket : Cardinality(Queued(t)) <= 1

\* A resolved or closed case has no reply under way and no active escalation,
\* although replies are mailed and escalations completed outside its lock.
ResolvedIsQuiet ==
    \A t \in Ticket : status[t] \in Done => Queued(t) = {} /\ Active(t) = {}

\* One reply of a case at a time, and none once the case is done.
RepliesFollowTheCase == OneInFlight /\ ResolvedIsQuiet

\* What an agent is told of a reply is what happened to it: "accepted" means
\* that the provider accepted it exactly once, and "rejected, retry allowed"
\* that it never did and that nobody is sending it.
OutcomeIsTrue ==
    \A r \in Response :
        /\ Outcome(r) = "already_accepted" => mail[r].accepted = 1
        /\ Outcome(r) = "rejected" =>
              /\ mail[r].accepted = 0
              /\ ~\E s \in Sender : /\ sender[s].response = r
                                    /\ sender[s].pc \in {"sending", "accepted", "rejected"}

\* No mail leaves for a case that is resolved or closed, even when it is
\* resolved by somebody else while the reply is on its way to the provider.
NoMailFromResolved ==
    [][\A s \in Sender :
          (mail' # mail /\ sender[s].pc = "sending" /\ sender'[s].pc # "sending")
              => status[sender[s].ticket] \notin Done]_vars

\* Once resolved, a case only becomes closed or is reopened: neither the late
\* booking of a reply nor the completion of an escalation, which saves a case it
\* read without a lock, brings it back.  The contact form does while its mail is
\* in flight, so those cases are set aside.
DoneIsLeftByReopen ==
    [][\A t \in Ticket \ forwarding :
          status[t] \in Done => status'[t] \in Done \cup {"reopened"}]_vars

===============================================================================
