-------------------------- MODULE PrivacyWorkflow --------------------------
(***************************************************************************)
(* The table privacy_requests and the transactions of                      *)
(* privacy-workflow.service.ts that write it.  Each of them locks the row, *)
(* so each is one step; PrivacyFulfilment says who takes them and when.    *)
(*                                                                         *)
(* Timeline events and audit records are written in the same transactions  *)
(* and nothing reads them back: they are left out, as are the assignee,    *)
(* the SLA clock and the retry counter.                                    *)
(***************************************************************************)
CONSTANTS Request,     \* privacy requests, of all users
          User,
          OwnerOf,     \* [Request -> User]
          TypeOf       \* [Request -> RequestType]

RequestType == {"account_deletion", "data_export", "data_access",
                "data_correction", "other"}

ASSUME WorkflowAssumption ==
    /\ OwnerOf \in [Request -> User]
    /\ TypeOf \in [Request -> RequestType]

VARIABLE request

RequestStatus ==
    {"pending", "assigned", "in_review", "approved", "processing",
     "fulfilled", "completed", "rejected", "failed", "retry_required",
     "cancelled", "expired"}

\* fulfilledAt is set; verificationStatus.  "none": not submitted yet.
RequestRow ==
    [status : RequestStatus \cup {"none"}, fulfilled : BOOLEAN,
     verification : {"unverified", "verified", "failed"}]

NotSubmitted ==
    [status |-> "none", fulfilled |-> FALSE, verification |-> "unverified"]

TRANSITIONS ==
    [pending        |-> {"assigned", "cancelled", "rejected", "expired"},
     assigned       |-> {"in_review", "pending", "cancelled", "rejected"},
     in_review      |-> {"approved", "rejected", "cancelled"},
     approved       |-> {"processing", "cancelled"},
     processing     |-> {"fulfilled", "failed", "cancelled"},
     fulfilled      |-> {"completed", "failed"},
     completed      |-> {},
     rejected       |-> {},
     failed         |-> {"retry_required", "cancelled"},
     retry_required |-> {"processing", "cancelled"},
     cancelled      |-> {},
     expired        |-> {}]

CanTransition(from, to) == from # "none" /\ to \in TRANSITIONS[from]

\* The statuses of findActiveRequest and of the partial unique index.
ACTIVE_STATUSES ==
    {"pending", "assigned", "in_review", "approved", "processing",
     "fulfilled", "retry_required"}

Rivals(q) ==
    {p \in Request \ {q} : OwnerOf[p] = OwnerOf[q] /\ TypeOf[p] = TypeOf[q]}

\* Saving the row: a violation of the unique index rolls everything back.
Save(q, x) ==
    /\ x.status \in ACTIVE_STATUSES =>
         \A p \in Rivals(q) : request[p].status \notin ACTIVE_STATUSES
    /\ request' = [request EXCEPT ![q] = x]

CreateRequest(q) ==
    /\ request[q].status = "none"
    /\ Save(q, [NotSubmitted EXCEPT !.status = "pending"])

\* transitionWith.  A transition to the status the row already has returns
\* early, without running the participant: nothing changes.
Transition(q, to) ==
    /\ CanTransition(request[q].status, to)
    /\ to = "completed" => /\ request[q].fulfilled
                           /\ request[q].verification = "verified"
    /\ Save(q, [request[q] EXCEPT !.status = to])

\* assign.  From the other assignable statuses only the assignee changes.
Assign(q) ==
    /\ request[q].status = "pending"
    /\ Save(q, [request[q] EXCEPT !.status = "assigned"])

\* Mutant of RecordFulfilment: evidence that failed verification is accepted.
RecordFulfilmentUnjudged(q, verification) ==
    /\ request[q].status = "processing"
    /\ Save(q, [status |-> "fulfilled", fulfilled |-> TRUE,
                verification |-> verification])

RecordFulfilment(q, verification) ==
    /\ request[q].status = "processing"
    /\ Save(q, [status |-> IF verification = "failed" THEN "failed"
                           ELSE "fulfilled",
                fulfilled |-> TRUE, verification |-> verification])

\* markFailed: from whatever status the request has.
MarkFailed(q) == Save(q, [request[q] EXCEPT !.status = "failed"])

-----------------------------------------------------------------------------
(* Property.                                                               *)

\* "A request only reaches completed after a fulfilment record exists and its
\* verification passes": already a fulfilled one has both.
FulfilledIsVerified ==
    \A q \in Request : request[q].status \in {"fulfilled", "completed"} =>
        request[q].fulfilled /\ request[q].verification = "verified"

=============================================================================
