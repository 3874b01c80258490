---------------------------- MODULE RepitModeration ---------------------------
(* Reports about Repits and what reviewers decide:                             *)
(* admin-repit-moderation.service.ts, with the operations of repits.service.ts *)
(* that write the same row on behalf of its owner.                             *)
(*                                                                             *)
(* Assigning and deciding lock the Repit and then the report, and are one step *)
(* each.  What reads before it locks, or never locks, is cut into steps:       *)
(*   - opening a report looks for an active one first, and relies on a unique  *)
(*     index when another is inserted meanwhile;                               *)
(*   - a decision looks its idempotency key up first, and relies on a unique   *)
(*     index when the key is used meanwhile;                                   *)
(*   - an owner's edit reads the whole Repit, checks templates and pictures,   *)
(*     and saves the whole Repit.                                              *)
(* A report states a reason of its own, so that opening it always updates the  *)
(* Repit, and holds its lock until the report is inserted.  Forwarding to      *)
(* support is an escalation that opens a case of SupportCases as well.  Left   *)
(* out: notes, priorities, policies, evidence, and the moderation statuses of  *)
(* rows older than this service.                                               *)

CONSTANTS
    Repit,     \* Repits
    Touched,   \* bound on the Repits that their owners edit or delete
    Report,    \* reports
    Reviewer,  \* administrators that may review
    Opener,    \* openReport() requests
    Request,   \* decide() requests
    Key,       \* idempotency keys
    Null       \* no Repit, no reviewer, no key, no answer

VARIABLES
    mod,        \* repits.moderationStatus, "gone" when the row is deleted
    report,     \* repit_moderation_reports
    decisions,  \* repit_moderation_decisions
    opener,     \* the Repit an openReport() request found no report of
    request,    \* decide() requests
    editing,    \* what the owner's updateRepit() has read of mod
    overwritten \* Repits whose mod an owner's edit has set back

moderationVars == <<mod, report, decisions, opener, request, editing, overwritten>>

-------------------------------------------------------------------------------
(* State                                                                       *)

Moderation == {"active", "reported", "under_review", "archived", "deleted"}
Hidden == {"archived", "deleted"}
ActiveStatus == {"open", "under_review", "escalated"}
Final == {"dismiss", "archive", "remove"}
Action == Final \cup {"escalate"}

ReportRow == [repit : Repit \cup {Null}, status : ActiveStatus \cup {"none", "resolved"},
              assignee : Reviewer \cup {Null}]
Asked == [pc : {"idle", "looked", "done", "refused"}, repit : Repit \cup {Null},
          key : Key \cup {Null}]
NotAsked == [pc |-> "idle", repit |-> Null, key |-> Null]

ActiveReport(p) == report[p].status \in ActiveStatus
ActiveOf(r) == {p \in Report : ActiveReport(p) /\ report[p].repit = r}
Uses(k) == {d \in decisions : d.key = k /\ k # Null}

-------------------------------------------------------------------------------
(* Opening a report                                                            *)

\* A Repit that has an active report already is not reported again.
OpenLook(o, r) ==
    /\ opener[o] = Null
    /\ ActiveOf(r) = {}
    /\ opener' = [opener EXCEPT ![o] = r]
    /\ UNCHANGED <<mod, report, decisions, request, editing, overwritten>>

\* Mutant: without the partial unique index on active reports.
OpenAnother(o, p) ==
    LET r == opener[o] IN
    /\ r # Null
    /\ mod[r] # "gone"
    /\ report[p].status = "none"
    /\ mod' = [mod EXCEPT ![r] = "reported"]
    /\ report' = [report EXCEPT ![p] = [repit |-> r, status |-> "open", assignee |-> Null]]
    /\ opener' = [opener EXCEPT ![o] = Null]
    /\ UNCHANGED <<decisions, request, editing, overwritten>>

\* The report is inserted and the Repit reported, whatever it was before.
Open(o, p) ==
    LET r == opener[o] IN
    /\ r # Null
    /\ mod[r] # "gone"
    /\ ActiveOf(r) = {}
    /\ report[p].status = "none"
    /\ mod' = [mod EXCEPT ![r] = "reported"]
    /\ report' = [report EXCEPT ![p] = [repit |-> r, status |-> "open", assignee |-> Null]]
    /\ opener' = [opener EXCEPT ![o] = Null]
    /\ UNCHANGED <<decisions, request, editing, overwritten>>

\* The Repit is gone, or the unique index refuses a second active report: the
\* transaction is rolled back.
OpenFails(o) ==
    /\ opener[o] # Null
    /\ opener' = [opener EXCEPT ![o] = Null]
    /\ UNCHANGED <<mod, report, decisions, request, editing, overwritten>>

-------------------------------------------------------------------------------
(* Assigning a report                                                          *)

Taken(p) == IF report[p].status = "escalated" THEN "escalated" ELSE "under_review"

Take(p, a) ==
    LET r == report[p].repit IN
    /\ ActiveReport(p)
    /\ report' = [report EXCEPT ![p] = [@ EXCEPT !.assignee = a, !.status = Taken(p)]]
    /\ mod' = IF mod[r] = "reported" THEN [mod EXCEPT ![r] = "under_review"] ELSE mod
    /\ UNCHANGED <<decisions, opener, request, editing, overwritten>>

\* A reviewer claims for himself what nobody else has; whoever assigns, may
\* assign anything to anybody.
ClaimReport(p, a) ==
    /\ report[p].assignee \in {Null, a}
    /\ Take(p, a)

AssignReport(p, a) == Take(p, a)

Freed(p) == IF report[p].status = "under_review" THEN "open" ELSE report[p].status

\* Mutant: the reviewer is left in the row.
ReleaseInName(p) ==
    LET r == report[p].repit IN
    /\ ActiveReport(p)
    /\ report' = [report EXCEPT ![p] = [@ EXCEPT !.status = Freed(p)]]
    /\ mod' = IF report[p].status = "under_review" /\ mod[r] = "under_review"
              THEN [mod EXCEPT ![r] = "reported"] ELSE mod
    /\ UNCHANGED <<decisions, opener, request, editing, overwritten>>

ReleaseReport(p) ==
    LET r == report[p].repit IN
    /\ ActiveReport(p)
    /\ report' = [report EXCEPT ![p] = [@ EXCEPT !.assignee = Null, !.status = Freed(p)]]
    /\ mod' = IF report[p].status = "under_review" /\ mod[r] = "under_review"
              THEN [mod EXCEPT ![r] = "reported"] ELSE mod
    /\ UNCHANGED <<decisions, opener, request, editing, overwritten>>

-------------------------------------------------------------------------------
(* Deciding                                                                    *)

Answer(q, pc) == request' = [request EXCEPT ![q] = [@ EXCEPT !.pc = pc]]

\* A key that is known already is answered from the decision that used it.
LookKeyUp(q, r, k) ==
    /\ request[q].pc = "idle"
    /\ request' = [request EXCEPT ![q] =
            [pc |-> IF Uses(k) = {} THEN "looked"
                    ELSE IF \E d \in Uses(k) : d.repit = r THEN "done" ELSE "refused",
             repit |-> r, key |-> k]]
    /\ UNCHANGED <<mod, report, decisions, opener, editing, overwritten>>

\* Mutant: the report was looked at before its row was locked.
Undecided(p) == report[p].status # "none"

\* What the transaction requires of the report, under its lock.
Decidable(p) == ActiveReport(p)

ModAfter(act) ==
    CASE act = "dismiss" -> "active"
      [] act = "archive" -> "archived"
      [] act = "remove"  -> "deleted"
      [] OTHER           -> "under_review"

Decide(q, p, act) ==
    LET r == request[q].repit IN
    /\ request[q].pc = "looked"
    /\ mod[r] # "gone"
    /\ report[p].repit = r
    /\ Decidable(p)
    /\ Uses(request[q].key) = {}
    /\ mod' = [mod EXCEPT ![r] = ModAfter(act)]
    /\ report' = [report EXCEPT ![p] = [@ EXCEPT
            !.status = IF act \in Final THEN "resolved" ELSE "escalated"]]
    /\ decisions' = decisions \cup
            {[by |-> q, repit |-> r, report |-> p, action |-> act, key |-> request[q].key]}
    /\ Answer(q, "done")
    /\ UNCHANGED <<opener, editing, overwritten>>

\* Mutant: whoever used the key, the decision was made.
RecoverAny(q) ==
    /\ request[q].pc = "looked"
    /\ Uses(request[q].key) # {}
    /\ Answer(q, "done")
    /\ UNCHANGED <<mod, report, decisions, opener, editing, overwritten>>

\* The unique index refuses a key that was used meanwhile: the transaction is
\* rolled back, and the decision that used the key is looked up.
Recover(q) ==
    /\ request[q].pc = "looked"
    /\ Uses(request[q].key) # {}
    /\ Answer(q, IF \E d \in Uses(request[q].key) : d.repit = request[q].repit
                 THEN "done" ELSE "refused")
    /\ UNCHANGED <<mod, report, decisions, opener, editing, overwritten>>

\* The Repit is gone, the report is another Repit's or resolved, or the request
\* dies.
DecideFails(q) ==
    /\ request[q].pc = "looked"
    /\ Answer(q, "refused")
    /\ UNCHANGED <<mod, report, decisions, opener, editing, overwritten>>

-------------------------------------------------------------------------------
(* The owner                                                                   *)

EditRead(r) ==
    /\ editing[r] = Null
    /\ mod[r] \notin Hidden \cup {"gone"}
    /\ editing' = [editing EXCEPT ![r] = mod[r]]
    /\ UNCHANGED <<mod, report, decisions, opener, request, overwritten>>

\* save() writes the row that was read, and inserts it if it is gone.
EditSave(r) ==
    /\ editing[r] # Null
    /\ mod' = [mod EXCEPT ![r] = editing[r]]
    /\ overwritten' = IF mod[r] = editing[r] THEN overwritten ELSE overwritten \cup {r}
    /\ editing' = [editing EXCEPT ![r] = Null]
    /\ UNCHANGED <<report, decisions, opener, request>>

EditRefused(r) ==
    /\ editing[r] # Null
    /\ editing' = [editing EXCEPT ![r] = Null]
    /\ UNCHANGED <<mod, report, decisions, opener, request, overwritten>>

\* The owner deletes the Repit, hidden or not; its reports stay.
OwnerDeletes(r) ==
    /\ mod[r] # "gone"
    /\ mod' = [mod EXCEPT ![r] = "gone"]
    /\ UNCHANGED <<report, decisions, opener, request, editing, overwritten>>

-------------------------------------------------------------------------------
ModerationInit ==
    /\ mod = [r \in Repit |-> "active"]
    /\ report = [p \in Report |-> [repit |-> Null, status |-> "none", assignee |-> Null]]
    /\ decisions = {}
    /\ opener = [o \in Opener |-> Null]
    /\ request = [q \in Request |-> NotAsked]
    /\ editing = [r \in Repit |-> Null]
    /\ overwritten = {}

OpenerStep(o) ==
    \/ \E r \in Repit : OpenLook(o, r)
    \/ \E p \in Report : Open(o, p)
    \/ OpenFails(o)

ReportStep(p) ==
    \/ \E a \in Reviewer : ClaimReport(p, a) \/ AssignReport(p, a)
    \/ ReleaseReport(p)

RequestStep(q) ==
    \/ \E r \in Repit, k \in Key \cup {Null} : LookKeyUp(q, r, k)
    \/ \E p \in Report, act \in Action : Decide(q, p, act)
    \/ Recover(q) \/ DecideFails(q)

OwnerStep(r) == EditRead(r) \/ EditSave(r) \/ EditRefused(r) \/ OwnerDeletes(r)

ModerationNext ==
    \/ \E o \in Opener : OpenerStep(o)
    \/ \E p \in Report : ReportStep(p)
    \/ \E q \in Request : RequestStep(q)
    \/ \E r \in Repit \cap Touched : OwnerStep(r)

ModerationSpec == ModerationInit /\ [][ModerationNext]_moderationVars

-------------------------------------------------------------------------------
(* Properties                                                                  *)

\* Every row and every request holds values of its columns' types.
ModerationTypeOK ==
    /\ mod \in [Repit -> Moderation \cup {"gone"}]
    /\ report \in [Report -> ReportRow]
    /\ decisions \subseteq [by : Request, repit : Repit, report : Report,
                            action : Action, key : Key \cup {Null}]
    /\ opener \in [Opener -> Repit \cup {Null}]
    /\ request \in [Request -> Asked]
    /\ editing \in [Repit -> (Moderation \ Hidden) \cup {Null}]
    /\ overwritten \subseteq Repit

\* A Repit is reported while its report waits, under review while it is worked
\* on, and neither once no report is active.  Repits whose owner saved an edit
\* across a moderator's step are set aside.
RepitFollowsReport ==
    \A r \in Repit \ overwritten : mod[r] # "gone" =>
        /\ \A p \in ActiveOf(r) :
              mod[r] = IF report[p].status = "open" THEN "reported" ELSE "under_review"
        /\ ActiveOf(r) = {} => mod[r] \in Hidden \cup {"active"}

\* A report under review has a reviewer, and a report that waits has none.
WorkHasAReviewer ==
    \A p \in Report :
        /\ report[p].status = "open" => report[p].assignee = Null
        /\ report[p].status = "under_review" => report[p].assignee # Null

\* The Repit, the report and its reviewer say the same, although they are two
\* rows that six operations write: no Repit stays flagged without a report that
\* somebody can work on, nothing waits in the queue in somebody's name, nothing
\* is worked on by nobody.
QueueIsTrue == RepitFollowsReport /\ WorkHasAReviewer

\* A report is resolved by one final decision and never decided again, however
\* many reviewers and retries compete: two reviewers do not dismiss and remove
\* the same Repit over the same report.
ResolvedByOneDecision ==
    \A p \in Report :
        LET finals == {d \in decisions : d.report = p /\ d.action \in Final}
        IN  /\ \A d, e \in finals : d = e
            /\ report[p].status = "resolved" <=> finals # {}

\* Whoever is told that his decision is made has a decision on file, about the
\* Repit he named and, if he gave a key, under that key: a key that another
\* Repit used at the same moment is never answered with success.
ToldIsOnFile ==
    \A q \in Request : request[q].pc = "done" =>
        \E d \in decisions : /\ d.repit = request[q].repit
                             /\ d.key = request[q].key
                             /\ d.key = Null => d.by = q

\* A decision is made once, and whoever is told so finds it on file.
DecisionsStand == ResolvedByOneDecision /\ ToldIsOnFile

\* A Repit that was archived or removed stays hidden until somebody reports it
\* again or its owner deletes it: no late claim, release or decision over an old
\* report brings it back.  An owner's edit that was under way does, so those
\* Repits are set aside.
HiddenUntilReportedAgain ==
    [][\A r \in Repit :
          mod[r] \in Hidden /\ r \notin overwritten' =>
              \/ mod'[r] \in {mod[r], "gone"}
              \/ /\ mod'[r] = "reported"
                 /\ \E p \in Report : report[p].status = "none"
                                      /\ report'[p].status = "open"
                                      /\ report'[p].repit = r]_moderationVars

===============================================================================
