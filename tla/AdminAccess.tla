----------------------------- MODULE AdminAccess -----------------------------
(* Administrators of the back office (admin/iam, admin/auth): accounts and     *)
(* their invitations, sign-in with a second factor, sessions, emergency        *)
(* grants.  A call is a request between two awaits; it keeps the rows it will  *)
(* save as it computed them when it read.                                      *)
(* Of an account's roles only super-admin counts: no other role holds a        *)
(* permission of this part (ADMIN_ROLE_DEFINITIONS).                           *)
EXTENDS Naturals, FiniteSets, Functions

CONSTANTS
    Admin,        \* addresses of administrators, with or without an account
    AdminCall,    \* requests in progress
    Challenge,    \* MFA tickets; the session opened with one goes by its name
    BootAdmin,    \* ADMIN_BOOTSTRAP_EMAIL
    MaxAttempts,  \* ADMIN_LOGIN_MAX_ATTEMPTS
    MaxLink,      \* bound: invitation links of one account
    MaxAsked,     \* bound: requests of a behaviour
    Blank

ASSUME AdminAssumption ==
    /\ IsFiniteSet(Admin)
    /\ BootAdmin \in Admin
    /\ {MaxAttempts, MaxLink, MaxAsked} \subseteq Nat \ {0}
    /\ Blank \notin Admin \cup Challenge

VARIABLES
    adminRow,      \* admin_users
    invitation,    \* admin_invitations, the latest of each account
    challenge,     \* tickets issued, and whether Redis holds them as consumed
    adminSession,  \* admin_sessions; "out" also when the token is blacklisted
    opened,        \* history: sessions opened with a ticket
    grants,        \* active emergency grants of an account
    adminCall,
    asked,
    unguarded      \* history: a super administrator went without a count that held

adminVars == <<adminRow, invitation, challenge, adminSession, opened, grants,
               adminCall, asked, unguarded>>

PutOut == {"suspended", "inactive"}

\* mfa: "on" enrolled, "reset" a secret to be enrolled, "off" no secret.
\* barred: lockedUntil lies ahead.
Row == [status: {"active", "locked", "pending_invitation"} \cup PutOut,
        super: BOOLEAN, mfa: {"on", "reset", "off"},
        fails: 0..MaxAttempts, barred: BOOLEAN]

Letter == [status: {"pending", "enrolling_mfa", "accepted", "revoked", "expired"},
           link: 1..MaxLink, overdue: BOOLEAN]

Ticket == [of: Admin, spent: BOOLEAN]

ASSUME BlankAssumption == Blank \notin Row \cup Ticket

Guarded == {"suspend", "deactivate", "demote"}
Op == Guarded \cup
      {"reactivate", "promote", "resetMfa", "disableMfa", "keep", "reviewOut",
       "withdraw", "resend", "invite", "activate", "boot",
       "login", "verify", "setPassword", "enrol", "any"}

AdminTypeOK ==
    /\ adminRow \in [Admin -> Row \cup {Blank}]
    /\ invitation \in [Admin -> Letter \cup {Blank}]
    /\ challenge \in [Challenge -> Ticket \cup {Blank}]
    /\ adminSession \in [Challenge -> {"none", "live", "revoked", "out"}]
    /\ opened \in [Challenge -> 0..2]
    /\ grants \in [Admin -> Nat]
    /\ adminCall \in [AdminCall ->
           [pc: {"guard", "inside", "count", "counted", "save", "revoke",
                 "password", "code", "consumed", "open", "grant"},
            op: Op, actor: Admin \cup {Blank}, on: Admin \cup {Blank},
            key: Challenge \cup {Blank}, saw: Row \cup {Blank},
            row: Row \cup {Blank}, letter: Letter \cup {Blank}] \cup {Blank}]
    /\ asked \in 0..MaxAsked
    /\ unguarded \in BOOLEAN

Here(a) == adminRow[a] /= Blank
Fresh == [pc |-> "inside", op |-> "any", actor |-> Blank, on |-> Blank,
          key |-> Blank, saw |-> Blank, row |-> Blank, letter |-> Blank]

Starts(c, call) ==
    /\ adminCall[c] = Blank
    /\ asked < MaxAsked
    /\ adminCall' = [adminCall EXCEPT ![c] = call]
    /\ asked' = asked + 1
AdminAt(c, pc) ==
    /\ adminCall[c] /= Blank
    /\ adminCall[c].pc = pc
GoesOn(c, call) ==
    /\ adminCall' = [adminCall EXCEPT ![c] = call]
    /\ UNCHANGED asked
Ends(c) == GoesOn(c, Blank)

\* Whoever opens the back office: super administrators with a session, an
\* ordinary administrator, an account that was invited.
Signed == [status |-> "active", super |-> TRUE, mfa |-> "on", fails |-> 0, barred |-> FALSE]
Invited(super) == [Signed EXCEPT !.status = "pending_invitation", !.super = super, !.mfa = "off"]
Sent == [status |-> "pending", link |-> 1, overdue |-> FALSE]

AdminInit ==
    /\ adminRow \in [Admin -> {Signed, [Signed EXCEPT !.super = FALSE], Invited(FALSE), Blank}]
    /\ adminRow[BootAdmin] = Signed
    /\ invitation = [a \in Admin |-> IF adminRow[a] = Invited(FALSE) THEN Sent ELSE Blank]
    /\ LET pass == CHOOSE p \in [Admin -> Challenge] : IsInjective(p)
           Holder(k) == {a \in Admin : adminRow[a] = Signed /\ pass[a] = k}
       IN
       /\ challenge = [k \in Challenge |->
              IF Holder(k) = {} THEN Blank
              ELSE [of |-> CHOOSE a \in Holder(k) : TRUE, spent |-> TRUE]]
       /\ adminSession = [k \in Challenge |-> IF Holder(k) = {} THEN "none" ELSE "live"]
       /\ opened = [k \in Challenge |-> IF Holder(k) = {} THEN 0 ELSE 1]
    /\ grants = [a \in Admin |-> 0]
    /\ adminCall = [c \in AdminCall |-> Blank]
    /\ asked = 0
    /\ unguarded = FALSE

-------------------------------------------------------------------------------
(* Requests with a session.                                                    *)

\* The guard reads the session; a logged-out token is on the blacklist.
Arrive(c, k) ==
    /\ adminSession[k] = "live"
    /\ Starts(c, [Fresh EXCEPT !.pc = "guard", !.key = k, !.actor = challenge[k].of])
    /\ UNCHANGED <<adminRow, invitation, challenge, adminSession, opened, grants, unguarded>>

\* Once a minute the guard saves the session it has read, revocation and all;
\* then it looks at the account.  What follows needs the permissions of a super
\* administrator: by role, or by an emergency grant.
Powerful(a) ==
    /\ Here(a)
    /\ adminRow[a].status = "active"
    /\ adminRow[a].super \/ grants[a] > 0

Touch(c) ==
    /\ AdminAt(c, "guard")
    /\ LET k == adminCall[c].key IN
       /\ adminSession' \in {adminSession,
              [adminSession EXCEPT ![k] = IF @ = "out" THEN @ ELSE "live"]}
       /\ IF Powerful(adminCall[c].actor)
          THEN GoesOn(c, [adminCall[c] EXCEPT !.pc = "inside"])
          ELSE Ends(c)
    /\ UNCHANGED <<adminRow, invitation, challenge, opened, grants, unguarded>>

\* What each operation makes of the account it read.
Changed(op, row) ==
    CASE op = "suspend" -> [row EXCEPT !.status = "suspended"]
      [] op = "reviewOut" -> [row EXCEPT !.status = "suspended"]
      [] op = "deactivate" -> [row EXCEPT !.status = "inactive"]
      [] op = "reactivate" -> [row EXCEPT !.status = "active"]
      [] op = "promote" -> [row EXCEPT !.super = TRUE]
      [] op = "demote" -> [row EXCEPT !.super = FALSE]
      [] op = "resetMfa" -> [row EXCEPT !.mfa = "reset"]
      [] op = "disableMfa" -> [row EXCEPT !.mfa = "off"]
      [] op = "keep" -> row   \* a review that confirms or postpones

\* setStatus, updateRoles, resetMfa, completeAccessReview read the account.
\* Nobody puts himself out or takes his own roles away; only operations that
\* put a super administrator out go on to count.
Consider(c, a, op) ==
    /\ AdminAt(c, "inside")
    /\ Here(a)
    /\ op \in Guarded => a /= adminCall[c].actor
    /\ GoesOn(c, [adminCall[c] EXCEPT
           !.op = op, !.on = a, !.saw = adminRow[a], !.row = Changed(op, adminRow[a]),
           !.pc = IF op \in Guarded /\ adminRow[a].super THEN "count"
                  ELSE IF op = "reviewOut" THEN "revoke" ELSE "save"])
    /\ UNCHANGED <<adminRow, invitation, challenge, adminSession, opened, grants, unguarded>>

\* Mutant of CountActiveSuperAdmins: suspended ones are counted.
CountAnySuperAdmins == Cardinality({a \in Admin : Here(a) /\ adminRow[a].super})
CountActiveSuperAdmins ==
    Cardinality({a \in Admin : Here(a) /\ adminRow[a].super /\ adminRow[a].status = "active"})

Count(c) ==
    /\ AdminAt(c, "count")
    /\ IF CountActiveSuperAdmins <= 1
       THEN Ends(c)
       ELSE GoesOn(c, [adminCall[c] EXCEPT !.pc = "counted"])
    /\ UNCHANGED <<adminRow, invitation, challenge, adminSession, opened, grants, unguarded>>

\* A super administrator who can work, now or when a lock-out has passed.
Able(row) ==
    /\ row /= Blank
    /\ row.super
    /\ row.status \in {"active", "locked"}

\* Every field of the row is as the call has it, whatever was saved meanwhile.
\* Operations that put somebody out revoke his sessions next.
SaveRow(c) ==
    /\ AdminAt(c, "save") \/ AdminAt(c, "counted")
    /\ LET call == adminCall[c]
           a == call.on
           next == IF call.letter /= Blank THEN "save"
                   ELSE IF call.op \in {"suspend", "deactivate", "resetMfa", "disableMfa"}
                   THEN "revoke"
                   ELSE IF call.op = "verify" THEN "open" ELSE "done"
       IN
       /\ call.row /= Blank
       /\ call.op = "resend" => call.letter = Blank
       /\ adminRow' = [adminRow EXCEPT ![a] = call.row]
       /\ unguarded' = (\/ unguarded
                        \/ /\ Able(adminRow[a])
                           /\ ~Able(call.row)
                           /\ \/ call.pc /= "counted"
                              \/ \E d \in AdminCall \ {c} : AdminAt(d, "counted"))
       /\ IF next = "done" THEN Ends(c)
          ELSE GoesOn(c, [call EXCEPT !.row = Blank, !.pc = next])
    /\ UNCHANGED <<invitation, challenge, adminSession, opened, grants>>

\* revokeAll, before the row is saved when a review revokes access.
RevokeAll(c) ==
    /\ AdminAt(c, "revoke")
    /\ adminSession' = [k \in Challenge |->
           IF adminSession[k] = "live" /\ challenge[k].of = adminCall[c].on
           THEN "revoked" ELSE adminSession[k]]
    /\ IF adminCall[c].op = "reviewOut"
       THEN GoesOn(c, [adminCall[c] EXCEPT !.pc = "save"])
       ELSE Ends(c)
    /\ UNCHANGED <<adminRow, invitation, challenge, opened, grants, unguarded>>

\* revokeSession and revokeOtherSessions; logging out also blacklists the token.
RevokeSome(c, keys) ==
    /\ AdminAt(c, "inside")
    /\ adminSession' = [k \in Challenge |->
           IF k \in keys /\ adminSession[k] = "live"
           THEN IF k = adminCall[c].key THEN "out" ELSE "revoked"
           ELSE adminSession[k]]
    /\ Ends(c)
    /\ UNCHANGED <<adminRow, invitation, challenge, opened, grants, unguarded>>

\* activateBreakGlass looks for a grant of one's own and then saves a new one.
Activate(c) ==
    /\ AdminAt(c, "inside")
    /\ grants[adminCall[c].actor] = 0
    /\ GoesOn(c, [adminCall[c] EXCEPT !.op = "activate", !.pc = "grant"])
    /\ UNCHANGED <<adminRow, invitation, challenge, adminSession, opened, grants, unguarded>>
Grant(c) ==
    /\ AdminAt(c, "grant")
    /\ grants' = [grants EXCEPT ![adminCall[c].actor] = @ + 1]
    /\ Ends(c)
    /\ UNCHANGED <<adminRow, invitation, challenge, adminSession, opened, unguarded>>
\* Revoked by hand, or found expired when the account is next looked at.
GrantEnds(a) ==
    /\ grants[a] > 0
    /\ grants' = [grants EXCEPT ![a] = @ - 1]
    /\ UNCHANGED <<adminRow, invitation, challenge, adminSession, opened, adminCall, asked,
                   unguarded>>

-------------------------------------------------------------------------------
(* Invitations.                                                                *)

\* The account is saved and then its invitation.
Invite(c, a, super) ==
    /\ AdminAt(c, "inside")
    /\ ~Here(a)
    /\ adminRow' = [adminRow EXCEPT ![a] = Invited(super)]
    /\ GoesOn(c, [adminCall[c] EXCEPT !.op = "invite", !.on = a, !.letter = Sent, !.pc = "save"])
    /\ UNCHANGED <<invitation, challenge, adminSession, opened, grants, unguarded>>

\* A new link for whoever has not accepted; an account that was put out waits
\* for its invitation again.
Resend(c, a) ==
    /\ AdminAt(c, "inside")
    /\ Here(a)
    /\ invitation[a] /= Blank
    /\ invitation[a].status /= "accepted"
    /\ invitation[a].link < MaxLink
    /\ LET row == adminRow[a] IN
       GoesOn(c, [adminCall[c] EXCEPT
           !.op = "resend", !.on = a, !.saw = row, !.pc = "save",
           !.letter = [Sent EXCEPT !.link = invitation[a].link + 1],
           !.row = IF row.status = "pending_invitation" THEN Blank
                   ELSE [row EXCEPT !.status = "pending_invitation"]])
    /\ UNCHANGED <<adminRow, invitation, challenge, adminSession, opened, grants, unguarded>>

Withdraw(c, a) ==
    /\ AdminAt(c, "inside")
    /\ Here(a)
    /\ invitation[a] /= Blank
    /\ invitation[a].status \in {"pending", "enrolling_mfa"}
    /\ GoesOn(c, [adminCall[c] EXCEPT
           !.op = "withdraw", !.on = a, !.saw = adminRow[a], !.pc = "save",
           !.letter = [invitation[a] EXCEPT !.status = "revoked"],
           !.row = [adminRow[a] EXCEPT !.status = "inactive"]])
    /\ UNCHANGED <<adminRow, invitation, challenge, adminSession, opened, grants, unguarded>>

\* requireInvitation with the current link.  A link that is overdue is marked.
Overdue(c, a) ==
    /\ invitation[a] /= Blank
    /\ invitation[a].overdue
    /\ invitation[a].status \notin {"accepted", "revoked", "expired"}
    /\ Starts(c, Blank)
    /\ invitation' = [invitation EXCEPT ![a].status = "expired"]
    /\ UNCHANGED <<adminRow, challenge, adminSession, opened, grants, unguarded>>
InTime(a, statuses) ==
    /\ Here(a)
    /\ invitation[a] /= Blank
    /\ ~invitation[a].overdue
    /\ invitation[a].status \in statuses

SetPassword(c, a) ==
    /\ InTime(a, {"pending", "enrolling_mfa"})
    /\ Starts(c, [Fresh EXCEPT
           !.op = "setPassword", !.on = a, !.saw = adminRow[a], !.pc = "save",
           !.row = [adminRow[a] EXCEPT !.mfa = "reset"],
           !.letter = [invitation[a] EXCEPT !.status = "enrolling_mfa"]])
    /\ UNCHANGED <<adminRow, invitation, challenge, adminSession, opened, grants, unguarded>>

\* completeInvitationMfa, with a code of the secret; the status is not asked.
Enrol(c, a) ==
    /\ InTime(a, {"enrolling_mfa"})
    /\ adminRow[a].mfa /= "off"
    /\ Starts(c, [Fresh EXCEPT
           !.op = "enrol", !.on = a, !.saw = adminRow[a], !.pc = "save",
           !.row = [adminRow[a] EXCEPT !.mfa = "on", !.status = "active"],
           !.letter = [invitation[a] EXCEPT !.status = "accepted"]])
    /\ UNCHANGED <<adminRow, invitation, challenge, adminSession, opened, grants, unguarded>>

\* The two saves of Promise.all come in any order.
SaveLetter(c) ==
    /\ AdminAt(c, "save")
    /\ adminCall[c].letter /= Blank
    /\ invitation' = [invitation EXCEPT ![adminCall[c].on] = adminCall[c].letter]
    /\ IF adminCall[c].row = Blank THEN Ends(c)
       ELSE GoesOn(c, [adminCall[c] EXCEPT !.letter = Blank])
    /\ UNCHANGED <<adminRow, challenge, adminSession, opened, grants, unguarded>>

LinkExpires(a) ==
    /\ invitation[a] /= Blank
    /\ ~invitation[a].overdue
    /\ invitation' = [invitation EXCEPT ![a].overdue = TRUE]
    /\ UNCHANGED <<adminRow, challenge, adminSession, opened, grants, adminCall, asked, unguarded>>

-------------------------------------------------------------------------------
(* Signing in.                                                                 *)

\* assertAccountIsUsable
\* Mutant of Usable: only inactive accounts are refused.
UsableUnlessInactive(row) ==
    /\ row.status \notin {"inactive", "pending_invitation"}
    /\ ~row.barred
Usable(row) ==
    /\ row.status \notin PutOut \cup {"pending_invitation"}
    /\ ~row.barred

Login(c, a) ==
    /\ Here(a)
    /\ Usable(adminRow[a])
    /\ Starts(c, [Fresh EXCEPT !.op = "login", !.on = a, !.saw = adminRow[a], !.pc = "password"])
    /\ UNCHANGED <<adminRow, invitation, challenge, adminSession, opened, grants, unguarded>>

\* handleFailedLogin counts from what it read.
WrongPassword(c) ==
    /\ AdminAt(c, "password")
    /\ LET row == adminCall[c].saw
           fails == IF row.fails < MaxAttempts THEN row.fails + 1 ELSE MaxAttempts
       IN GoesOn(c, [adminCall[c] EXCEPT !.pc = "save", !.row =
              IF fails < MaxAttempts THEN [row EXCEPT !.fails = fails]
              ELSE [row EXCEPT !.fails = fails, !.barred = TRUE, !.status = "locked"]])
    /\ UNCHANGED <<adminRow, invitation, challenge, adminSession, opened, grants, unguarded>>

\* The ticket is a fresh one, no matter which.
\* resetFailedLoginState saves unless there is nothing to reset.
RightPassword(c, k) ==
    /\ AdminAt(c, "password")
    /\ challenge[k] = Blank
    /\ k = CHOOSE fresh \in Challenge : challenge[fresh] = Blank
    /\ LET row == adminCall[c].saw
           a == adminCall[c].on
       IN
       /\ row.mfa /= "off"
       /\ challenge' = [challenge EXCEPT ![k] = [of |-> a, spent |-> FALSE]]
       /\ IF row.fails = 0 /\ row.status = "active" THEN Ends(c)
          ELSE GoesOn(c, [adminCall[c] EXCEPT !.pc = "save", !.row =
                   [row EXCEPT !.fails = 0, !.barred = FALSE, !.status = "active"]])
    /\ UNCHANGED <<adminRow, invitation, adminSession, opened, grants, unguarded>>

\* verifyMfa reads the account and accepts the code,
EnterCode(c, k) ==
    /\ challenge[k] /= Blank
    /\ LET a == challenge[k].of IN
       /\ Here(a)
       /\ Usable(adminRow[a])
       /\ adminRow[a].mfa /= "off"
       /\ Starts(c, [Fresh EXCEPT
              !.op = "verify", !.on = a, !.key = k, !.saw = adminRow[a], !.pc = "code",
              !.row = [adminRow[a] EXCEPT !.status = "active", !.fails = 0,
                                          !.barred = FALSE, !.mfa = "on"]])
    /\ UNCHANGED <<adminRow, invitation, challenge, adminSession, opened, grants, unguarded>>

\* consumes the ticket (SET NX; refused when Redis is away),
\* Mutant of Consume: the ticket is looked up and then set.
ConsumeAgain(c) ==
    /\ AdminAt(c, "code")
    /\ challenge' = [challenge EXCEPT ![adminCall[c].key].spent = TRUE]
    /\ GoesOn(c, [adminCall[c] EXCEPT !.pc = "save"])
    /\ UNCHANGED <<adminRow, invitation, adminSession, opened, grants, unguarded>>
Consume(c) ==
    /\ AdminAt(c, "code")
    /\ IF challenge[adminCall[c].key].spent THEN Ends(c) /\ UNCHANGED challenge
       ELSE /\ challenge' = [challenge EXCEPT ![adminCall[c].key].spent = TRUE]
            /\ GoesOn(c, [adminCall[c] EXCEPT !.pc = "save"])
    /\ UNCHANGED <<adminRow, invitation, adminSession, opened, grants, unguarded>>

\* saves the account, and opens a session.
OpenSession(c) ==
    /\ AdminAt(c, "open")
    /\ adminSession' = [adminSession EXCEPT ![adminCall[c].key] = "live"]
    /\ opened' = [opened EXCEPT ![adminCall[c].key] = @ + 1]
    /\ Ends(c)
    /\ UNCHANGED <<adminRow, invitation, challenge, grants, unguarded>>

LockPasses(a) ==
    /\ Here(a)
    /\ adminRow[a].barred
    /\ adminRow' = [adminRow EXCEPT ![a].barred = FALSE]
    /\ UNCHANGED <<invitation, challenge, adminSession, opened, grants, adminCall, asked, unguarded>>

\* A starting process sees to it that the bootstrap account has its role.
Boot(c) ==
    /\ Here(BootAdmin)
    /\ ~adminRow[BootAdmin].super
    /\ Starts(c, [Fresh EXCEPT !.op = "boot", !.on = BootAdmin, !.saw = adminRow[BootAdmin],
                               !.pc = "save", !.row = [adminRow[BootAdmin] EXCEPT !.super = TRUE]])
    /\ UNCHANGED <<adminRow, invitation, challenge, adminSession, opened, grants, unguarded>>

\* A request that throws or dies leaves what it has saved.
AdminThrows(c) ==
    /\ adminCall[c] /= Blank
    /\ Ends(c)
    /\ UNCHANGED <<adminRow, invitation, challenge, adminSession, opened, grants, unguarded>>

AdminNext ==
    \/ \E c \in AdminCall :
          \/ Touch(c) \/ Count(c) \/ SaveRow(c) \/ SaveLetter(c) \/ RevokeAll(c)
          \/ Activate(c) \/ Grant(c) \/ WrongPassword(c) \/ Consume(c) \/ OpenSession(c)
          \/ Boot(c) \/ AdminThrows(c)
    \/ \E c \in AdminCall, k \in Challenge :
          Arrive(c, k) \/ RightPassword(c, k) \/ EnterCode(c, k)
    \/ \E c \in AdminCall, keys \in SUBSET Challenge : RevokeSome(c, keys)
    \/ \E c \in AdminCall, a \in Admin :
          \/ Resend(c, a) \/ Withdraw(c, a) \/ Overdue(c, a)
          \/ SetPassword(c, a) \/ Enrol(c, a) \/ Login(c, a)
          \/ \E super \in BOOLEAN : Invite(c, a, super)
          \/ \E op \in Guarded \cup {"reactivate", "promote", "resetMfa", "disableMfa",
                                     "keep", "reviewOut"} : Consider(c, a, op)
    \/ \E a \in Admin : GrantEnds(a) \/ LinkExpires(a) \/ LockPasses(a)

AdminSpec == AdminInit /\ [][AdminNext]_adminVars

-------------------------------------------------------------------------------
(* Properties.                                                                 *)

\* "Never leave the platform with zero active super administrators": there is
\* one as long as nobody puts one out without counting (an access review, a
\* stale save) and no two counted operations overlap.
SuperAdminRemains ==
    \/ unguarded
    \/ \E a \in Admin : Able(adminRow[a])

\* "Concurrent successful submissions still yield exactly one session."
ChallengesOpenOneSession ==
    \A k \in Challenge :
        /\ opened[k] <= 1
        /\ adminSession[k] /= "none" => opened[k] = 1

\* What an administrator decided is undone by a decision, by the invitation the
\* account still holds, or by a request that read the row before: an account
\* that was put out works again, a revoked session is open again.
OldCallUndoes ==
    /\ \A a \in Admin :
          (/\ Here(a) /\ adminRow[a].status \in PutOut
           /\ Here(a)' /\ adminRow'[a].status \notin PutOut)
          => \E c \in AdminCall :
                /\ adminCall[c] /= Blank
                /\ adminCall[c].on = a
                /\ \/ adminCall[c].op \in {"reactivate", "resend", "enrol"}
                   \/ /\ adminCall[c].saw /= Blank
                      /\ adminCall[c].saw.status \notin PutOut
    /\ \A k \in Challenge :
          adminSession[k] \in {"revoked", "out"} /\ adminSession'[k] = "live"
          => adminSession[k] = "revoked" /\ \E c \in AdminCall : AdminAt(c, "guard")

OnlyOldCallsUndo == [][OldCallUndoes]_adminVars

===============================================================================
