---------------------------- MODULE AccountSessions ----------------------------
(* Consumer sessions: auth.service.ts (sign-in, refresh, logout, upgrade), the *)
(* guard jwt-auth.guard.ts, token-blacklist.service.ts, and every operation of *)
(* users.service.ts, admin-users.service.ts and privacy-execution.service.ts   *)
(* that saves a row of users.                                                  *)
(*                                                                             *)
(* A session is a pair of stateless tokens that carry the sessionVersion of    *)
(* the account; raising the column revokes them all.  A single token is        *)
(* revoked by its key: in the memory of the process that handles the request,  *)
(* and in Redis when Redis answers.  An operation on an account reads the row, *)
(* awaits something (a hash, a mail, a transaction), and saves the whole row.  *)
(*                                                                             *)
(* Passwords, mails and codes are left out: the operations are those of        *)
(* callers who have proved what the code asks them to prove.  Tokens do not    *)
(* expire (an expired one is refused by its signature check).  A row saved     *)
(* after it was deleted is inserted again, as TypeORM's save does.             *)
EXTENDS Integers, FiniteSets

CONSTANTS
    User,            \* accounts
    Process,         \* API processes
    Session,         \* pairs of access and refresh token
    Nonce,           \* nonces of social sign-ins
    Request,         \* requests between two awaits
    None,
    OwnerOps,        \* what owners do to their row: "touch", "revoke", "leave"
    MaxRequests,     \* bound on the requests made and outages of Redis together
    MaxOutages       \* bound on the times Redis stops answering

ASSUME SessionsAssumption ==
    /\ None \notin User \cup Process \cup Session \cup Nonce
    /\ OwnerOps \subseteq {"touch", "revoke", "leave"}
    /\ MaxRequests \in Nat /\ MaxOutages \in Nat

VARIABLES
    account,      \* users: the columns sessions depend on
    restricted,   \* accounts with an active row in user_restrictions
    sess,         \* the sessions issued
    local,        \* each process's own list of revoked and consumed keys
    redis,        \* the shared list
    redisUp,      \* Redis answers
    request,
    started,      \* how many requests were made
    outages,      \* how often Redis has stopped answering
    revocations,  \* how often each account's sessions were revoked
    clobbered,    \* accounts of which a save overwrote what it had not read
    spent,        \* keys of tokens whose logout, refresh or upgrade was answered,
                  \* each with the process that answered, while it runs
    accepted      \* how often each nonce was accepted

vars == <<account, restricted, sess, local, redis, redisUp, request, started, outages,
          revocations, clobbered, spent, accepted>>

-------------------------------------------------------------------------------
(* State                                                                       *)

Account == [exists : BOOLEAN, sessionVersion : Nat, isSuspended : BOOLEAN]

\* What a pair of tokens says, and what the sign-in it descends from knew.
Tokens == [user : User, sessionVersion : Nat,
           knew : Nat, upgraded : BOOLEAN]

AccessKey(s) == <<s, "access">>
RefreshKey(s) == <<s, "refresh">>
NonceKey(n) == <<n, "nonce">>
Key == {AccessKey(s) : s \in Session} \cup {RefreshKey(s) : s \in Session}
           \cup {NonceKey(n) : n \in Nonce}

Op == {"signIn", "refresh", "logout", "upgrade", "touch", "revoke",
       "suspend", "reactivate", "delete", "leave"}
Guarded == {"logout", "upgrade"} \cup OwnerOps
Errand == [pc : {"idle", "claim", "claimed", "exists", "account", "row", "saving",
                 "deleting", "store", "storeRefresh", "issue"},
           op : Op, process : Process \cup {None}, user : User \cup {None},
           session : Session \cup {None}, nonce : Nonce \cup {None},
           seen : Account, knew : Nat, locally : BOOLEAN,
           late : {"no", "elsewhere", "here"}]
NoAccount == [exists |-> FALSE, sessionVersion |-> 0, isSuspended |-> FALSE]
Idle == [pc |-> "idle", op |-> "signIn", process |-> None, user |-> None, session |-> None,
         nonce |-> None, seen |-> NoAccount, knew |-> 0, locally |-> FALSE, late |-> "no"]

\* The key the request's token is revoked by.
KeyOf(this) == IF this.op = "refresh" THEN RefreshKey(this.session) ELSE AccessKey(this.session)

MaySignIn(u) == account[u].exists /\ ~account[u].isSuspended
Holds(s) == sess[s].sessionVersion = account[sess[s].user].sessionVersion

Goes(q, pc) == request' = [request EXCEPT ![q] = [@ EXCEPT !.pc = pc]]
Ends(q) == request' = [request EXCEPT ![q] = Idle]
Starts(q, x) ==
    /\ request[q].pc = "idle" /\ started + outages < MaxRequests
    /\ request' = [request EXCEPT ![q] = x]
    /\ started' = started + 1
Sees(q, pc, u) ==
    request' = [request EXCEPT ![q] = [@ EXCEPT
        !.pc = pc, !.seen = account[u], !.knew = revocations[u]]]

-------------------------------------------------------------------------------
(* The list of revoked tokens                                                  *)

\* add: this process remembers at once, Redis is told next.
Remember(p, key) == local' = [local EXCEPT ![p] = @ \cup {key}]
Shared(key) == redis' = IF redisUp THEN redis \cup {key} ELSE redis

\* isBlacklisted: the process's list was read first, Redis answers now.
Listed(this) == this.locally \/ (redisUp /\ KeyOf(this) \in redis)

-------------------------------------------------------------------------------
(* Signing in                                                                  *)

\* A password (a sign-up, a login): the row is read, the hash compared.
Login(q, u) ==
    /\ MaySignIn(u)
    /\ Starts(q, [Idle EXCEPT !.pc = "issue", !.user = u,
                              !.seen = account[u], !.knew = revocations[u]])
    /\ UNCHANGED <<account, restricted, sess, local, redis, redisUp, outages,
                   revocations, clobbered, spent, accepted>>

\* A provider's token: its nonce is consumed before the account is looked up.
SocialSignIn(q, p, u, n) ==
    /\ NonceKey(n) \notin local[p]
    /\ Starts(q, [Idle EXCEPT !.pc = "claim", !.process = p, !.user = u, !.nonce = n])
    /\ UNCHANGED <<account, restricted, sess, local, redis, redisUp, outages,
                   revocations, clobbered, spent, accepted>>

\* Mutant: Redis is asked whether the key is there, and told in a second call.
AskedThenTold(q) ==
    LET this == request[q]
        key == NonceKey(this.nonce)
    IN /\ this.pc = "claim" /\ redisUp /\ key \notin redis
       /\ Goes(q, "claimed")
       /\ UNCHANGED <<started, account, restricted, sess, local, redis, redisUp, outages,
                      revocations, clobbered, spent, accepted>>

\* consumeOnce asks Redis to set the key unless it exists ...
ClaimNonce(q) ==
    LET this == request[q]
        key == NonceKey(this.nonce)
    IN /\ this.pc = "claim" /\ redisUp /\ key \notin redis
       /\ redis' = redis \cup {key}
       /\ Goes(q, "claimed")
       /\ UNCHANGED <<started, account, restricted, sess, local, redisUp, outages,
                      revocations, clobbered, spent, accepted>>

\* ... and remembers the key when Redis has answered.  Without an answer the
\* process's own list decides.
NonceAccepted(q) ==
    LET this == request[q]
        key == NonceKey(this.nonce)
    IN /\ \/ this.pc = "claimed"
          \/ this.pc = "claim" /\ ~redisUp
       /\ redisUp \/ key \notin local[this.process]
       /\ Remember(this.process, key)
       /\ accepted' = [accepted EXCEPT ![this.nonce] = IF @ < 2 THEN @ + 1 ELSE @]
       /\ Goes(q, "account")
       /\ UNCHANGED <<started, account, restricted, sess, redis, redisUp, outages,
                      revocations, clobbered, spent>>

\* The tokens are signed with the version that was read.
IssueSession(q, s) ==
    LET this == request[q]
        parent == this.session
        descends == this.op \in {"refresh", "upgrade"}
    IN /\ this.pc = "issue"
       /\ sess[s] = None
       /\ sess' = [sess EXCEPT ![s] =
             [user |-> this.user, sessionVersion |-> this.seen.sessionVersion,
              knew |-> IF descends THEN sess[parent].knew ELSE this.knew,
              upgraded |-> this.op = "upgrade" \/ (this.op = "refresh" /\ sess[parent].upgraded)]]
       /\ spent' = IF descends THEN spent \cup {<<this.process, KeyOf(this)>>} ELSE spent
       /\ Ends(q)
       /\ UNCHANGED <<started, account, restricted, local, redis, redisUp, outages,
                      revocations, clobbered, accepted>>

-------------------------------------------------------------------------------
(* Presenting a token                                                          *)

\* Has the token been given up already, and was it this process that said so?
Lateness(p, key) ==
    IF <<p, key>> \in spent THEN "here"
    ELSE IF \E x \in spent : x[2] = key THEN "elsewhere" ELSE "no"

\* The signature is good; the process looks into its own list and asks Redis.
Present(q, p, s, op) ==
    LET x == [Idle EXCEPT !.pc = "exists", !.op = op, !.process = p,
                          !.user = sess[s].user, !.session = s]
    IN /\ sess[s] # None
       /\ op \in Guarded \cup {"refresh"}
       /\ Starts(q, [x EXCEPT !.locally = KeyOf(x) \in local[p],
                              !.late = Lateness(p, KeyOf(x))])
       /\ UNCHANGED <<account, restricted, sess, local, redis, redisUp, outages,
                      revocations, clobbered, spent, accepted>>

CheckBlacklist(q) ==
    /\ request[q].pc = "exists"
    /\ IF Listed(request[q]) THEN Ends(q)
       ELSE request' = [request EXCEPT ![q] = [@ EXCEPT !.pc = "account", !.locally = FALSE]]
    /\ UNCHANGED <<started, account, restricted, sess, local, redis, redisUp, outages,
                   revocations, clobbered, spent, accepted>>

\* The account the token names is refused: gone, suspended, or at a version the
\* token does not carry.  A social sign-in has no token yet.
Refuse(q) ==
    LET this == request[q]
    IN /\ this.pc = "account"
       /\ \/ ~MaySignIn(this.user)
          \/ this.session # None /\ ~Holds(this.session)
       /\ Ends(q)
       /\ UNCHANGED <<started, account, restricted, sess, local, redis, redisUp, outages,
                      revocations, clobbered, spent, accepted>>

Resolve(q) ==
    LET this == request[q]
    IN /\ this.pc = "account" /\ this.op = "signIn"
       /\ MaySignIn(this.user)
       /\ Sees(q, "issue", this.user)
       /\ UNCHANGED <<started, account, restricted, sess, local, redis, redisUp, outages,
                      revocations, clobbered, spent, accepted>>

\* Mutant: a refresh does not compare the versions.
RefreshUnversioned(q) ==
    LET this == request[q]
    IN /\ this.pc = "account" /\ this.op = "refresh"
       /\ MaySignIn(this.user)
       /\ Remember(this.process, KeyOf(this))
       /\ Sees(q, "store", this.user)
       /\ UNCHANGED <<started, account, restricted, sess, redis, redisUp, outages,
                      revocations, clobbered, spent, accepted>>

\* refresh: the token is good and is revoked; a new pair will be issued.
Refresh(q) ==
    LET this == request[q]
    IN /\ this.pc = "account" /\ this.op = "refresh"
       /\ MaySignIn(this.user) /\ Holds(this.session)
       /\ Remember(this.process, KeyOf(this))
       /\ Sees(q, "store", this.user)
       /\ UNCHANGED <<started, account, restricted, sess, redis, redisUp, outages,
                      revocations, clobbered, spent, accepted>>

\* The guard lets the request through; logout revokes the access token first.
Admit(q) ==
    LET this == request[q]
    IN /\ this.pc = "account" /\ this.op \in Guarded
       /\ MaySignIn(this.user) /\ Holds(this.session)
       /\ IF this.op = "logout"
          THEN Remember(this.process, KeyOf(this)) /\ Goes(q, "store")
          ELSE Goes(q, "row") /\ UNCHANGED local
       /\ UNCHANGED <<started, account, restricted, sess, redis, redisUp, outages,
                      revocations, clobbered, spent, accepted>>

\* upgradeSession reads the account again, without looking at its version.
UpgradeSession(q) ==
    LET this == request[q]
    IN /\ this.pc = "row" /\ this.op = "upgrade"
       /\ IF MaySignIn(this.user)
          THEN Remember(this.process, KeyOf(this)) /\ Sees(q, "store", this.user)
          ELSE Ends(q) /\ UNCHANGED local
       /\ UNCHANGED <<started, account, restricted, sess, redis, redisUp, outages,
                      revocations, clobbered, spent, accepted>>

\* Redis has been told, or could not be; a logout goes on to the refresh token.
StoreKey(q) ==
    LET this == request[q]
    IN /\ this.pc = "store"
       /\ Shared(KeyOf(this))
       /\ IF this.op = "logout"
          THEN Remember(this.process, RefreshKey(this.session)) /\ Goes(q, "storeRefresh")
          ELSE Goes(q, "issue") /\ UNCHANGED local
       /\ UNCHANGED <<started, account, restricted, sess, redisUp, outages,
                      revocations, clobbered, spent, accepted>>

\* A client that sends no refresh token gives up the access token alone.
LoggedOutOfAccess(q) ==
    LET this == request[q]
    IN /\ this.pc = "store" /\ this.op = "logout"
       /\ Shared(KeyOf(this))
       /\ spent' = spent \cup {<<this.process, KeyOf(this)>>}
       /\ Ends(q)
       /\ UNCHANGED <<started, account, restricted, sess, local, redisUp, outages,
                      revocations, clobbered, accepted>>

\* Mutant: the refresh token is remembered by this process only.
LoggedOutHere(q) ==
    LET s == request[q].session
        p == request[q].process
    IN /\ request[q].pc = "storeRefresh"
       /\ spent' = spent \cup {<<p, AccessKey(s)>>, <<p, RefreshKey(s)>>}
       /\ Ends(q)
       /\ UNCHANGED <<started, account, restricted, sess, local, redis, redisUp, outages,
                      revocations, clobbered, accepted>>

LoggedOut(q) ==
    LET s == request[q].session
        p == request[q].process
    IN /\ request[q].pc = "storeRefresh"
       /\ Shared(RefreshKey(s))
       /\ spent' = spent \cup {<<p, AccessKey(s)>>, <<p, RefreshKey(s)>>}
       /\ Ends(q)
       /\ UNCHANGED <<started, account, restricted, sess, local, redisUp, outages,
                      revocations, clobbered, accepted>>

-------------------------------------------------------------------------------
(* Saving the account                                                          *)

\* The owner, past the guard: the row is read.
ReadRow(q) ==
    LET this == request[q]
    IN /\ this.pc = "row" /\ this.op \in {"touch", "revoke", "leave"}
       /\ IF account[this.user].exists THEN Sees(q, "saving", this.user) ELSE Ends(q)
       /\ UNCHANGED <<started, account, restricted, sess, local, redis, redisUp, outages,
                      revocations, clobbered, spent, accepted>>

\* Somebody without the account's token reads the row: a password reset, an
\* administrator, a privacy executor.
Take(q, u, op) ==
    /\ account[u].exists
    /\ Starts(q, [Idle EXCEPT !.pc = "saving", !.op = op, !.user = u,
                              !.seen = account[u], !.knew = revocations[u]])
    /\ UNCHANGED <<account, restricted, sess, local, redis, redisUp, outages,
                   revocations, clobbered, spent, accepted>>
ResetPassword(q, u) == Take(q, u, "revoke")
UpdateUser(q, u) == Take(q, u, "touch")
SuspendUser(q, u) == ~account[u].isSuspended /\ Take(q, u, "suspend")
ReactivateUser(q, u) == account[u].isSuspended /\ Take(q, u, "reactivate")
EraseAccount(q, u) == Take(q, u, "delete")

\* What a save overwrites without having read it.
Overwrites(this) ==
    clobbered' = IF account[this.user] = this.seen THEN clobbered
                 ELSE clobbered \cup {this.user}

Revokes(this) ==
    revocations' = [revocations EXCEPT ![this.user] = @ + 1]

\* updateProfile, setAvatarIfMissing, requestEmailChange, connectSpotify, ...
SaveTouched(q) ==
    LET this == request[q]
    IN /\ this.pc = "saving" /\ this.op = "touch"
       /\ account' = [account EXCEPT ![this.user] = this.seen]
       /\ Overwrites(this)
       /\ Ends(q)
       /\ UNCHANGED <<started, restricted, sess, local, redis, redisUp, outages, revocations,
                      spent, accepted>>

\* resetPassword, changePassword, confirmEmailChange, an administrator's revocation.
SaveRevoked(q) ==
    LET this == request[q]
    IN /\ this.pc = "saving" /\ this.op = "revoke"
       /\ Revokes(this)
       /\ account' = [account EXCEPT ![this.user] =
             [this.seen EXCEPT !.sessionVersion = this.seen.sessionVersion + 1]]
       /\ Overwrites(this)
       /\ Ends(q)
       /\ UNCHANGED <<started, restricted, sess, local, redis, redisUp, outages, spent, accepted>>

\* The user and the restriction are saved in one transaction, which fails if
\* the account has an active restriction already (a unique index).
SaveSuspended(q) ==
    LET this == request[q]
    IN /\ this.pc = "saving" /\ this.op = "suspend"
       /\ this.user \notin restricted
       /\ Revokes(this)
       /\ account' = [account EXCEPT ![this.user] =
             [this.seen EXCEPT !.sessionVersion = this.seen.sessionVersion + 1,
                               !.isSuspended = TRUE]]
       /\ restricted' = restricted \cup {this.user}
       /\ Overwrites(this)
       /\ Ends(q)
       /\ UNCHANGED <<started, sess, local, redis, redisUp, outages, spent, accepted>>

\* Mutant: the restriction stays active.
ReactivatedOnly(q) ==
    LET this == request[q]
    IN /\ this.pc = "saving" /\ this.op = "reactivate"
       /\ account' = [account EXCEPT ![this.user] =
             [this.seen EXCEPT !.isSuspended = FALSE]]
       /\ Overwrites(this)
       /\ Ends(q)
       /\ UNCHANGED <<started, restricted, sess, local, redis, redisUp, outages, revocations,
                      spent, accepted>>

SaveReactivated(q) ==
    LET this == request[q]
    IN /\ this.pc = "saving" /\ this.op = "reactivate"
       /\ account' = [account EXCEPT ![this.user] =
             [this.seen EXCEPT !.isSuspended = FALSE]]
       /\ restricted' = restricted \ {this.user}
       /\ Overwrites(this)
       /\ Ends(q)
       /\ UNCHANGED <<started, sess, local, redis, redisUp, outages, revocations, spent, accepted>>

\* The privacy executor raises the version by an update of that column alone ...
EndSessions(q) ==
    LET this == request[q]
    IN /\ this.pc = "saving" /\ this.op = "delete"
       /\ Revokes(this)
       /\ account' = IF account[this.user].exists
             THEN [account EXCEPT ![this.user] =
                      [@ EXCEPT !.sessionVersion = this.seen.sessionVersion + 1]]
             ELSE account
       /\ Overwrites(this)
       /\ Goes(q, "deleting")
       /\ UNCHANGED <<started, restricted, sess, local, redis, redisUp, outages, spent, accepted>>

\* ... and deletes the row, as the owner who leaves does.  The restrictions of
\* the account go with it (the foreign key cascades).
DeleteUser(q) ==
    LET this == request[q]
        u == this.user
    IN /\ this.pc = "deleting" \/ (this.pc = "saving" /\ this.op = "leave")
       /\ account' = [account EXCEPT ![u] = NoAccount]
       /\ restricted' = restricted \ {u}
       /\ Ends(q)
       /\ UNCHANGED <<started, sess, local, redis, redisUp, outages, revocations, clobbered,
                      spent, accepted>>

-------------------------------------------------------------------------------
(* The surroundings                                                            *)

\* The client goes away, or a call fails.
Abandon(q) ==
    /\ request[q].pc # "idle"
    /\ Ends(q)
    /\ UNCHANGED <<started, account, restricted, sess, local, redis, redisUp, outages,
                   revocations, clobbered, spent, accepted>>

\* A process ends and another takes its place.  (A bound: processes restart,
\* and Redis comes and goes, only while requests may still come.)
Restart(p) ==
    /\ local[p] # {} /\ started < MaxRequests
    /\ local' = [local EXCEPT ![p] = {}]
    /\ request' = [q \in Request |-> IF request[q].process = p THEN Idle ELSE request[q]]
    /\ spent' = {IF x[1] = p THEN <<None, x[2]>> ELSE x : x \in spent}
    /\ UNCHANGED <<started, account, restricted, sess, redis, redisUp, outages,
                   revocations, clobbered, accepted>>

RedisFails ==
    /\ redisUp /\ outages < MaxOutages /\ started < MaxRequests
    /\ redisUp' = FALSE
    /\ outages' = outages + 1
    /\ UNCHANGED <<started, account, restricted, sess, local, redis, request,
                   revocations, clobbered, spent, accepted>>

RedisReturns ==
    /\ ~redisUp /\ started < MaxRequests
    /\ redisUp' = TRUE
    /\ UNCHANGED <<started, account, restricted, sess, local, redis, request, outages,
                   revocations, clobbered, spent, accepted>>

-------------------------------------------------------------------------------
Init ==
    /\ account = [u \in User |-> [NoAccount EXCEPT !.exists = TRUE]]
    /\ restricted = {}
    /\ sess = [s \in Session |-> None]
    /\ local = [p \in Process |-> {}]
    /\ redis = {}
    /\ redisUp = TRUE
    /\ request = [q \in Request |-> Idle]
    /\ started = 0
    /\ outages = 0
    /\ revocations = [u \in User |-> 0]
    /\ clobbered = {}
    /\ spent = {}
    /\ accepted = [n \in Nonce |-> 0]

SignInStep(q) ==
    \/ \E u \in User : \/ Login(q, u)
                       \/ \E p \in Process, n \in Nonce : SocialSignIn(q, p, u, n)
    \/ ClaimNonce(q) \/ NonceAccepted(q) \/ Resolve(q)
    \/ \E s \in Session : IssueSession(q, s)

TokenStep(q) ==
    \/ \E p \in Process, s \in Session, op \in Op : Present(q, p, s, op)
    \/ CheckBlacklist(q) \/ Refuse(q) \/ Refresh(q) \/ Admit(q) \/ UpgradeSession(q)
    \/ StoreKey(q) \/ LoggedOutOfAccess(q) \/ LoggedOut(q)

RowStep(q) ==
    \/ ReadRow(q)
    \/ \E u \in User : \/ ResetPassword(q, u) \/ UpdateUser(q, u) \/ SuspendUser(q, u)
                       \/ ReactivateUser(q, u) \/ EraseAccount(q, u)
    \/ SaveTouched(q) \/ SaveRevoked(q) \/ SaveSuspended(q) \/ SaveReactivated(q)
    \/ EndSessions(q) \/ DeleteUser(q)

Next ==
    \/ \E q \in Request : SignInStep(q) \/ TokenStep(q) \/ RowStep(q) \/ Abandon(q)
    \/ \E p \in Process : Restart(p)
    \/ RedisFails \/ RedisReturns

Spec == Init /\ [][Next]_vars

-------------------------------------------------------------------------------
(* Properties                                                                  *)

TypeOK ==
    /\ account \in [User -> Account]
    /\ restricted \subseteq User
    /\ sess \in [Session -> Tokens \cup {None}]
    /\ local \in [Process -> SUBSET Key]
    /\ redis \subseteq Key
    /\ redisUp \in BOOLEAN
    /\ request \in [Request -> Errand]
    /\ started \in 0 .. MaxRequests
    /\ outages \in 0 .. MaxOutages
    /\ revocations \in [User -> Nat]
    /\ clobbered \subseteq User
    /\ spent \subseteq (Process \cup {None}) \X Key
    /\ accepted \in [Nonce -> 0 .. 2]

\* The guard would let the session through, the list of revoked tokens aside.
Usable(s) == sess[s] # None /\ MaySignIn(sess[s].user) /\ Holds(s)

\* A session that is let through descends, through any number of refreshes, from
\* a sign-in that read the account after its last revocation (reset, change of
\* password or address, suspension, deletion), whatever was under way when the
\* revocation was saved.  Two exceptions: another save of the account overwrote
\* the revocation or was overwritten by it, and upgradeSession.
UsableIsCurrent ==
    \A s \in Session :
        Usable(s) /\ sess[s].user \notin clobbered /\ ~sess[s].upgraded
            => sess[s].knew = revocations[sess[s].user]

\* "Invalidate every previously issued access/refresh token so a compromised
\* session cannot survive a password reset": the same without the exceptions.
RevocationsHold ==
    \A s \in Session : Usable(s) => sess[s].knew = revocations[sess[s].user]

\* A token whose logout, refresh or upgrade has been answered is refused from
\* then on by every process; once Redis has failed to answer, by the process
\* that answered, for as long as it runs.
SpentTokensAreRefused ==
    \A q \in Request :
        request[q].pc # "exists" =>
            \/ request[q].late = "no"
            \/ request[q].late = "elsewhere" /\ outages > 0

\* A nonce is accepted once, by whichever processes its copies arrive at,
\* unless Redis has failed to answer.
NonceOnce == \A n \in Nonce : accepted[n] <= 1 \/ outages > 0

\* An account is suspended exactly while it has an active restriction, unless a
\* save has overwritten what it had not read.
SuspendedIffRestricted ==
    \A u \in User \ clobbered : account[u].isSuspended <=> u \in restricted
================================================================================
