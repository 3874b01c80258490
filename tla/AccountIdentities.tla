-------------------------- MODULE AccountIdentities --------------------------
(***************************************************************************)
(* Who can get into an account: its email and password, and the Google and *)
(* Apple subjects joined to it (auth.service.ts, social-identity.service,  *)
(* users.service.ts).                                                      *)
(*                                                                         *)
(* Nothing here is locked: a handler reads entities, awaits hashes, mails  *)
(* and other queries, and saves whole entities, so it is cut at every      *)
(* await between a read and the write that rests on it.  save() writes all *)
(* columns that differ from the row, and inserts a row that is gone; a     *)
(* property set to undefined is left alone.  A code is known by the        *)
(* mailbox it went to.  Sessions and tokens are in AccountSessions; how    *)
(* often a code may be tried is not modelled.                              *)
(***************************************************************************)
EXTENDS Naturals, FiniteSets

CONSTANTS IdentityCall,    \* requests that may be under way at once
          Account,         \* ids of the accounts ever made
          Address,         \* mailboxes of people
          Likes,           \* addresses that each address matches as a pattern
          GoogleSubject, AppleSubject,
          MaxBegun,        \* requests that are ever begun
          NoOne

ASSUME IdentityAssumption ==
    /\ MaxBegun \in Nat
    /\ GoogleSubject \cap AppleSubject = {}
    /\ Address \cap (GoogleSubject \cup AppleSubject) = {}
    /\ Likes \in [Address -> SUBSET Address]
    /\ NoOne \notin Account \cup Address \cup GoogleSubject \cup AppleSubject
    /\ {"signup", "never"} \cap (GoogleSubject \cup AppleSubject) = {}

VARIABLES
    account,       \* table users
    joined,        \* table social_identities, by provider subject
    identityCall,  \* the requests under way and what they have read
    everMade,      \* accounts ever inserted, and the subject they were made for
    proven,        \* mailboxes whose code was entered, by account
    begun          \* requests begun so far

identityVars == <<account, joined, identityCall, everMade, proven, begun>>

Subject == GoogleSubject \cup AppleSubject

SocialProvider(s) == IF s \in GoogleSubject THEN "google" ELSE "apple"

\* The reserved synthetic address of a subject is written as the subject.
AccountRow ==
    [email : Address \cup Subject, verified : BOOLEAN, password : BOOLEAN,
     source : {"email", "google", "apple"}, pending : Address \cup {NoOne},
     code : Address \cup Subject \cup {NoOne}]

\* by, through: whether a sign-in or the owner joined it, and by which email.
IdentityRow ==
    [owner : Account, by : {"sign-in", "owner"}, through : Address \cup {NoOne}]

ASSUME NoOneAssumption == NoOne \notin AccountRow \cup IdentityRow

\* missed: somebody else wrote since the request read.
IdentityRequest ==
    [kind : {"idle", "sign-in", "link", "unlink", "profile", "send", "verify",
             "password", "request", "confirm"},
     step : {"away", "known", "match", "create", "reuse", "stamp", "avatar",
             "adopt", "persist", "delete", "staging", "save", "clear"},
     user : Account \cup {NoOne}, subject : Subject \cup {NoOne},
     email : Address \cup Subject \cup {NoOne}, trusted : BOOLEAN,
     seen : IdentityRow \cup {NoOne}, copy : AccountRow \cup {NoOne},
     missed : BOOLEAN]

Idle0 == [kind |-> "idle", step |-> "away", user |-> NoOne, subject |-> NoOne,
          email |-> NoOne, trusted |-> FALSE, seen |-> NoOne, copy |-> NoOne,
          missed |-> FALSE]

IdentityTypeOK ==
    /\ account \in [Account -> AccountRow \cup {NoOne}]
    /\ joined \in [Subject -> IdentityRow \cup {NoOne}]
    /\ identityCall \in [IdentityCall -> IdentityRequest]
    /\ everMade \in [Account -> Subject \cup {NoOne, "signup", "never"}]
    /\ proven \in [Account -> SUBSET Address]
    /\ begun \in 0..MaxBegun

IdentityInit ==
    /\ account = [a \in Account |-> NoOne]
    /\ joined = [s \in Subject |-> NoOne]
    /\ identityCall = [c \in IdentityCall |-> Idle0]
    /\ everMade = [a \in Account |-> "never"]
    /\ proven = [a \in Account |-> {}]
    /\ begun = 0

-----------------------------------------------------------------------------
(* The steps requests are made of.                                         *)

On(c, step) == identityCall[c].step = step

Exists(a) == account[a] # NoOne

\* By the unique index of the column.
HolderOf(e) == {a \in Account : Exists(a) /\ account[a].email = e}

\* findByEmail: where email ILIKE e.  The e is not escaped, so that its _ and %
\* stand for other characters, and findOne() returns any of the rows.
FindByEmail(e) == {a \in Account : Exists(a) /\ account[a].email \in Likes[e]}

\* Goes on with r; who is under way misses what was written.
GoOn(c, r, wrote) ==
    identityCall' = [d \in IdentityCall |->
        IF d = c THEN r
        ELSE [identityCall[d] EXCEPT !.missed = @ \/ (wrote /\ ~On(d, "away"))]]

\* A request arrives, and reads what it rests on.
Arrives(c, r) ==
    /\ On(c, "away")
    /\ begun < MaxBegun
    /\ begun' = begun + 1
    /\ identityCall' = [identityCall EXCEPT ![c] = r]
    /\ UNCHANGED <<account, joined, everMade, proven>>

\* A step that only reads.
Reads(c, r) ==
    GoOn(c, r, FALSE) /\ UNCHANGED <<account, joined, everMade, proven, begun>>

\* The unique index on email decides.
CanWrite(a, row) == HolderOf(row.email) \subseteq {a}

\* usersRepo.save(): an update, or an insert when the row was deleted.
Write(c, a, row, r) ==
    /\ CanWrite(a, row)
    /\ account' = [account EXCEPT ![a] = row]
    /\ GoOn(c, r, TRUE)

\* A query fails or an exception is thrown.
IdentityThrows(c) ==
    ~On(c, "away") /\ Reads(c, Idle0)

-----------------------------------------------------------------------------
(* Accounts are made and deleted.                                          *)

\* insert of a new row; made: the subject it is made for, or "signup".
MakeAccount(a, row, made) ==
    /\ everMade[a] = "never"
    /\ HolderOf(row.email) = {}
    /\ account' = [account EXCEPT ![a] = row]
    /\ everMade' = [everMade EXCEPT ![a] = made]

NewRow(e, source) ==
    [email |-> e, verified |-> FALSE, password |-> source = "email",
     source |-> source, pending |-> NoOne, code |-> NoOne]

\* The look-up refuses an address that finds an account, but the password is
\* hashed after it: a row may come in between, and the unique index decides.
CreateUser(a, e) ==
    /\ MakeAccount(a, NewRow(e, "email"), "signup")
    /\ identityCall' = [d \in IdentityCall |->
         [identityCall[d] EXCEPT !.missed = @ \/ ~On(d, "away")]]
    /\ UNCHANGED <<joined, proven, begun>>

\* The foreign key of social_identities cascades.
DeleteUser(a) ==
    /\ Exists(a)
    /\ account' = [account EXCEPT ![a] = NoOne]
    /\ joined' = [s \in Subject |->
                    IF joined[s] # NoOne /\ joined[s].owner = a
                    THEN NoOne ELSE joined[s]]
    /\ identityCall' = [d \in IdentityCall |->
         [identityCall[d] EXCEPT !.missed = @ \/ ~On(d, "away")]]
    /\ UNCHANGED <<everMade, proven, begun>>

-----------------------------------------------------------------------------
(* Sign-in with a provider: resolveUser.                                   *)

\* e: the email of the token, unless it is a relay; v: the provider vouches.
SocialAuth(c, s, e, v) ==
    Arrives(c, [Idle0 EXCEPT !.kind = "sign-in", !.subject = s, !.email = e,
                             !.trusted = v, !.seen = joined[s],
                             !.step = IF joined[s] = NoOne THEN "match" ELSE "known"])

\* An identity whose user is gone is dropped, and the subject is unknown again.
FindKnown(c) ==
    LET r == identityCall[c] IN
    /\ On(c, "known")
    /\ IF Exists(r.seen.owner)
       THEN Reads(c, [r EXCEPT !.step = "stamp", !.user = r.seen.owner])
       ELSE Reads(c, [r EXCEPT !.step = "match", !.seen = NoOne])

\* Mutant of SafeToLink: the word of the provider is enough.
SafeToLinkByProvider(r, row) == r.trusted

SafeToLink(r, row) == r.trusted /\ row.verified

Match(c) ==
    LET r == identityCall[c]
        local == IF r.email = NoOne THEN {} ELSE FindByEmail(r.email)
        isolated == [r EXCEPT !.step = "create", !.email = r.subject]
    IN  /\ On(c, "match")
        /\ \/ \E a \in local : /\ SafeToLink(r, account[a])
                               /\ Reads(c, [r EXCEPT !.step = "avatar", !.user = a])
           \/ /\ \E a \in local : ~SafeToLink(r, account[a])
              /\ Reads(c, isolated)
           \/ /\ local = {} /\ r.email = NoOne
              /\ Reads(c, isolated)
           \/ /\ local = {} /\ r.email # NoOne
              /\ Reads(c, [r EXCEPT !.step = "create"])

\* Mutant of CreateIsolated: whoever holds the address is adopted.
CreateIsolatedAdopts(c) ==
    LET r == identityCall[c] IN
    /\ On(c, "create")
    /\ IF HolderOf(r.email) = {}
       THEN /\ \E a \in Account :
                 /\ MakeAccount(a, NewRow(r.email, SocialProvider(r.subject)), r.subject)
                 /\ GoOn(c, [r EXCEPT !.step = "persist", !.user = a], TRUE)
            /\ UNCHANGED <<joined, proven, begun>>
       ELSE \E a \in HolderOf(r.email) :
              Reads(c, [r EXCEPT !.step = "persist", !.user = a])

\* createIsolatedSocialUser: on a conflict, once more with the synthetic address.
CreateIsolated(c) ==
    LET r == identityCall[c] IN
    /\ On(c, "create")
    /\ IF HolderOf(r.email) = {}
       THEN /\ \E a \in Account :
                 /\ MakeAccount(a, NewRow(r.email, SocialProvider(r.subject)), r.subject)
                 /\ GoOn(c, [r EXCEPT !.step = "persist", !.user = a], TRUE)
            /\ UNCHANGED <<joined, proven, begun>>
       ELSE Reads(c, IF r.email = r.subject THEN [r EXCEPT !.step = "reuse"]
                     ELSE [r EXCEPT !.email = r.subject])

\* No other address is like a synthetic one: all but its _ is a digest.
Reusable(row, s) == row.source = SocialProvider(s) /\ ~row.password

Reuse(c) ==
    LET r == identityCall[c] IN
    /\ On(c, "reuse")
    /\ \E a \in HolderOf(r.subject) :
         /\ Reusable(account[a], r.subject)
         /\ Reads(c, [r EXCEPT !.step = "persist", !.user = a])

\* A picture came with the token and the user has none: the entity is saved.
\* A sign-in by a known subject is over then.
AvatarIfMissing(c) ==
    LET r == identityCall[c] IN
    /\ On(c, "avatar")
    /\ \/ /\ Exists(r.user)
          /\ Reads(c, [r EXCEPT !.step = "adopt", !.copy = account[r.user]])
       \/ Reads(c, IF r.seen = NoOne THEN [r EXCEPT !.step = "persist"] ELSE Idle0)

AdoptAvatar(c) ==
    LET r == identityCall[c] IN
    /\ On(c, "adopt")
    /\ Write(c, r.user, r.copy, IF r.seen = NoOne
                                THEN [r EXCEPT !.step = "persist", !.copy = NoOne]
                                ELSE Idle0)
    /\ UNCHANGED <<joined, everMade, proven, begun>>

-----------------------------------------------------------------------------
(* Identities are joined and unlinked.                                     *)

\* The foreign key wants the owner, the unique index a subject not joined yet.
Join(c, s, row, r) ==
    /\ joined[s] = NoOne
    /\ Exists(row.owner)
    /\ joined' = [joined EXCEPT ![s] = row]
    /\ GoOn(c, r, TRUE)
    /\ UNCHANGED <<account, everMade, proven, begun>>

\* The insert may come second: the sign-in is then for the owner of the row
\* that came first, and the link is refused unless that is its user.
PersistLink(c) ==
    LET r == identityCall[c]
        row == [owner |-> r.user,
                by |-> IF r.kind = "link" THEN "owner" ELSE "sign-in",
                through |-> IF r.email \in Address THEN r.email ELSE NoOne]
    IN  /\ On(c, "persist")
        /\ \/ Join(c, r.subject, row, Idle0)
           \/ joined[r.subject] # NoOne /\ Reads(c, Idle0)

\* save() of the row that was found: it is inserted again when it was unlinked.
Stamp(c) ==
    LET r == identityCall[c]
        next == IF r.kind = "link" THEN Idle0 ELSE [r EXCEPT !.step = "avatar"]
    IN  /\ On(c, "stamp")
        /\ \/ Join(c, r.subject, r.seen, next)
           \/ /\ joined[r.subject] # NoOne
              /\ joined[r.subject].owner = r.seen.owner
              /\ Reads(c, next)

\* "Connect account": refused when the subject is somebody else's.
LinkToUser(c, a, s) ==
    LET r == [Idle0 EXCEPT !.kind = "link", !.user = a, !.subject = s,
                           !.seen = joined[s]]
    IN  /\ Exists(a)
        /\ \/ joined[s] = NoOne /\ Arrives(c, [r EXCEPT !.step = "persist"])
           \/ /\ joined[s] # NoOne /\ joined[s].owner = a
              /\ Arrives(c, [r EXCEPT !.step = "stamp"])

\* getLinkedProviders
Linked(a) ==
    {SocialProvider(s) : s \in {s \in Subject : joined[s] # NoOne /\ joined[s].owner = a}}

\* Mutant of LeavesAMethod: the provider to be removed is counted.
LeavesAMethodNow(a, p) ==
    Linked(a) # {} \/ account[a].password

\* methodsAfterRemoval
LeavesAMethod(a, p) ==
    Linked(a) \ {p} # {} \/ account[a].password

UnlinkSocialProvider(c, a, s) ==
    /\ Exists(a)
    /\ SocialProvider(s) \in Linked(a)
    /\ LeavesAMethod(a, SocialProvider(s))
    /\ Arrives(c, [Idle0 EXCEPT !.kind = "unlink", !.step = "delete", !.user = a,
                                !.subject = s])

\* All rows of the user and the provider.
Unlink(c) ==
    LET r == identityCall[c] IN
    /\ On(c, "delete")
    /\ joined' = [s \in Subject |->
                    IF /\ joined[s] # NoOne
                       /\ joined[s].owner = r.user
                       /\ SocialProvider(s) = SocialProvider(r.subject)
                    THEN NoOne ELSE joined[s]]
    /\ GoOn(c, Idle0, TRUE)
    /\ UNCHANGED <<account, everMade, proven, begun>>

-----------------------------------------------------------------------------
(* The user's row is read, changed and saved.                              *)

\* Mutant of Begin: a change that nobody asked for is confirmed.
BeginUnasked(c, a, kind, e) ==
    /\ Exists(a)
    /\ kind = "verify" => account[a].code \in Address
    /\ kind = "request" => account[a].email # e
    /\ Arrives(c, [Idle0 EXCEPT !.kind = kind, !.user = a, !.copy = account[a],
                   !.email = IF kind = "request" THEN e ELSE NoOne,
                   !.step = IF kind = "request" THEN "staging" ELSE "save"])

\* Nobody reads the mail of a synthetic address.
Begin(c, a, kind, e) ==
    /\ Exists(a)
    /\ kind = "verify" => account[a].code \in Address
    /\ kind = "confirm" => account[a].pending # NoOne
    /\ kind = "request" => account[a].email # e
    /\ Arrives(c, [Idle0 EXCEPT !.kind = kind, !.user = a, !.copy = account[a],
                   !.email = IF kind = "request" THEN e ELSE NoOne,
                   !.step = IF kind = "request" THEN "staging" ELSE "save"])

\* requestEmailChange: an address that finds somebody else's account is not
\* staged, and the entity is saved all the same.
Staging(c) ==
    LET r == identityCall[c]
        found == FindByEmail(r.email)
    IN  /\ On(c, "staging")
        /\ \/ /\ found = {} \/ r.user \in found
              /\ Reads(c, [r EXCEPT !.step = "save", !.copy.pending = r.email])
           \/ /\ found \ {r.user} # {}
              /\ Reads(c, [r EXCEPT !.step = "save"])

\* resetPendingEmailFields
NothingPending(row) == [row EXCEPT !.pending = NoOne]

\* What each handler sets in the entity.  verifyEmail sets its code to
\* undefined, which save() skips.
Edited(r) ==
    CASE r.kind = "send"     -> [r.copy EXCEPT !.code = r.copy.email]
      [] r.kind = "verify"   -> [r.copy EXCEPT !.verified = TRUE,
                                   !.code = IF Exists(r.user) THEN account[r.user].code
                                            ELSE NoOne]
      [] r.kind = "password" -> [r.copy EXCEPT !.password = TRUE]
      [] r.kind = "confirm"  -> [NothingPending(r.copy) EXCEPT
                                   !.email = r.copy.pending, !.verified = TRUE]
      [] OTHER               -> r.copy

\* The mailbox a code that is entered shows.
Shows(r) ==
    IF r.kind = "verify" THEN {r.copy.code}
    ELSE IF r.kind = "confirm" THEN {r.copy.pending} ELSE {}

SaveAccount(c) ==
    LET r == identityCall[c] IN
    /\ On(c, "save")
    /\ Write(c, r.user, Edited(r), Idle0)
    /\ proven' = [proven EXCEPT ![r.user] = @ \cup Shows(r)]
    /\ UNCHANGED <<joined, everMade, begun>>

\* A code that is wrong, out of time or out of attempts.
WrongCode(c) ==
    LET r == identityCall[c] IN
    /\ On(c, "save")
    /\ r.kind = "confirm"
    /\ \/ Write(c, r.user, r.copy, Idle0)
       \/ Write(c, r.user, NothingPending(r.copy), Idle0)
    /\ UNCHANGED <<joined, everMade, proven, begun>>

\* The address was claimed between request and confirmation.
Clash(c) ==
    LET r == identityCall[c] IN
    /\ On(c, "save")
    /\ r.kind = "confirm"
    /\ ~CanWrite(r.user, Edited(r))
    /\ Exists(r.user)
    /\ Reads(c, [r EXCEPT !.step = "clear", !.copy = account[r.user], !.missed = FALSE])

ClearPending(c) ==
    LET r == identityCall[c] IN
    /\ On(c, "clear")
    /\ Write(c, r.user, NothingPending(r.copy), Idle0)
    /\ UNCHANGED <<joined, everMade, proven, begun>>

-----------------------------------------------------------------------------
IdentityNext ==
    \/ \E a \in Account : DeleteUser(a) \/ \E e \in Address : CreateUser(a, e)
    \/ \E c \in IdentityCall :
         \/ \E s \in Subject, v \in BOOLEAN :
              \E e \in Address \cup {NoOne} : SocialAuth(c, s, e, v)
         \/ \E s \in Subject, a \in Account :
              LinkToUser(c, a, s) \/ UnlinkSocialProvider(c, a, s)
         \/ \E a \in Account, kind \in {"profile", "send", "verify", "password", "confirm"} :
              Begin(c, a, kind, NoOne)
         \/ \E a \in Account, e \in Address : Begin(c, a, "request", e)
         \/ FindKnown(c) \/ Match(c) \/ CreateIsolated(c) \/ Reuse(c)
         \/ AvatarIfMissing(c) \/ AdoptAvatar(c) \/ PersistLink(c) \/ Stamp(c)
         \/ Unlink(c) \/ Staging(c) \/ SaveAccount(c) \/ WrongCode(c)
         \/ Clash(c) \/ ClearPending(c) \/ IdentityThrows(c)

IdentitySpec == IdentityInit /\ [][IdentityNext]_identityVars

-----------------------------------------------------------------------------
(* Properties.                                                             *)

\* Whether a mailbox of shown is found under e.
FoundUnder(e, shown) == e \in Address /\ Likes[e] \cap shown # {}

\* A subject that a sign-in joined to an account not made for it came with an
\* email under which a mailbox is found whose owner had entered a code for that
\* account: nobody gets the sign-ins of a person by signing up with the address
\* first and never proving it, nor by claiming it while the sign-in is under way
\* (resolveUser, "pre-hijack guard").
NoPreHijack ==
    \A s \in Subject :
        LET i == joined[s] IN
        i # NoOne /\ i.by = "sign-in" /\ everMade[i.owner] # s
            => FoundUnder(i.through, proven[i.owner])

\* The resolution policy as it is written (social-identity.service.ts:49-56, "no
\* silent cross-account merges", "email matches an existing user AND both provider
\* + local email verified"): the email a subject came with is the very one that
\* was proven for the account it was joined to.
LinkedByItsAddress ==
    \A s \in Subject :
        LET i == joined[s] IN
        i # NoOne /\ i.by = "sign-in" /\ everMade[i.owner] # s
            => i.through \in proven[i.owner]

\* The ways to sign in to an account.
WayIn(a) == Exists(a) /\ (Linked(a) # {} \/ account[a].password)

\* Who writes: the one request that was under way before and has moved on.
Writer(c) ==
    /\ identityCall[c].step \notin {"away", identityCall'[c].step}
    /\ ~identityCall[c].missed

\* Only a request that missed somebody else's write takes the last way into an
\* account, takes back an address that was shown to be its owner's, or brings
\* back an account or an identity that was deleted (unlinkSocialProvider,
\* usersRepo.save of an entity).
LateWriteUndoes ==
    \A c \in IdentityCall : Writer(c) =>
      \A a \in Account :
        /\ WayIn(a) /\ Exists(a)' => WayIn(a)'
        /\ Exists(a) /\ Exists(a)' /\ account[a].verified => account'[a].verified
        /\ ~Exists(a) /\ Exists(a)' => everMade[a] = "never"

OnlyLateWritesUndo == [][LateWriteUndoes]_identityVars

\* A user never removes the last remaining sign-in method (auth.service.ts:187).
AMethodRemains ==
    [][\A a \in Account : WayIn(a) /\ Exists(a)' => WayIn(a)']_identityVars

=============================================================================
