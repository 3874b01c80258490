----------------------------- MODULE SignInProofs -----------------------------
(* Proofs about AccountSessions, for any accounts, processes, sessions, nonces  *)
(* and requests, about SocialTokens, for any sign-ins and keys of Apple, and    *)
(* about the run that visits both (MCSignIns).                                  *)
EXTENDS MCSignIns, TLAPS

-------------------------------------------------------------------------------
(* The inductive invariant of sessions                                         *)

\* The operations a request may be at a point with.
OpsAt(pc) ==
    CASE pc \in {"claim", "claimed"} -> {"signIn"}
      [] pc = "exists"               -> Guarded \cup {"refresh"}
      [] pc = "account"              -> Guarded \cup {"refresh", "signIn"}
      [] pc = "row"                  -> Guarded \ {"logout"}
      [] pc = "store"                -> {"refresh", "upgrade", "logout"}
      [] pc = "storeRefresh"         -> {"logout"}
      [] pc = "issue"                -> {"refresh", "upgrade", "signIn"}
      [] pc = "saving"               -> {"touch", "revoke", "suspend", "reactivate", "delete", "leave"}
      [] pc = "deleting"             -> {"delete"}
      [] OTHER                       -> Op

\* The request is about an account; past the check of a token it has the token's
\* session, which was issued to that account.
WellFormed(r) ==
    /\ r.op \in OpsAt(r.pc)
    /\ r.pc # "idle" => r.user \in User
    /\ r.pc \in {"claim", "claimed"} => r.nonce \in Nonce
    /\ r.pc \in {"claim", "claimed"} \/ (r.pc = "account" /\ r.op = "signIn") => r.process \in Process
    /\ r.pc \in {"exists", "account", "row", "store", "storeRefresh", "issue"} /\ r.op # "signIn"
         => /\ r.process \in Process /\ r.session \in Session
            /\ sess[r.session] # None /\ sess[r.session].user = r.user
    /\ r.pc = "saving" => r.seen.exists

Base == TypeOK /\ \A q \in Request : WellFormed(request[q])

Descends(r) == r.op \in {"refresh", "upgrade"}

\* Of an account no save of which has overwritten what it had not read, the
\* version counts the revocations; a session and a request about to issue one
\* carry the version of the moment their sign-in read the account.
CountsRevocations ==
    \A u \in User \ clobbered : account[u].exists => account[u].sessionVersion = revocations[u]
SessionsKnow ==
    \A s \in Session : sess[s] # None /\ sess[s].user \notin clobbered /\ ~sess[s].upgraded
        => sess[s].sessionVersion = sess[s].knew
RequestKnows(r) ==
    r.user \notin clobbered =>
        /\ r.pc = "issue" /\ r.op = "signIn" => r.seen.sessionVersion = r.knew
        /\ r.pc \in {"store", "issue"} /\ r.op = "refresh"
             => r.seen.sessionVersion = sess[r.session].sessionVersion
VersionInv ==
    /\ CountsRevocations /\ SessionsKnow
    /\ \A q \in Request : RequestKnows(request[q])

\* A key is remembered by the process before it is told of, and shared, unless
\* Redis has failed, before the answer: so a request that presents a key spent
\* "here" finds it in the process's list and one spent "elsewhere" in Redis.
KeysRemembered == \A x \in spent : x[1] \in Process => x[2] \in local[x[1]]
KeysShared == outages = 0 => redisUp /\ \A x \in spent : x[2] \in redis
KeysKept(r, lists, shared, failures) ==
    /\ r.pc \in {"store", "storeRefresh"} \/ (r.pc = "issue" /\ Descends(r))
         => KeyOf(r) \in lists[r.process]
    /\ r.pc = "storeRefresh" => RefreshKey(r.session) \in lists[r.process]
    /\ failures = 0 /\ (r.pc = "storeRefresh" \/ (r.pc = "issue" /\ Descends(r)))
         => KeyOf(r) \in shared
    /\ r.pc = "exists" /\ r.late = "here" => r.locally
    /\ r.pc = "exists" /\ r.late = "elsewhere" /\ failures = 0 => KeyOf(r) \in shared
    /\ r.pc # "exists" => r.late = "no" \/ (r.late = "elsewhere" /\ failures > 0)
KeyInv ==
    /\ KeysRemembered /\ KeysShared
    /\ \A q \in Request : KeysKept(request[q], local, redis, outages)

\* While Redis has not failed, a nonce is claimed or accepted by one request, and
\* is in Redis from the claim on.
Claims(q, n) == request[q].pc = "claimed" /\ request[q].nonce = n
NonceInv ==
    outages = 0 =>
        /\ redisUp
        /\ \A n \in Nonce :
            /\ accepted[n] <= 1
            /\ accepted[n] = 1 => NonceKey(n) \in redis
            /\ \A q \in Request : Claims(q, n) => accepted[n] = 0 /\ NonceKey(n) \in redis
            /\ \A q, r \in Request : Claims(q, n) /\ Claims(r, n) => q = r

SessionInv == Base /\ VersionInv /\ KeyInv /\ NonceInv /\ SuspendedIffRestricted

-------------------------------------------------------------------------------
(* Types                                                                       *)

LEMMA IdleFits == Idle \in Errand /\ WellFormed(Idle)
<1>1. NoAccount \in Account
  BY DEF NoAccount, Account
<1>2. Idle \in Errand
  BY <1>1 DEF Idle, Errand, Op
<1>3. "signIn" \in OpsAt("idle")
  BY DEF OpsAt, Op
<1>4. WellFormed(Idle)
  BY <1>3 DEF Idle, WellFormed
<1> QED
  BY <1>2, <1>4

\* A step that replaces the record of one request, and issues sessions or none.
LEMMA RequestReplaced ==
    ASSUME Base, NEW q \in Request, NEW r \in Errand,
           request' = [request EXCEPT ![q] = r], WellFormed(r),
           UNCHANGED sess
    PROVE  request' \in [Request -> Errand] /\ \A x \in Request : WellFormed(request[x])'
  BY DEF Base, TypeOK, WellFormed

LEMMA BaseInit == Init => Base
<1> SUFFICES ASSUME Init PROVE Base
  OBVIOUS
<1>1. [NoAccount EXCEPT !.exists = TRUE] \in Account
  BY DEF NoAccount, Account
<1>2. account \in [User -> Account]
  BY <1>1 DEF Init
<1>3. request \in [Request -> Errand] /\ \A q \in Request : WellFormed(request[q])
  BY IdleFits DEF Init
<1>4. /\ restricted \subseteq User /\ redis \subseteq Key /\ redisUp \in BOOLEAN
      /\ sess \in [Session -> Tokens \cup {None}] /\ local \in [Process -> SUBSET Key]
      /\ started \in 0 .. MaxRequests /\ outages \in 0 .. MaxOutages
      /\ revocations \in [User -> Nat] /\ accepted \in [Nonce -> 0 .. 2]
      /\ clobbered \subseteq User /\ spent \subseteq (Process \cup {None}) \X Key
  BY SessionsAssumption DEF Init
<1> QED
  BY <1>2, <1>3, <1>4 DEF Base, TypeOK

Pc == {"idle", "claim", "claimed", "exists", "account", "row", "saving",
       "deleting", "store", "storeRefresh", "issue"}

\* A request's record at another point, and after it has read the account.
At(r, pc) == [r EXCEPT !.pc = pc]
Having(r, pc, a, k) == [r EXCEPT !.pc = pc, !.seen = a, !.knew = k]
SameRequest(n, r) ==
    /\ n.op = r.op /\ n.process = r.process /\ n.user = r.user /\ n.session = r.session
    /\ n.nonce = r.nonce /\ n.late = r.late

LEMMA AtFields ==
    ASSUME NEW r \in Errand, NEW pc \in Pc
    PROVE  /\ At(r, pc) \in Errand /\ At(r, pc).pc = pc /\ SameRequest(At(r, pc), r)
           /\ At(r, pc).seen = r.seen /\ At(r, pc).knew = r.knew
  BY DEF Errand, Pc, At, SameRequest

LEMMA HavingFields ==
    ASSUME NEW r \in Errand, NEW pc \in Pc, NEW a \in Account, NEW k \in Nat
    PROVE  /\ Having(r, pc, a, k) \in Errand /\ Having(r, pc, a, k).pc = pc
           /\ SameRequest(Having(r, pc, a, k), r)
           /\ Having(r, pc, a, k).seen = a /\ Having(r, pc, a, k).knew = k
  BY DEF Errand, Pc, Having, SameRequest

\* What an unchanged list of sessions and a replaced record leave to show.
LEMMA BaseOf ==
    ASSUME Base, NEW q \in Request, NEW r \in Errand,
           request' = [request EXCEPT ![q] = r], WellFormed(r), UNCHANGED sess,
           account' \in [User -> Account], restricted' \subseteq User,
           local' \in [Process -> SUBSET Key], redis' \subseteq Key, redisUp' \in BOOLEAN,
           started' \in 0 .. MaxRequests, outages' \in 0 .. MaxOutages,
           revocations' \in [User -> Nat], clobbered' \subseteq User,
           spent' \subseteq (Process \cup {None}) \X Key, accepted' \in [Nonce -> 0 .. 2]
    PROVE  Base'
<1>1. sess' \in [Session -> Tokens \cup {None}]
  BY DEF Base, TypeOK
<1> QED
  BY <1>1, RequestReplaced DEF Base, TypeOK

LEMMA RequestTypes ==
    ASSUME Base, NEW q \in Request
    PROVE  request[q] \in Errand /\ WellFormed(request[q])
  BY DEF Base, TypeOK

\* A request that starts.
LEMMA StartBase ==
    ASSUME Base, NEW q \in Request, NEW r \in Errand, Starts(q, r), WellFormed(r),
           UNCHANGED <<account, restricted, sess, local, redis, redisUp, outages,
                       revocations, clobbered, spent, accepted>>
    PROVE  Base'
<1>1. request' = [request EXCEPT ![q] = r] /\ started' \in 0 .. MaxRequests
  BY SessionsAssumption DEF Starts, Base, TypeOK
<1> QED
  BY <1>1, BaseOf DEF Base, TypeOK

\* A request that ends.
LEMMA EndBase ==
    ASSUME Base, NEW q \in Request, Ends(q), UNCHANGED <<sess, started, outages>>,
           account' \in [User -> Account], restricted' \subseteq User,
           local' \in [Process -> SUBSET Key], redis' \subseteq Key, redisUp' \in BOOLEAN,
           revocations' \in [User -> Nat], clobbered' \subseteq User,
           spent' \subseteq (Process \cup {None}) \X Key, accepted' \in [Nonce -> 0 .. 2]
    PROVE  Base'
<1>1. started' \in 0 .. MaxRequests /\ outages' \in 0 .. MaxOutages
  BY DEF Base, TypeOK
<1> QED
  BY <1>1, BaseOf, IdleFits DEF Ends

LEMMA LoginBase ==
    ASSUME Base, NEW q \in Request, NEW u \in User, Login(q, u)
    PROVE  Base'
<1> DEFINE r == [Idle EXCEPT !.pc = "issue", !.user = u, !.seen = account[u], !.knew = revocations[u]]
<1>1. account[u] \in Account /\ revocations[u] \in Nat
  BY DEF Base, TypeOK
<1>2. /\ r \in Errand /\ r.pc = "issue" /\ r.op = "signIn" /\ r.user = u
  BY <1>1, IdleFits DEF Errand, Idle
<1>3. WellFormed(r)
  BY <1>2 DEF WellFormed, OpsAt
<1>4. Starts(q, r)
  BY DEF Login
<1> QED
  BY <1>2, <1>3, <1>4, StartBase DEF Login

LEMMA SocialBase ==
    ASSUME Base, NEW q \in Request, NEW p \in Process, NEW u \in User, NEW n \in Nonce,
           SocialSignIn(q, p, u, n)
    PROVE  Base'
<1> DEFINE r == [Idle EXCEPT !.pc = "claim", !.process = p, !.user = u, !.nonce = n]
<1>1. /\ r \in Errand /\ r.pc = "claim" /\ r.op = "signIn" /\ r.user = u
      /\ r.process = p /\ r.nonce = n
  BY IdleFits DEF Errand, Idle
<1>3. WellFormed(r)
  BY <1>1 DEF WellFormed, OpsAt
<1>2. Starts(q, r)
  BY DEF SocialSignIn
<1> QED
  BY <1>1, <1>2, <1>3, StartBase DEF SocialSignIn

LEMMA PresentBase ==
    ASSUME Base, NEW q \in Request, NEW p \in Process, NEW s \in Session, NEW op \in Op,
           Present(q, p, s, op)
    PROVE  Base'
<1> DEFINE x == [Idle EXCEPT !.pc = "exists", !.op = op, !.process = p,
                             !.user = sess[s].user, !.session = s]
           b == KeyOf(x) \in local[p]
           l == Lateness(p, KeyOf(x))
           r == [x EXCEPT !.locally = b, !.late = l]
<1>1. sess[s] # None /\ sess[s].user \in User
  BY DEF Present, Base, TypeOK, Tokens
<1>2. b \in BOOLEAN /\ l \in {"no", "elsewhere", "here"}
  BY DEF Lateness
<1>3. /\ x \in Errand /\ x.pc = "exists" /\ x.op = op /\ x.user = sess[s].user
      /\ x.process = p /\ x.session = s
  BY <1>1, IdleFits DEF Errand, Idle
<1>4. Starts(q, r)
  BY DEF Present
<1> HIDE DEF x, b, l
<1>5. /\ r \in Errand /\ r.pc = "exists" /\ r.op = op /\ r.user = sess[s].user
      /\ r.process = p /\ r.session = s
  BY <1>2, <1>3 DEF Errand
<1>6. WellFormed(r)
  BY <1>1, <1>5 DEF WellFormed, OpsAt, Present
<1> QED
  BY <1>4, <1>5, <1>6, StartBase DEF Present

LEMMA TakeBase ==
    ASSUME Base, NEW q \in Request, NEW u \in User,
           NEW op \in {"touch", "revoke", "suspend", "reactivate", "delete"}, Take(q, u, op)
    PROVE  Base'
<1> DEFINE r == [Idle EXCEPT !.pc = "saving", !.op = op, !.user = u,
                             !.seen = account[u], !.knew = revocations[u]]
<1>1. account[u] \in Account /\ revocations[u] \in Nat /\ op \in Op /\ "saving" \in Pc
  BY DEF Base, TypeOK, Op, Pc
<1>2. r \in Errand /\ r.pc = "saving" /\ r.op = op /\ r.user = u /\ r.seen = account[u]
  BY <1>1, IdleFits DEF Errand, Idle
<1>3. WellFormed(r)
  BY <1>2 DEF WellFormed, OpsAt, Take
<1>4. Starts(q, r)
  BY DEF Take
<1> QED
  BY <1>2, <1>3, <1>4, StartBase DEF Take

LEMMA KeyTypes ==
    /\ \A s \in Session : AccessKey(s) \in Key /\ RefreshKey(s) \in Key
    /\ \A n \in Nonce : NonceKey(n) \in Key
  BY DEF Key

LEMMA KeyOfType ==
    ASSUME NEW r \in Errand, r.session \in Session
    PROVE  KeyOf(r) \in Key
  BY KeyTypes DEF KeyOf

\* A request that reads the account it is about.
LEMMA SeesAs ==
    ASSUME Base, NEW q \in Request, NEW pc \in Pc, request[q].user \in User,
           Sees(q, pc, request[q].user)
    PROVE  LET r == Having(request[q], pc, account[request[q].user], revocations[request[q].user])
           IN  request' = [request EXCEPT ![q] = r] /\ r \in Errand
<1>1. /\ account[request[q].user] \in Account /\ revocations[request[q].user] \in Nat
      /\ request[q] \in Errand
  BY DEF Base, TypeOK
<1>2. request' = [request EXCEPT ![q] =
         Having(request[q], pc, account[request[q].user], revocations[request[q].user])]
  BY DEF Sees, Having
<1> QED
  BY <1>1, <1>2, HavingFields

LEMMA NonceBase ==
    ASSUME Base, NEW q \in Request, ClaimNonce(q) \/ NonceAccepted(q)
    PROVE  Base'
<1>1. /\ request[q] \in Errand /\ WellFormed(request[q])
      /\ request[q].pc \in {"claim", "claimed"} /\ request[q].user \in User
      /\ request[q].op = "signIn"
      /\ request[q].nonce \in Nonce /\ request[q].process \in Process
  BY RequestTypes DEF ClaimNonce, NonceAccepted, WellFormed, OpsAt
<1>2. NonceKey(request[q].nonce) \in Key
  BY <1>1, KeyTypes
<1>3. "claimed" \in Pc /\ "account" \in Pc
  BY DEF Pc
<1>4. CASE ClaimNonce(q)
  <2> DEFINE r == At(request[q], "claimed")
  <2>1. request' = [request EXCEPT ![q] = r]
    BY <1>4 DEF ClaimNonce, Goes, At
  <2>2. r \in Errand /\ WellFormed(r)
    BY <1>1, <1>3, AtFields DEF WellFormed, OpsAt, SameRequest
  <2>3. redis' \subseteq Key
    BY <1>2, <1>4 DEF ClaimNonce, Base, TypeOK
  <2> QED
    BY <1>4, <2>1, <2>2, <2>3, BaseOf DEF ClaimNonce, Base, TypeOK
<1>5. CASE NonceAccepted(q)
  <2> DEFINE r == At(request[q], "account")
  <2>1. request' = [request EXCEPT ![q] = r]
    BY <1>5 DEF NonceAccepted, Goes, At
  <2>2. r \in Errand /\ WellFormed(r)
    BY <1>1, <1>3, AtFields DEF WellFormed, OpsAt, SameRequest
  <2>3. local' \in [Process -> SUBSET Key]
    BY <1>1, <1>2, <1>5 DEF NonceAccepted, Remember, Base, TypeOK
  <2>4. accepted' \in [Nonce -> 0 .. 2]
    BY <1>1, <1>5 DEF NonceAccepted, Base, TypeOK
  <2> QED
    BY <1>5, <2>1, <2>2, <2>3, <2>4, BaseOf DEF NonceAccepted, Base, TypeOK
<1> QED
  BY <1>4, <1>5

LEMMA ResolveBase ==
    ASSUME Base, NEW q \in Request, Resolve(q)
    PROVE  Base'
<1>1. /\ request[q].user \in User /\ request[q].op = "signIn" /\ "issue" \in Pc
      /\ request[q] \in Errand
  BY RequestTypes DEF Resolve, WellFormed, Pc
<1> DEFINE r == Having(request[q], "issue", account[request[q].user], revocations[request[q].user])
<1>2. /\ account[request[q].user] \in Account /\ revocations[request[q].user] \in Nat
  BY <1>1 DEF Base, TypeOK
<1>3. request' = [request EXCEPT ![q] = r] /\ r \in Errand
  BY <1>1, SeesAs DEF Resolve
<1>4. WellFormed(r)
  BY <1>1, <1>2, HavingFields DEF WellFormed, OpsAt, SameRequest
<1> QED
  BY <1>3, <1>4, BaseOf DEF Resolve, Base, TypeOK

\* What IssueSession writes.
Pair(r) ==
    [user |-> r.user, sessionVersion |-> r.seen.sessionVersion,
     knew |-> IF Descends(r) THEN sess[r.session].knew ELSE r.knew,
     upgraded |-> r.op = "upgrade" \/ (r.op = "refresh" /\ sess[r.session].upgraded)]

LEMMA IssuedTokens ==
    ASSUME Base, NEW q \in Request, request[q].pc = "issue"
    PROVE  /\ Pair(request[q]) \in Tokens /\ request[q].user \in User
           /\ Descends(request[q]) =>
                  request[q].process \in Process /\ request[q].session \in Session
<1>1. /\ request[q] \in Errand /\ request[q].user \in User
      /\ request[q].op \in {"refresh", "upgrade", "signIn"}
      /\ request[q].op # "signIn" =>
            /\ request[q].process \in Process /\ request[q].session \in Session
            /\ sess[request[q].session] # None
  BY RequestTypes DEF WellFormed, OpsAt
<1>2. request[q].op # "signIn" => sess[request[q].session] \in Tokens
  BY <1>1 DEF Base, TypeOK
<1>3. request[q].seen.sessionVersion \in Nat /\ request[q].knew \in Nat
  BY <1>1 DEF Errand, Account
<1>4. Descends(request[q]) => sess[request[q].session].knew \in Nat
  BY <1>1, <1>2 DEF Descends, Tokens
<1> QED
  BY <1>1, <1>3, <1>4 DEF Pair, Tokens, Descends

LEMMA IssueBase ==
    ASSUME Base, NEW q \in Request, NEW s \in Session, IssueSession(q, s)
    PROVE  Base'
<1>1. request[q].pc = "issue" /\ sess[s] = None /\ sess' = [sess EXCEPT ![s] = Pair(request[q])]
  BY DEF IssueSession, Pair, Descends
<1>2. Pair(request[q]) \in Tokens /\ request[q] \in Errand
  BY <1>1, IssuedTokens, RequestTypes
<1>3. sess' \in [Session -> Tokens \cup {None}]
  BY <1>1, <1>2 DEF Base, TypeOK
<1>4. spent' \subseteq (Process \cup {None}) \X Key
  <2>1. Descends(request[q]) => KeyOf(request[q]) \in Key /\ request[q].process \in Process
    BY <1>1, <1>2, IssuedTokens, KeyOfType
  <2> QED
    BY <2>1 DEF IssueSession, Descends, Base, TypeOK
<1>5. request' \in [Request -> Errand]
  BY IdleFits DEF IssueSession, Ends, Base, TypeOK
<1>6. ASSUME NEW x \in Request
      PROVE  WellFormed(request[x])'
  <2>1. CASE x = q
    BY <2>1, IdleFits DEF IssueSession, Ends, Base, TypeOK, WellFormed, Idle
  <2>2. CASE x # q
    <3>1. request'[x] = request[x] /\ WellFormed(request[x])
      BY <2>2, RequestTypes DEF IssueSession, Ends, Base, TypeOK
    <3>2. \A z \in Session : sess[z] # None => sess'[z] = sess[z]
      BY <1>1 DEF Base, TypeOK
    <3> QED
      BY <3>1, <3>2 DEF WellFormed
  <2> QED
    BY <2>1, <2>2
<1> QED
  BY <1>3, <1>4, <1>5, <1>6 DEF IssueSession, Base, TypeOK

\* The points of a request that came with a token.
WithToken == {"exists", "account", "row", "store", "storeRefresh", "issue"}

\* What is known of the request that presents a token.
LEMMA Bearer ==
    ASSUME Base, NEW q \in Request, request[q].pc \in WithToken, request[q].op # "signIn"
    PROVE  /\ request[q] \in Errand /\ request[q].user \in User /\ request[q].process \in Process
           /\ request[q].session \in Session /\ sess[request[q].session] # None
           /\ sess[request[q].session].user = request[q].user
           /\ request[q].op \in OpsAt(request[q].pc)
           /\ KeyOf(request[q]) \in Key /\ RefreshKey(request[q].session) \in Key
           /\ AccessKey(request[q].session) \in Key
<1>1. request[q] \in Errand /\ WellFormed(request[q])
  BY RequestTypes
<1>2. /\ request[q].user \in User /\ request[q].process \in Process
      /\ request[q].session \in Session /\ sess[request[q].session] # None
      /\ sess[request[q].session].user = request[q].user
      /\ request[q].op \in OpsAt(request[q].pc)
  BY <1>1 DEF WellFormed, WithToken
<1> QED
  BY <1>1, <1>2, KeyTypes, KeyOfType

\* It goes on with the same token.
LEMMA BearerFits ==
    ASSUME Base, NEW q \in Request, request[q].pc \in WithToken, request[q].op # "signIn",
           NEW pc \in WithToken \cup {"saving"}, request[q].op \in OpsAt(pc),
           NEW r \in Errand, r.pc = pc, SameRequest(r, request[q]), pc = "saving" => r.seen.exists
    PROVE  WellFormed(r)
  BY Bearer DEF WellFormed, WithToken, SameRequest

LEMMA GoesAs ==
    ASSUME Base, NEW q \in Request, NEW pc \in Pc, Goes(q, pc)
    PROVE  /\ request' = [request EXCEPT ![q] = At(request[q], pc)]
           /\ At(request[q], pc) \in Errand /\ At(request[q], pc).pc = pc
           /\ SameRequest(At(request[q], pc), request[q])
<1>1. request[q] \in Errand
  BY RequestTypes
<1> QED
  BY <1>1, AtFields DEF Goes, At

LEMMA RememberTypes ==
    ASSUME Base, NEW p \in Process, NEW k \in Key, Remember(p, k)
    PROVE  local' \in [Process -> SUBSET Key]
  BY DEF Base, TypeOK, Remember

\* The operations past the guard are no sign-ins.
LEMMA NoSignIn ==
    /\ "signIn" \notin Guarded /\ Guarded \subseteq Op
    /\ "logout" \in Guarded /\ "upgrade" \in Guarded
  BY SessionsAssumption DEF Guarded, Op

LEMMA CheckBase ==
    ASSUME Base, NEW q \in Request, CheckBlacklist(q)
    PROVE  Base'
<1>1. CASE Listed(request[q])
  BY <1>1, EndBase DEF CheckBlacklist, Base, TypeOK
<1>2. CASE ~Listed(request[q])
  <2> DEFINE r == [request[q] EXCEPT !.pc = "account", !.locally = FALSE]
  <2>1. request' = [request EXCEPT ![q] = r]
    BY <1>2 DEF CheckBlacklist
  <2>2. request[q].op # "signIn" /\ request[q].pc \in WithToken
    BY NoSignIn, RequestTypes DEF CheckBlacklist, WellFormed, OpsAt, WithToken
  <2>3. request[q] \in Errand /\ request[q].op \in OpsAt("account") /\ "account" \in WithToken
    BY RequestTypes DEF CheckBlacklist, WellFormed, OpsAt, WithToken
  <2>4. r \in Errand /\ r.pc = "account" /\ SameRequest(r, request[q])
    BY <2>3 DEF Errand, SameRequest
  <2>5. WellFormed(r)
    BY <2>2, <2>3, <2>4, BearerFits
  <2> QED
    BY <2>1, <2>4, <2>5, BaseOf DEF CheckBlacklist, Base, TypeOK
<1> QED
  BY <1>1, <1>2

LEMMA RefuseBase ==
    ASSUME Base, NEW q \in Request, Refuse(q) \/ Abandon(q)
    PROVE  Base'
  BY EndBase DEF Refuse, Abandon, Base, TypeOK

LEMMA RefreshBase ==
    ASSUME Base, NEW q \in Request, Refresh(q) \/ UpgradeSession(q)
    PROVE  Base'
<1>1. request[q].pc \in WithToken /\ request[q].op \in {"refresh", "upgrade"}
  BY DEF Refresh, UpgradeSession, WithToken
<1>2. request[q].user \in User /\ request[q].process \in Process /\ KeyOf(request[q]) \in Key
  BY <1>1, Bearer
<1>3. CASE Ends(q) /\ UNCHANGED <<started, account, restricted, sess, local, redis, redisUp,
                               outages, revocations, clobbered, spent, accepted>>
  BY <1>3, EndBase DEF Base, TypeOK
<1>4. CASE Remember(request[q].process, KeyOf(request[q])) /\ Sees(q, "store", request[q].user)
  <2> DEFINE r == Having(request[q], "store", account[request[q].user],
                         revocations[request[q].user])
  <2>1. /\ request[q] \in Errand /\ account[request[q].user] \in Account
        /\ revocations[request[q].user] \in Nat /\ "store" \in Pc
    BY <1>2 DEF Base, TypeOK, Pc
  <2>2. request' = [request EXCEPT ![q] = r]
    BY <1>2, <1>4, <2>1, SeesAs
  <2>3. r \in Errand /\ r.pc = "store" /\ SameRequest(r, request[q])
    BY <2>1, HavingFields
  <2>4. WellFormed(r)
    BY <1>1, <2>3, BearerFits DEF OpsAt, WithToken
  <2>5. local' \in [Process -> SUBSET Key]
    BY <1>2, <1>4, RememberTypes
  <2> QED
    BY <2>2, <2>3, <2>4, <2>5, BaseOf DEF Refresh, UpgradeSession, Base, TypeOK
<1> QED
  BY <1>3, <1>4 DEF Refresh, UpgradeSession

LEMMA AdmitBase ==
    ASSUME Base, NEW q \in Request, Admit(q)
    PROVE  Base'
<1>1. request[q].pc \in WithToken /\ request[q].op # "signIn" /\ request[q].op \in Guarded
  BY NoSignIn DEF Admit, WithToken
<1>2. request[q].process \in Process /\ KeyOf(request[q]) \in Key
  BY <1>1, Bearer
<1>3. CASE request[q].op = "logout"
  <2> DEFINE r == At(request[q], "store")
  <2>1. /\ request' = [request EXCEPT ![q] = r] /\ r \in Errand /\ r.pc = "store"
        /\ SameRequest(r, request[q])
    BY <1>3, GoesAs DEF Admit, Pc
  <2>2. WellFormed(r)
    BY <1>1, <1>3, <2>1, BearerFits DEF OpsAt, WithToken
  <2>3. local' \in [Process -> SUBSET Key]
    BY <1>2, <1>3, RememberTypes DEF Admit
  <2> QED
    BY <2>1, <2>2, <2>3, BaseOf DEF Admit, Base, TypeOK
<1>4. CASE request[q].op # "logout"
  <2> DEFINE r == At(request[q], "row")
  <2>1. /\ request' = [request EXCEPT ![q] = r] /\ r \in Errand /\ r.pc = "row"
        /\ SameRequest(r, request[q])
    BY <1>4, GoesAs DEF Admit, Pc
  <2>2. WellFormed(r)
    BY <1>1, <1>4, <2>1, BearerFits DEF OpsAt, WithToken
  <2> QED
    BY <1>4, <2>1, <2>2, BaseOf DEF Admit, Base, TypeOK
<1> QED
  BY <1>3, <1>4

LEMMA StoreBase ==
    ASSUME Base, NEW q \in Request, StoreKey(q)
    PROVE  Base'
<1>1. /\ request[q].pc \in WithToken /\ request[q].op # "signIn"
      /\ request[q].op \in {"refresh", "upgrade", "logout"}
  BY RequestTypes DEF StoreKey, WellFormed, OpsAt, WithToken
<1>2. /\ request[q].process \in Process /\ KeyOf(request[q]) \in Key
      /\ RefreshKey(request[q].session) \in Key
  BY <1>1, Bearer
<1>3. redis' \subseteq Key
  BY <1>2 DEF StoreKey, Shared, Base, TypeOK
<1>4. CASE request[q].op = "logout"
  <2> DEFINE r == At(request[q], "storeRefresh")
  <2>1. /\ request' = [request EXCEPT ![q] = r] /\ r \in Errand /\ r.pc = "storeRefresh"
        /\ SameRequest(r, request[q])
    BY <1>4, GoesAs DEF StoreKey, Pc
  <2>2. WellFormed(r)
    BY <1>1, <1>4, <2>1, BearerFits DEF OpsAt, WithToken
  <2>3. local' \in [Process -> SUBSET Key]
    BY <1>2, <1>4, RememberTypes DEF StoreKey
  <2> QED
    BY <1>3, <2>1, <2>2, <2>3, BaseOf DEF StoreKey, Base, TypeOK
<1>5. CASE request[q].op # "logout"
  <2> DEFINE r == At(request[q], "issue")
  <2>1. /\ request' = [request EXCEPT ![q] = r] /\ r \in Errand /\ r.pc = "issue"
        /\ SameRequest(r, request[q])
    BY <1>5, GoesAs DEF StoreKey, Pc
  <2>2. WellFormed(r)
    BY <1>1, <1>5, <2>1, BearerFits DEF OpsAt, WithToken
  <2> QED
    BY <1>3, <1>5, <2>1, <2>2, BaseOf DEF StoreKey, Base, TypeOK
<1> QED
  BY <1>4, <1>5

LEMMA LogoutBase ==
    ASSUME Base, NEW q \in Request, LoggedOutOfAccess(q) \/ LoggedOut(q)
    PROVE  Base'
<1>1. request[q].pc \in WithToken /\ request[q].op = "logout"
  BY RequestTypes DEF LoggedOutOfAccess, LoggedOut, WellFormed, OpsAt, WithToken
<1>2. /\ request[q].process \in Process /\ KeyOf(request[q]) \in Key
      /\ RefreshKey(request[q].session) \in Key /\ AccessKey(request[q].session) \in Key
  BY <1>1, Bearer
<1>3. redis' \subseteq Key
  BY <1>2 DEF LoggedOutOfAccess, LoggedOut, Shared, Base, TypeOK
<1>4. spent' \subseteq (Process \cup {None}) \X Key
  BY <1>2 DEF LoggedOutOfAccess, LoggedOut, Base, TypeOK
<1> QED
  BY <1>3, <1>4, EndBase DEF LoggedOutOfAccess, LoggedOut, Base, TypeOK

LEMMA ReadBase ==
    ASSUME Base, NEW q \in Request, ReadRow(q)
    PROVE  Base'
<1>1. /\ request[q].pc \in WithToken /\ request[q].op \in {"touch", "revoke", "leave"}
      /\ request[q].op # "signIn"
  BY DEF ReadRow, WithToken
<1>2. request[q].user \in User
  BY <1>1, Bearer
<1>3. CASE ~account[request[q].user].exists
  BY <1>3, EndBase DEF ReadRow, Base, TypeOK
<1>4. CASE account[request[q].user].exists
  <2> DEFINE r == Having(request[q], "saving", account[request[q].user],
                         revocations[request[q].user])
  <2>1. /\ request[q] \in Errand /\ account[request[q].user] \in Account
        /\ revocations[request[q].user] \in Nat /\ "saving" \in Pc
    BY <1>2, RequestTypes DEF Base, TypeOK, Pc
  <2>2. request' = [request EXCEPT ![q] = r]
    BY <1>2, <1>4, <2>1, SeesAs DEF ReadRow
  <2>3. /\ r \in Errand /\ r.pc = "saving" /\ SameRequest(r, request[q])
        /\ r.seen = account[request[q].user]
    BY <2>1, HavingFields
  <2>4. WellFormed(r)
    BY <1>1, <1>4, <2>3, BearerFits DEF OpsAt
  <2> QED
    BY <2>2, <2>3, <2>4, BaseOf DEF ReadRow, Base, TypeOK
<1> QED
  BY <1>3, <1>4

\* What is known of a request that saves the row it has read.
LEMMA Saver ==
    ASSUME Base, NEW q \in Request, request[q].pc \in {"saving", "deleting"}
    PROVE  /\ request[q] \in Errand /\ request[q].user \in User /\ request[q].seen \in Account
           /\ request[q].pc = "saving" => request[q].seen.exists
           /\ request[q].seen.sessionVersion \in Nat
           /\ revocations[request[q].user] \in Nat
           /\ account[request[q].user] \in Account
  BY RequestTypes DEF WellFormed, Errand, Account, Base, TypeOK

\* Replacing an account by the row that was read, with a version or a flag changed.
LEMMA SavedRow ==
    ASSUME NEW a \in Account, NEW b \in BOOLEAN
    PROVE  /\ [a EXCEPT !.sessionVersion = a.sessionVersion + 1] \in Account
           /\ [a EXCEPT !.sessionVersion = a.sessionVersion + 1, !.isSuspended = b] \in Account
           /\ [a EXCEPT !.isSuspended = b] \in Account
           /\ NoAccount \in Account
<1>1. [a EXCEPT !.sessionVersion = a.sessionVersion + 1] \in Account
  BY DEF Account
<1>2. [a EXCEPT !.isSuspended = b] \in Account
  BY Zenon DEF Account
<1>3. [a EXCEPT !.sessionVersion = a.sessionVersion + 1, !.isSuspended = b] \in Account
  BY <1>1, Zenon DEF Account
<1>4. NoAccount \in Account
  BY DEF Account, NoAccount
<1> QED
  BY <1>1, <1>2, <1>3, <1>4

LEMMA SaveBase ==
    ASSUME Base, NEW q \in Request,
           SaveTouched(q) \/ SaveRevoked(q) \/ SaveSuspended(q) \/ SaveReactivated(q)
    PROVE  Base'
<1>1. request[q].pc \in {"saving", "deleting"}
  BY DEF SaveTouched, SaveRevoked, SaveSuspended, SaveReactivated
<1>2. /\ request[q].user \in User /\ request[q].seen \in Account
      /\ revocations[request[q].user] \in Nat
  BY <1>1, Saver
<1>3. account' \in [User -> Account]
  BY <1>2, SavedRow DEF SaveTouched, SaveRevoked, SaveSuspended, SaveReactivated, Base, TypeOK
<1>4. restricted' \subseteq User /\ clobbered' \subseteq User
  BY <1>2 DEF SaveTouched, SaveRevoked, SaveSuspended, SaveReactivated, Overwrites, Base, TypeOK
<1>5. revocations' \in [User -> Nat]
  BY <1>2 DEF SaveTouched, SaveRevoked, SaveSuspended, SaveReactivated, Revokes, Base, TypeOK
<1> QED
  BY <1>3, <1>4, <1>5, EndBase
     DEF SaveTouched, SaveRevoked, SaveSuspended, SaveReactivated, Base, TypeOK

LEMMA EraseBase ==
    ASSUME Base, NEW q \in Request, EndSessions(q) \/ DeleteUser(q)
    PROVE  Base'
<1>1. request[q].pc \in {"saving", "deleting"}
  BY DEF EndSessions, DeleteUser
<1>2. /\ request[q] \in Errand /\ request[q].user \in User /\ request[q].seen \in Account
      /\ revocations[request[q].user] \in Nat /\ account[request[q].user] \in Account
      /\ request[q].seen.sessionVersion \in Nat
  BY <1>1, Saver
<1>3. restricted' \subseteq User /\ clobbered' \subseteq User
  BY <1>2 DEF EndSessions, DeleteUser, Overwrites, Base, TypeOK
<1>4. revocations' \in [User -> Nat]
  BY <1>2 DEF EndSessions, DeleteUser, Revokes, Base, TypeOK
<1>5. CASE EndSessions(q)
  <2> DEFINE r == At(request[q], "deleting")
  <2>1. /\ request' = [request EXCEPT ![q] = r] /\ r \in Errand /\ r.pc = "deleting"
        /\ SameRequest(r, request[q]) /\ request[q].op = "delete"
    BY <1>5, GoesAs DEF EndSessions, Pc
  <2>2. WellFormed(r)
    BY <1>2, <2>1 DEF WellFormed, OpsAt, SameRequest
  <2>3. [account[request[q].user] EXCEPT !.sessionVersion = request[q].seen.sessionVersion + 1]
          \in Account
    BY <1>2 DEF Account
  <2>4. account' \in [User -> Account]
    BY <1>2, <1>5, <2>3 DEF EndSessions, Base, TypeOK
  <2> QED
    BY <1>3, <1>4, <1>5, <2>1, <2>2, <2>4, BaseOf DEF EndSessions, Base, TypeOK
<1>6. CASE DeleteUser(q)
  <2>1. account' \in [User -> Account]
    BY <1>2, <1>6, SavedRow DEF DeleteUser, Base, TypeOK
  <2> QED
    BY <1>3, <1>4, <1>6, <2>1, EndBase DEF DeleteUser, Base, TypeOK
<1> QED
  BY <1>5, <1>6

LEMMA RestartBase ==
    ASSUME Base, NEW p \in Process, Restart(p)
    PROVE  Base'
<1>1. request' \in [Request -> Errand]
  BY IdleFits DEF Restart, Base, TypeOK
<1>2. \A x \in Request : WellFormed(request[x])'
  BY IdleFits DEF Restart, Base, TypeOK, WellFormed
<1>3. spent' \subseteq (Process \cup {None}) \X Key
  BY DEF Restart, Base, TypeOK
<1>4. local' \in [Process -> SUBSET Key]
  BY DEF Restart, Base, TypeOK
<1> QED
  BY <1>1, <1>2, <1>3, <1>4 DEF Restart, Base, TypeOK

LEMMA RedisBase ==
    ASSUME Base, RedisFails \/ RedisReturns
    PROVE  Base'
<1>1. outages' \in 0 .. MaxOutages
  <2>1. outages \in 0 .. MaxOutages /\ MaxOutages \in Nat
    BY SessionsAssumption DEF Base, TypeOK
  <2> QED
    BY <2>1 DEF RedisFails, RedisReturns
<1>3. redisUp' \in BOOLEAN
  BY DEF RedisFails, RedisReturns
<1>2. \A x \in Request : WellFormed(request[x])'
  BY DEF RedisFails, RedisReturns, Base, WellFormed
<1> QED
  BY <1>1, <1>2, <1>3 DEF RedisFails, RedisReturns, Base, TypeOK

LEMMA BaseStep == Base /\ [Next]_vars => Base'
<1> SUFFICES ASSUME Base, [Next]_vars PROVE Base'
  OBVIOUS
<1>1. ASSUME NEW q \in Request, SignInStep(q) PROVE Base'
  BY <1>1, LoginBase, SocialBase, NonceBase, ResolveBase, IssueBase DEF SignInStep
<1>2. ASSUME NEW q \in Request, TokenStep(q) PROVE Base'
  BY <1>2, PresentBase, CheckBase, RefuseBase, RefreshBase, AdmitBase, StoreBase, LogoutBase
     DEF TokenStep
<1>3. ASSUME NEW q \in Request, RowStep(q) PROVE Base'
  BY <1>3, ReadBase, TakeBase, SaveBase, EraseBase
     DEF RowStep, ResetPassword, UpdateUser, SuspendUser, ReactivateUser, EraseAccount
<1>4. ASSUME NEW q \in Request, Abandon(q) PROVE Base'
  BY <1>4, RefuseBase
<1>5. CASE UNCHANGED vars
  BY <1>5 DEF vars, Base, TypeOK, WellFormed
<1> QED
  BY <1>1, <1>2, <1>3, <1>4, <1>5, RestartBase, RedisBase DEF Next

-------------------------------------------------------------------------------
(* Versions                                                                    *)

LEMMA VersionInit == Init => VersionInv /\ SuspendedIffRestricted
  BY DEF Init, VersionInv, CountsRevocations, SessionsKnow, RequestKnows, Idle, NoAccount,
         SuspendedIffRestricted

\* A step that replaces one request's record and issues no session.
LEMMA VersionMove ==
    ASSUME Base, VersionInv, NEW q \in Request, NEW r \in Errand,
           request' = [request EXCEPT ![q] = r], RequestKnows(r),
           UNCHANGED sess, clobbered \subseteq clobbered', CountsRevocations'
    PROVE  VersionInv'
<1>1. SessionsKnow'
  BY DEF VersionInv, SessionsKnow
<1>2. \A x \in Request : RequestKnows(request[x])'
  BY DEF VersionInv, RequestKnows, Base, TypeOK
<1> QED
  BY <1>1, <1>2 DEF VersionInv

\* It knows nothing at a point where it is not about to issue a session.
LEMMA KnowsNothing ==
    ASSUME NEW r \in Errand, r.pc \notin {"store", "issue"}
    PROVE  RequestKnows(r)
  BY DEF RequestKnows

LEMMA RowsKept ==
    ASSUME VersionInv, UNCHANGED <<account, revocations, clobbered>>
    PROVE  CountsRevocations' /\ clobbered \subseteq clobbered'
  BY DEF VersionInv, CountsRevocations

LEMMA VersionEnd ==
    ASSUME Base, VersionInv, NEW q \in Request, Ends(q),
           UNCHANGED sess, clobbered \subseteq clobbered', CountsRevocations'
    PROVE  VersionInv'
<1>1. RequestKnows(Idle)
  BY IdleFits, KnowsNothing DEF Idle
<1> QED
  BY <1>1, IdleFits, VersionMove DEF Ends

\* The account of a request that reads it counts its revocations.
LEMMA ReadsCurrent ==
    ASSUME Base, VersionInv, NEW u \in User \ clobbered, account[u].exists
    PROVE  account[u].sessionVersion = revocations[u]
  BY DEF VersionInv, CountsRevocations

LEMMA LoginVersion ==
    ASSUME Base, VersionInv, NEW q \in Request, NEW u \in User, Login(q, u)
    PROVE  VersionInv'
<1> DEFINE r == [Idle EXCEPT !.pc = "issue", !.user = u, !.seen = account[u], !.knew = revocations[u]]
<1>1. account[u] \in Account /\ revocations[u] \in Nat /\ account[u].exists
  BY DEF Base, TypeOK, Login, MaySignIn
<1>2. /\ r \in Errand /\ r.pc = "issue" /\ r.op = "signIn" /\ r.user = u
      /\ r.seen = account[u] /\ r.knew = revocations[u]
  BY <1>1, IdleFits DEF Errand, Idle
<1>3. RequestKnows(r)
  BY <1>1, <1>2, ReadsCurrent DEF RequestKnows
<1>4. request' = [request EXCEPT ![q] = r]
  BY DEF Login, Starts
<1> QED
  BY <1>2, <1>3, <1>4, VersionMove, RowsKept DEF Login

LEMMA ResolveVersion ==
    ASSUME Base, VersionInv, NEW q \in Request, Resolve(q)
    PROVE  VersionInv'
<1> DEFINE u == request[q].user
           r == Having(request[q], "issue", account[u], revocations[u])
<1>1. u \in User /\ request[q].op = "signIn" /\ "issue" \in Pc /\ request[q] \in Errand
  BY RequestTypes DEF Resolve, WellFormed, Pc
<1>2. account[u] \in Account /\ revocations[u] \in Nat /\ account[u].exists
  BY <1>1 DEF Base, TypeOK, Resolve, MaySignIn
<1>3. /\ request' = [request EXCEPT ![q] = r] /\ r \in Errand /\ SameRequest(r, request[q])
      /\ r.seen = account[u] /\ r.knew = revocations[u]
  BY <1>1, <1>2, SeesAs, HavingFields DEF Resolve
<1>4. RequestKnows(r)
  BY <1>1, <1>2, <1>3, ReadsCurrent DEF RequestKnows, SameRequest
<1> QED
  BY <1>3, <1>4, VersionMove, RowsKept DEF Resolve

\* refresh compares the versions as it reads; what it read stays the session's.
LEMMA RefreshVersion ==
    ASSUME Base, VersionInv, NEW q \in Request, Refresh(q) \/ UpgradeSession(q)
    PROVE  VersionInv'
<1> DEFINE u == request[q].user
           r == Having(request[q], "store", account[u], revocations[u])
<1>1. /\ u \in User /\ request[q].op \in {"refresh", "upgrade"} /\ "store" \in Pc
      /\ request[q] \in Errand /\ request[q].session \in Session
      /\ sess[request[q].session].user = u
  BY Bearer DEF Refresh, UpgradeSession, Pc, WithToken
<1>2. account[u] \in Account /\ revocations[u] \in Nat
  BY <1>1 DEF Base, TypeOK
<1>3. CASE Ends(q)
  BY <1>3, VersionEnd, RowsKept DEF Refresh, UpgradeSession
<1>4. CASE Sees(q, "store", u)
  <2>1. /\ request' = [request EXCEPT ![q] = r] /\ r \in Errand /\ SameRequest(r, request[q])
        /\ r.seen = account[u] /\ r.knew = revocations[u]
    BY <1>1, <1>2, <1>4, SeesAs, HavingFields
  <2>2. request[q].op = "refresh"
          => account[u].sessionVersion = sess[request[q].session].sessionVersion
    BY <1>1 DEF Refresh, UpgradeSession, Holds
  <2>3. RequestKnows(r)
    BY <1>1, <2>1, <2>2 DEF RequestKnows, SameRequest
  <2> QED
    BY <2>1, <2>3, VersionMove, RowsKept DEF Refresh, UpgradeSession
<1> QED
  BY <1>3, <1>4 DEF Refresh, UpgradeSession

LEMMA StoreVersion ==
    ASSUME Base, VersionInv, NEW q \in Request, StoreKey(q)
    PROVE  VersionInv'
<1>1. request[q].op \in {"refresh", "upgrade", "logout"} /\ request[q].pc = "store"
  BY RequestTypes DEF StoreKey, WellFormed, OpsAt
<1>2. PICK pc \in {"storeRefresh", "issue"} : Goes(q, pc)
  BY DEF StoreKey
<1> DEFINE r == At(request[q], pc)
<1>3. /\ request' = [request EXCEPT ![q] = r] /\ r \in Errand /\ r.pc = pc
      /\ SameRequest(r, request[q]) /\ r.seen = request[q].seen
  BY <1>2, GoesAs, RequestTypes, AtFields DEF Pc
<1>4. RequestKnows(r)
  BY <1>1, <1>2, <1>3 DEF RequestKnows, SameRequest, VersionInv
<1> QED
  BY <1>3, <1>4, VersionMove, RowsKept DEF StoreKey

LEMMA IssueVersion ==
    ASSUME Base, VersionInv, NEW q \in Request, NEW s \in Session, IssueSession(q, s)
    PROVE  VersionInv'
<1>1. request[q].pc = "issue" /\ sess[s] = None /\ sess' = [sess EXCEPT ![s] = Pair(request[q])]
  BY DEF IssueSession, Pair, Descends
<1>2. /\ request[q] \in Errand /\ request[q].op \in {"refresh", "upgrade", "signIn"}
      /\ request[q].op # "signIn" =>
            /\ request[q].session \in Session /\ sess[request[q].session] # None
            /\ sess[request[q].session].user = request[q].user
  BY <1>1, RequestTypes DEF WellFormed, OpsAt
<1> DEFINE n == Pair(request[q])
<1>3. n.user = request[q].user /\ n.sessionVersion = request[q].seen.sessionVersion
  BY DEF Pair
<1>4. n.user \notin clobbered /\ ~n.upgraded => n.sessionVersion = n.knew
  <2>1. CASE request[q].op = "signIn"
    BY <1>1, <2>1 DEF Pair, Descends, VersionInv, RequestKnows
  <2>2. CASE request[q].op = "refresh"
    <3> DEFINE z == request[q].session
    <3>1. request[q].user \notin clobbered => request[q].seen.sessionVersion = sess[z].sessionVersion
      BY <1>1, <2>2 DEF VersionInv, RequestKnows
    <3>2. request[q].user \notin clobbered /\ ~sess[z].upgraded => sess[z].sessionVersion = sess[z].knew
      BY <1>2, <2>2 DEF VersionInv, SessionsKnow
    <3> QED
      BY <2>2, <3>1, <3>2 DEF Pair, Descends
  <2>3. CASE request[q].op = "upgrade"
    BY <2>3 DEF Pair
  <2> QED
    BY <1>2, <2>1, <2>2, <2>3
<1> HIDE DEF n
<1>5. SessionsKnow'
  BY <1>1, <1>4 DEF VersionInv, SessionsKnow, IssueSession, Base, TypeOK, n
<1>6. ASSUME NEW x \in Request
      PROVE  RequestKnows(request[x])'
  <2>1. CASE x = q
    BY <2>1 DEF IssueSession, Ends, Base, TypeOK, RequestKnows, Idle
  <2>2. CASE x # q
    <3>1. request'[x] = request[x] /\ WellFormed(request[x]) /\ RequestKnows(request[x])
      BY <2>2, RequestTypes DEF IssueSession, Ends, Base, TypeOK, VersionInv
    <3>2. \A z \in Session : sess[z] # None => sess'[z] = sess[z]
      BY <1>1 DEF Base, TypeOK
    <3>3. request[x].pc \in {"store", "issue"} /\ request[x].op = "refresh"
            => request[x].session \in Session /\ sess[request[x].session] # None
      BY <3>1 DEF WellFormed
    <3> QED
      BY <3>1, <3>2, <3>3 DEF RequestKnows, IssueSession
  <2> QED
    BY <2>1, <2>2
<1> QED
  BY <1>5, <1>6, RowsKept DEF IssueSession, VersionInv

\* The steps that start, claim, check or pass on, and issue nothing next.
LEMMA OtherVersion ==
    ASSUME Base, VersionInv, NEW q \in Request, NEW r \in Errand,
           request' = [request EXCEPT ![q] = r], r.pc \notin {"store", "issue"},
           UNCHANGED <<account, sess, revocations, clobbered>>
    PROVE  VersionInv'
  BY VersionMove, KnowsNothing, RowsKept

LEMMA StartVersion ==
    ASSUME Base, VersionInv, Base', NEW q \in Request,
           \/ \E p \in Process, u \in User, n \in Nonce : SocialSignIn(q, p, u, n)
           \/ \E p \in Process, s \in Session, op \in Op : Present(q, p, s, op)
           \/ \E u \in User, op \in Op : Take(q, u, op)
    PROVE  VersionInv'
<1>1. PICK r : Starts(q, r) /\ r.pc \in {"claim", "exists", "saving"}
  <2>1. ASSUME NEW p \in Process, NEW u \in User, NEW n \in Nonce, SocialSignIn(q, p, u, n)
        PROVE  \E r : Starts(q, r) /\ r.pc \in {"claim", "exists", "saving"}
    <3>1. [Idle EXCEPT !.pc = "claim", !.process = p, !.user = u, !.nonce = n].pc = "claim"
      BY DEF Idle
    <3> QED
      BY <2>1, <3>1 DEF SocialSignIn
  <2>2. ASSUME NEW p \in Process, NEW s \in Session, NEW op \in Op, Present(q, p, s, op)
        PROVE  \E r : Starts(q, r) /\ r.pc \in {"claim", "exists", "saving"}
    <3> DEFINE x == [Idle EXCEPT !.pc = "exists", !.op = op, !.process = p,
                                 !.user = sess[s].user, !.session = s]
               y == [x EXCEPT !.locally = KeyOf(x) \in local[p],
                              !.late = Lateness(p, KeyOf(x))]
    <3>1. Starts(q, y)
      BY <2>2 DEF Present
    <3>2. x.pc = "exists" /\ DOMAIN x = DOMAIN Idle
      BY DEF Idle
    <3>3. y.pc = x.pc
      BY <3>2, Zenon DEF Idle
    <3> QED
      BY <3>1, <3>2, <3>3
  <2>3. ASSUME NEW u \in User, NEW op \in Op, Take(q, u, op)
        PROVE  \E r : Starts(q, r) /\ r.pc \in {"claim", "exists", "saving"}
    <3>1. [Idle EXCEPT !.pc = "saving", !.op = op, !.user = u,
                       !.seen = account[u], !.knew = revocations[u]].pc = "saving"
      BY DEF Idle
    <3> QED
      BY <2>3, <3>1 DEF Take
  <2> QED
    BY <2>1, <2>2, <2>3
<1>2. request' = [request EXCEPT ![q] = r] /\ r \in Errand
  BY <1>1 DEF Starts, Base, TypeOK
<1> QED
  BY <1>1, <1>2, OtherVersion DEF SocialSignIn, Present, Take

LEMMA PassVersion ==
    ASSUME Base, VersionInv, NEW q \in Request,
           ClaimNonce(q) \/ NonceAccepted(q) \/ CheckBlacklist(q) \/ Admit(q) \/ ReadRow(q)
    PROVE  VersionInv'
<1>1. CASE Ends(q)
  BY <1>1, VersionEnd, RowsKept DEF ClaimNonce, NonceAccepted, CheckBlacklist, Admit, ReadRow
<1>2. CASE \E pc \in {"claimed", "account", "row"} : Goes(q, pc)
  BY <1>2, GoesAs, OtherVersion DEF ClaimNonce, NonceAccepted, CheckBlacklist, Admit, ReadRow, Pc
<1>3. CASE Goes(q, "store") /\ request[q].op = "logout"
  <2>1. RequestKnows(At(request[q], "store"))
    BY <1>3, GoesAs DEF RequestKnows, SameRequest, Pc
  <2> QED
    BY <1>3, <2>1, GoesAs, VersionMove, RowsKept
       DEF ClaimNonce, NonceAccepted, CheckBlacklist, Admit, ReadRow, Pc
<1>4. CASE CheckBlacklist(q) /\ ~Listed(request[q])
  <2> DEFINE r == [request[q] EXCEPT !.pc = "account", !.locally = FALSE]
  <2>1. r \in Errand /\ r.pc = "account"
    BY RequestTypes DEF Errand
  <2>2. request' = [request EXCEPT ![q] = r]
    BY <1>4 DEF CheckBlacklist
  <2> QED
    BY <1>4, <2>1, <2>2, OtherVersion DEF CheckBlacklist
<1>5. CASE ReadRow(q) /\ Sees(q, "saving", request[q].user)
  <2>1. /\ request[q].user \in User /\ request[q] \in Errand
        /\ account[request[q].user] \in Account /\ revocations[request[q].user] \in Nat
    BY <1>5, RequestTypes DEF ReadRow, WellFormed, Base, TypeOK
  <2> DEFINE r == Having(request[q], "saving", account[request[q].user],
                         revocations[request[q].user])
  <2>2. "saving" \in Pc
    BY DEF Pc
  <2>3. request' = [request EXCEPT ![q] = r] /\ r \in Errand /\ r.pc = "saving"
    BY <1>5, <2>1, <2>2, SeesAs, HavingFields
  <2> QED
    BY <1>5, <2>3, OtherVersion DEF ReadRow
<1> QED
  BY <1>1, <1>2, <1>3, <1>4, <1>5
     DEF ClaimNonce, NonceAccepted, CheckBlacklist, Admit, ReadRow

LEMMA EndVersion ==
    ASSUME Base, VersionInv, NEW q \in Request,
           Refuse(q) \/ Abandon(q) \/ LoggedOutOfAccess(q) \/ LoggedOut(q)
    PROVE  VersionInv'
  BY VersionEnd, RowsKept DEF Refuse, Abandon, LoggedOutOfAccess, LoggedOut

\* A save of the row that was read, when nothing changed it in between, raises
\* the version with the count; another marks the account as overwritten.
LEMMA SaveVersion ==
    ASSUME Base, VersionInv, NEW q \in Request,
           \/ SaveTouched(q) \/ SaveRevoked(q) \/ SaveSuspended(q) \/ SaveReactivated(q)
           \/ EndSessions(q) \/ DeleteUser(q)
    PROVE  CountsRevocations' /\ clobbered \subseteq clobbered'
<1> DEFINE u == request[q].user
           a == request[q].seen
<1>1. request[q].pc \in {"saving", "deleting"}
  BY DEF SaveTouched, SaveRevoked, SaveSuspended, SaveReactivated, EndSessions, DeleteUser
<1>2. /\ u \in User /\ a \in Account /\ revocations[u] \in Nat /\ account[u] \in Account
      /\ request[q].pc = "saving" => a.exists
  BY <1>1, Saver
<1>3. /\ \A w \in User \ {u} : account'[w] = account[w] /\ revocations'[w] = revocations[w]
      /\ clobbered \subseteq clobbered'
  BY <1>2 DEF SaveTouched, SaveRevoked, SaveSuspended, SaveReactivated, EndSessions, DeleteUser,
              Overwrites, Revokes, Base, TypeOK
<1>4. u \notin clobbered' /\ account'[u].exists
        => account'[u].sessionVersion = revocations'[u]
  <2>1. CASE DeleteUser(q)
    BY <1>2, <2>1 DEF DeleteUser, Base, TypeOK, NoAccount
  <2>2. CASE SaveTouched(q) \/ SaveReactivated(q)
    <3>1. u \notin clobbered' => account[u] = a /\ u \notin clobbered
      BY <2>2 DEF SaveTouched, SaveReactivated, Overwrites
    <3>2. account'[u].sessionVersion = a.sessionVersion /\ revocations'[u] = revocations[u]
      BY <1>2, <2>2 DEF SaveTouched, SaveReactivated, Base, TypeOK, Account
    <3> QED
      BY <1>1, <1>2, <2>2, <3>1, <3>2, ReadsCurrent DEF SaveTouched, SaveReactivated
  <2>3. CASE SaveRevoked(q) \/ SaveSuspended(q) \/ EndSessions(q)
    <3>1. /\ u \notin clobbered' => account[u] = a /\ u \notin clobbered
          /\ revocations'[u] = revocations[u] + 1
      BY <1>2, <2>3 DEF SaveRevoked, SaveSuspended, EndSessions, Overwrites, Revokes, Base, TypeOK
    <3>2. a.exists
      BY <1>2, <2>3 DEF SaveRevoked, SaveSuspended, EndSessions
    <3>3. CASE SaveRevoked(q) \/ SaveSuspended(q)
      <4>1. account'[u].sessionVersion = a.sessionVersion + 1
        <5>1. CASE SaveRevoked(q)
          BY <1>2, <5>1 DEF SaveRevoked, Base, TypeOK, Account
        <5>2. CASE SaveSuspended(q)
          BY <1>2, <5>2 DEF SaveSuspended, Base, TypeOK, Account
        <5> QED
          BY <3>3, <5>1, <5>2
      <4> QED
        BY <1>2, <3>1, <3>2, <4>1, ReadsCurrent
    <3>4. CASE EndSessions(q)
      <4>1. account[u].exists => account'[u].sessionVersion = a.sessionVersion + 1
        BY <1>2, <3>4 DEF EndSessions, Base, TypeOK, Account
      <4> QED
        BY <1>2, <3>1, <3>2, <4>1, ReadsCurrent
    <3> QED
      BY <2>3, <3>3, <3>4
  <2> QED
    BY <2>1, <2>2, <2>3
<1> QED
  BY <1>2, <1>3, <1>4 DEF VersionInv, CountsRevocations

LEMMA SaveStepVersion ==
    ASSUME Base, VersionInv, NEW q \in Request,
           \/ SaveTouched(q) \/ SaveRevoked(q) \/ SaveSuspended(q) \/ SaveReactivated(q)
           \/ EndSessions(q) \/ DeleteUser(q)
    PROVE  VersionInv'
<1>1. CountsRevocations' /\ clobbered \subseteq clobbered' /\ UNCHANGED sess
  BY SaveVersion
     DEF SaveTouched, SaveRevoked, SaveSuspended, SaveReactivated, EndSessions, DeleteUser
<1>2. CASE Ends(q)
  BY <1>1, <1>2, VersionEnd
<1>3. CASE Goes(q, "deleting")
  <2>1. RequestKnows(At(request[q], "deleting"))
    BY <1>3, GoesAs, KnowsNothing DEF Pc
  <2> QED
    BY <1>1, <1>3, <2>1, GoesAs, VersionMove DEF Pc
<1> QED
  BY <1>2, <1>3
     DEF SaveTouched, SaveRevoked, SaveSuspended, SaveReactivated, EndSessions, DeleteUser

LEMMA SurroundingsVersion ==
    ASSUME Base, VersionInv,
           (\E p \in Process : Restart(p)) \/ RedisFails \/ RedisReturns \/ UNCHANGED vars
    PROVE  VersionInv'
<1>1. /\ UNCHANGED <<account, sess, revocations, clobbered>>
      /\ \A x \in Request : request'[x] = request[x] \/ request'[x] = Idle
  BY DEF Restart, RedisFails, RedisReturns, vars, Base, TypeOK
<1>2. \A x \in Request : RequestKnows(request[x])'
  BY <1>1 DEF VersionInv, RequestKnows, Idle
<1> QED
  BY <1>1, <1>2 DEF VersionInv, CountsRevocations, SessionsKnow

LEMMA VersionStep == Base /\ VersionInv /\ [Next]_vars => VersionInv'
<1> SUFFICES ASSUME Base, VersionInv, [Next]_vars, Base' PROVE VersionInv'
  BY BaseStep
<1>1. ASSUME NEW q \in Request, SignInStep(q) PROVE VersionInv'
  BY <1>1, LoginVersion, StartVersion, PassVersion, ResolveVersion, IssueVersion DEF SignInStep
<1>2. ASSUME NEW q \in Request, TokenStep(q) PROVE VersionInv'
  BY <1>2, StartVersion, PassVersion, EndVersion, RefreshVersion, StoreVersion DEF TokenStep
<1>3. ASSUME NEW q \in Request, RowStep(q) PROVE VersionInv'
  <2>1. ASSUME NEW u \in User,
               \/ ResetPassword(q, u) \/ UpdateUser(q, u) \/ SuspendUser(q, u)
               \/ ReactivateUser(q, u) \/ EraseAccount(q, u)
        PROVE  \E op \in Op : Take(q, u, op)
    BY <2>1 DEF ResetPassword, UpdateUser, SuspendUser, ReactivateUser, EraseAccount, Op
  <2> QED
    BY <1>3, <2>1, StartVersion, PassVersion, SaveStepVersion DEF RowStep
<1>4. ASSUME NEW q \in Request, Abandon(q) PROVE VersionInv'
  BY <1>4, EndVersion
<1> QED
  BY <1>1, <1>2, <1>3, <1>4, SurroundingsVersion DEF Next

\* An account is suspended while it has a restriction: the two are saved together.
LEMMA SuspendedStep == Base /\ SuspendedIffRestricted /\ [Next]_vars => SuspendedIffRestricted'
<1> SUFFICES ASSUME Base, SuspendedIffRestricted, [Next]_vars PROVE SuspendedIffRestricted'
  OBVIOUS
<1>1. CASE UNCHANGED <<account, restricted, clobbered>>
  BY <1>1 DEF SuspendedIffRestricted
<1>2. ASSUME NEW q \in Request,
             \/ SaveTouched(q) \/ SaveRevoked(q) \/ SaveSuspended(q) \/ SaveReactivated(q)
             \/ EndSessions(q) \/ DeleteUser(q)
      PROVE  SuspendedIffRestricted'
  <2> DEFINE u == request[q].user
  <2>1. u \in User /\ account[u] \in Account /\ request[q].seen \in Account
    BY <1>2, Saver
       DEF SaveTouched, SaveRevoked, SaveSuspended, SaveReactivated, EndSessions, DeleteUser
  <2>2. /\ \A w \in User \ {u} : account'[w] = account[w] /\ (w \in restricted' <=> w \in restricted)
        /\ clobbered \subseteq clobbered'
    BY <1>2, <2>1 DEF SaveTouched, SaveRevoked, SaveSuspended, SaveReactivated, EndSessions,
              DeleteUser, Overwrites, Base, TypeOK
  <2>3. u \notin clobbered' => (account'[u].isSuspended <=> u \in restricted')
    <3>1. ~DeleteUser(q) /\ u \notin clobbered' => account[u] = request[q].seen
      BY <1>2 DEF SaveTouched, SaveRevoked, SaveSuspended, SaveReactivated, EndSessions, Overwrites
    <3>2. CASE SaveTouched(q)
      BY <2>1, <2>2, <3>1, <3>2 DEF SaveTouched, Overwrites, SuspendedIffRestricted, Base, TypeOK
    <3>3. CASE SaveRevoked(q)
      BY <2>1, <2>2, <3>1, <3>3
         DEF SaveRevoked, Overwrites, SuspendedIffRestricted, Base, TypeOK, Account
    <3>4. CASE SaveSuspended(q)
      BY <2>1, <3>4 DEF SaveSuspended, Base, TypeOK, Account
    <3>5. CASE SaveReactivated(q)
      BY <2>1, <3>5 DEF SaveReactivated, Base, TypeOK, Account
    <3>6. CASE EndSessions(q)
      BY <2>1, <2>2, <3>6
         DEF EndSessions, Overwrites, SuspendedIffRestricted, Base, TypeOK, Account
    <3>7. CASE DeleteUser(q)
      BY <2>1, <3>7 DEF DeleteUser, NoAccount, Base, TypeOK
    <3> QED
      BY <1>2, <3>2, <3>3, <3>4, <3>5, <3>6, <3>7
  <2> QED
    BY <2>1, <2>2, <2>3 DEF SuspendedIffRestricted
<1>3. ASSUME NEW q \in Request, SignInStep(q) \/ TokenStep(q) \/ Abandon(q)
      PROVE  UNCHANGED <<account, restricted, clobbered>>
  BY <1>3 DEF SignInStep, Login, SocialSignIn, ClaimNonce, NonceAccepted, Resolve, IssueSession,
              TokenStep, Present, CheckBlacklist, Refuse, Refresh, Admit, UpgradeSession, StoreKey,
              LoggedOutOfAccess, LoggedOut, Abandon
<1>4. ASSUME NEW q \in Request, RowStep(q)
      PROVE  SuspendedIffRestricted'
  BY <1>1, <1>2, <1>4 DEF RowStep, ReadRow, ResetPassword, UpdateUser, SuspendUser,
              ReactivateUser, EraseAccount, Take
<1>5. CASE (\E p \in Process : Restart(p)) \/ RedisFails \/ RedisReturns \/ UNCHANGED vars
  BY <1>1, <1>5 DEF Restart, RedisFails, RedisReturns, vars
<1> QED
  BY <1>1, <1>3, <1>4, <1>5 DEF Next

-------------------------------------------------------------------------------
(* Keys of tokens                                                              *)

LEMMA IdleKeys == \A lists, shared, failures : KeysKept(Idle, lists, shared, failures)
  BY DEF KeysKept, Idle, Descends

LEMMA KeyInit == Init => KeyInv
  BY IdleKeys DEF Init, KeyInv, KeysRemembered, KeysShared

\* Lists only grow while a process runs, and Redis fails once for good.
LEMMA KeysGrow ==
    ASSUME Base, NEW q \in Request, KeysKept(request[q], local, redis, outages),
           \A p \in Process : local[p] \subseteq local'[p], redis \subseteq redis',
           outages' = outages
    PROVE  KeysKept(request[q], local', redis', outages')
<1>1. request[q].pc \in {"store", "storeRefresh"} \/ (request[q].pc = "issue" /\ Descends(request[q]))
        => request[q].process \in Process
  BY RequestTypes DEF WellFormed, OpsAt, Descends
<1>2. request[q].pc = "storeRefresh" => request[q].pc \in {"store", "storeRefresh"}
  OBVIOUS
<1> QED
  BY <1>1, <1>2 DEF KeysKept

\* A step that replaces one request's record and gives up no token.
LEMMA KeyMove ==
    ASSUME Base, KeyInv, NEW q \in Request, NEW r \in Errand,
           request' = [request EXCEPT ![q] = r], KeysKept(r, local', redis', outages'),
           \A p \in Process : local[p] \subseteq local'[p], redis \subseteq redis',
           UNCHANGED <<redisUp, outages, spent>>
    PROVE  KeyInv'
<1>1. \A x \in Request : KeysKept(request'[x], local', redis', outages')
  BY KeysGrow DEF KeyInv, Base, TypeOK
<1>2. KeysRemembered' /\ KeysShared'
  BY DEF KeyInv, KeysRemembered, KeysShared
<1> QED
  BY <1>1, <1>2 DEF KeyInv

GivesUp(q, K) == spent' = spent \cup {<<request[q].process, k>> : k \in K}

\* One that answers, and gives up keys that are remembered and shared.
LEMMA KeySpent ==
    ASSUME Base, KeyInv, NEW q \in Request, Ends(q),
           \A p \in Process : local[p] \subseteq local'[p], redis \subseteq redis',
           UNCHANGED <<redisUp, outages>>,
           NEW K, GivesUp(q, K),
           \A k \in K : k \in local'[request[q].process] /\ (outages = 0 => k \in redis')
    PROVE  KeyInv'
<1>1. \A x \in Request : KeysKept(request'[x], local', redis', outages')
  BY KeysGrow, IdleKeys DEF KeyInv, Ends, Base, TypeOK
<1>2. KeysRemembered'
  BY DEF KeyInv, KeysRemembered, GivesUp
<1>3. KeysShared'
  BY DEF KeyInv, KeysShared, GivesUp
<1> QED
  BY <1>1, <1>2, <1>3 DEF KeyInv

LEMMA KeyEnd ==
    ASSUME Base, KeyInv, NEW q \in Request, Ends(q), UNCHANGED <<local, redis, redisUp, outages, spent>>
    PROVE  KeyInv'
  BY IdleFits, IdleKeys, KeyMove DEF Ends

LEMMA RemembersMore ==
    ASSUME Base, NEW p \in Process, NEW k \in Key, Remember(p, k)
    PROVE  (\A x \in Process : local[x] \subseteq local'[x]) /\ k \in local'[p]
  BY DEF Remember, Base, TypeOK

LEMMA SharesMore ==
    ASSUME NEW k, Shared(k)
    PROVE  redis \subseteq redis' /\ (redisUp => k \in redis')
  BY DEF Shared

LEMMA PresentKeys ==
    ASSUME Base, KeyInv, NEW q \in Request, NEW p \in Process, NEW s \in Session, NEW op \in Op,
           Present(q, p, s, op)
    PROVE  KeyInv'
<1> DEFINE x == [Idle EXCEPT !.pc = "exists", !.op = op, !.process = p,
                             !.user = sess[s].user, !.session = s]
           b == KeyOf(x) \in local[p]
           l == Lateness(p, KeyOf(x))
           r == [x EXCEPT !.locally = b, !.late = l]
<1>1. sess[s] # None /\ sess[s].user \in User
  BY DEF Present, Base, TypeOK, Tokens
<1>2. b \in BOOLEAN /\ l \in {"no", "elsewhere", "here"}
  BY DEF Lateness
<1>3. /\ x \in Errand /\ x.pc = "exists" /\ x.op = op /\ x.user = sess[s].user
      /\ x.process = p /\ x.session = s
  BY <1>1, IdleFits DEF Errand, Idle
<1>4. Starts(q, r)
  BY DEF Present
<1>5. l = "here" => b
  BY DEF Lateness, KeyInv, KeysRemembered
<1>6. l = "elsewhere" /\ outages = 0 => KeyOf(x) \in redis
  BY DEF Lateness, KeyInv, KeysShared
<1> HIDE DEF x, b, l
<1>7. /\ r \in Errand /\ r.pc = "exists" /\ r.op = x.op /\ r.process = p /\ r.session = x.session
      /\ r.late = l
  BY <1>2, <1>3 DEF Errand
<1>8. r.locally <=> b
  BY <1>2, <1>3, Zenon DEF Errand
<1>9. KeyOf(r) = KeyOf(x)
  BY <1>7 DEF KeyOf
<1>10. KeysKept(r, local, redis, outages)
  BY <1>5, <1>6, <1>7, <1>8, <1>9 DEF KeysKept
<1> QED
  BY <1>4, <1>7, <1>10, KeyMove DEF Present, Starts

\* The list of the process and Redis are asked: a key that was given up is found,
\* or Redis has failed.
LEMMA CheckKeys ==
    ASSUME Base, KeyInv, NEW q \in Request, CheckBlacklist(q)
    PROVE  KeyInv'
<1>1. CASE Listed(request[q])
  BY <1>1, KeyEnd DEF CheckBlacklist
<1>2. CASE ~Listed(request[q])
  <2> DEFINE r == [request[q] EXCEPT !.pc = "account", !.locally = FALSE]
  <2>1. request' = [request EXCEPT ![q] = r]
    BY <1>2 DEF CheckBlacklist
  <2>2. request[q] \in Errand /\ request[q].late \in {"no", "elsewhere", "here"}
    BY RequestTypes DEF Errand
  <2>3. r \in Errand /\ r.pc = "account" /\ r.late = request[q].late
    BY <2>2 DEF Errand
  <2>4. request[q].late # "here"
    BY <1>2 DEF CheckBlacklist, Listed, KeyInv, KeysKept
  <2>5. request[q].late = "elsewhere" => outages # 0
    BY <1>2 DEF CheckBlacklist, Listed, KeyInv, KeysShared, KeysKept
  <2>6. KeysKept(r, local, redis, outages)
    BY <2>2, <2>3, <2>4, <2>5 DEF KeysKept, Base, TypeOK
  <2> QED
    BY <2>1, <2>3, <2>6, KeyMove DEF CheckBlacklist
<1> QED
  BY <1>1, <1>2

\* A request that goes on from a point past the check to another one.
LEMMA LateKept ==
    ASSUME KeyInv, NEW q \in Request, request[q].pc # "exists"
    PROVE  request[q].late = "no" \/ (request[q].late = "elsewhere" /\ outages > 0)
  BY DEF KeyInv, KeysKept

LEMMA PassKeys ==
    ASSUME Base, KeyInv, NEW q \in Request, NEW r \in Errand,
           request' = [request EXCEPT ![q] = r], request[q].pc # "exists",
           r.late = request[q].late, r.pc \notin {"exists", "store", "storeRefresh", "issue"},
           \A p \in Process : local[p] \subseteq local'[p], redis \subseteq redis',
           UNCHANGED <<redisUp, outages, spent>>
    PROVE  KeyInv'
<1>1. KeysKept(r, local', redis', outages')
  BY LateKept DEF KeysKept
<1> QED
  BY <1>1, KeyMove

LEMMA NonceKeys ==
    ASSUME Base, KeyInv, NEW q \in Request, ClaimNonce(q) \/ NonceAccepted(q)
    PROVE  KeyInv'
<1>1. /\ request[q] \in Errand /\ request[q].pc \in {"claim", "claimed"}
      /\ request[q].nonce \in Nonce /\ request[q].process \in Process
      /\ "claimed" \in Pc /\ "account" \in Pc
  BY RequestTypes DEF ClaimNonce, NonceAccepted, WellFormed, OpsAt, Pc
<1>2. NonceKey(request[q].nonce) \in Key
  BY <1>1, KeyTypes
<1>3. CASE ClaimNonce(q)
  BY <1>1, <1>3, GoesAs, PassKeys DEF ClaimNonce, SameRequest
<1>4. CASE NonceAccepted(q)
  BY <1>1, <1>2, <1>4, GoesAs, PassKeys, RemembersMore DEF NonceAccepted, SameRequest
<1> QED
  BY <1>3, <1>4

LEMMA SameKeys ==
    ASSUME NEW r, NEW n, SameRequest(n, r)
    PROVE  KeyOf(n) = KeyOf(r) /\ n.process = r.process /\ n.late = r.late /\ n.op = r.op
           /\ n.session = r.session
  BY DEF SameRequest, KeyOf

LEMMA RefreshKeys ==
    ASSUME Base, KeyInv, NEW q \in Request, Refresh(q) \/ UpgradeSession(q)
    PROVE  KeyInv'
<1> DEFINE u == request[q].user
           r == Having(request[q], "store", account[u], revocations[u])
<1>1. /\ u \in User /\ "store" \in Pc /\ request[q] \in Errand /\ request[q].process \in Process
      /\ KeyOf(request[q]) \in Key /\ request[q].pc # "exists"
  BY Bearer DEF Refresh, UpgradeSession, Pc, WithToken
<1>2. account[u] \in Account /\ revocations[u] \in Nat
  BY <1>1 DEF Base, TypeOK
<1>3. CASE Ends(q) /\ UNCHANGED local
  BY <1>3, KeyEnd DEF Refresh, UpgradeSession
<1>4. CASE Sees(q, "store", u) /\ Remember(request[q].process, KeyOf(request[q]))
  <2>1. request' = [request EXCEPT ![q] = r] /\ r \in Errand /\ SameRequest(r, request[q]) /\ r.pc = "store"
    BY <1>1, <1>2, <1>4, SeesAs, HavingFields
  <2>2. /\ \A p \in Process : local[p] \subseteq local'[p]
        /\ KeyOf(request[q]) \in local'[request[q].process]
    BY <1>1, <1>4, RemembersMore
  <2>3. KeysKept(r, local', redis', outages')
    BY <1>1, <2>1, <2>2, SameKeys, LateKept DEF KeysKept, Refresh, UpgradeSession
  <2> QED
    BY <2>1, <2>2, <2>3, KeyMove DEF Refresh, UpgradeSession
<1> QED
  BY <1>3, <1>4 DEF Refresh, UpgradeSession

LEMMA AdmitKeys ==
    ASSUME Base, KeyInv, NEW q \in Request, Admit(q)
    PROVE  KeyInv'
<1>1. /\ request[q] \in Errand /\ request[q].process \in Process /\ KeyOf(request[q]) \in Key
      /\ request[q].pc # "exists" /\ "store" \in Pc /\ "row" \in Pc
  BY NoSignIn, Bearer DEF Admit, Pc, WithToken
<1>2. CASE request[q].op = "logout"
  <2> DEFINE r == At(request[q], "store")
  <2>1. /\ request' = [request EXCEPT ![q] = r] /\ r \in Errand /\ r.pc = "store"
        /\ SameRequest(r, request[q])
    BY <1>1, <1>2, GoesAs DEF Admit
  <2>2. /\ \A p \in Process : local[p] \subseteq local'[p]
        /\ KeyOf(request[q]) \in local'[request[q].process]
    BY <1>1, <1>2, RemembersMore DEF Admit
  <2>3. KeysKept(r, local', redis', outages')
    BY <1>1, <2>1, <2>2, SameKeys, LateKept DEF KeysKept, Admit
  <2> QED
    BY <2>1, <2>2, <2>3, KeyMove DEF Admit
<1>3. CASE request[q].op # "logout"
  BY <1>1, <1>3, GoesAs, SameKeys, PassKeys DEF Admit
<1> QED
  BY <1>2, <1>3

LEMMA StoreKeys ==
    ASSUME Base, KeyInv, NEW q \in Request, StoreKey(q)
    PROVE  KeyInv'
<1>1. /\ request[q] \in Errand /\ request[q].process \in Process
      /\ RefreshKey(request[q].session) \in Key /\ request[q].pc = "store"
      /\ request[q].op \in {"refresh", "upgrade", "logout"}
  <2>1. request[q].pc = "store" /\ request[q].op \in {"refresh", "upgrade", "logout"}
    BY RequestTypes DEF StoreKey, WellFormed, OpsAt
  <2> QED
    BY <2>1, Bearer DEF WithToken
<1>2. PICK pc \in {"storeRefresh", "issue"} :
        /\ Goes(q, pc)
        /\ pc = "storeRefresh" <=> request[q].op = "logout"
  BY DEF StoreKey
<1> DEFINE r == At(request[q], pc)
<1>3. /\ request' = [request EXCEPT ![q] = r] /\ r \in Errand /\ r.pc = pc
      /\ SameRequest(r, request[q])
  BY <1>2, GoesAs DEF Pc
<1>4. /\ \A p \in Process : local[p] \subseteq local'[p]
      /\ pc = "storeRefresh" => RefreshKey(request[q].session) \in local'[request[q].process]
  BY <1>1, <1>2, RemembersMore DEF StoreKey
<1>5. redis \subseteq redis' /\ (outages = 0 => KeyOf(request[q]) \in redis')
  BY SharesMore DEF StoreKey, KeyInv, KeysShared
<1>6. KeyOf(request[q]) \in local[request[q].process]
  BY <1>1 DEF KeyInv, KeysKept
<1>7. KeysKept(r, local', redis', outages')
  BY <1>1, <1>3, <1>4, <1>5, <1>6, SameKeys, LateKept DEF KeysKept, StoreKey
<1> QED
  BY <1>3, <1>4, <1>5, <1>7, KeyMove DEF StoreKey

LEMMA SpendKeys ==
    ASSUME Base, KeyInv, NEW q \in Request,
           \/ \E s \in Session : IssueSession(q, s)
           \/ LoggedOutOfAccess(q) \/ LoggedOut(q)
    PROVE  KeyInv'
<1> DEFINE r == request[q]
<1>1. KeysKept(r, local, redis, outages)
  BY DEF KeyInv
<1>2. CASE \E s \in Session : IssueSession(q, s)
  <2>1. CASE Descends(r)
    <3>1. GivesUp(q, {KeyOf(r)})
      BY <1>2, <2>1 DEF IssueSession, Descends, GivesUp
    <3>2. KeyOf(r) \in local[r.process] /\ (outages = 0 => KeyOf(r) \in redis)
      BY <1>1, <1>2, <2>1 DEF IssueSession, KeysKept
    <3> QED
      BY <1>2, <3>1, <3>2, KeySpent DEF IssueSession
  <2>2. CASE ~Descends(r)
    BY <1>2, <2>2, KeyEnd DEF IssueSession, Descends
  <2> QED
    BY <2>1, <2>2
<1>3. CASE LoggedOutOfAccess(q)
  <2>1. GivesUp(q, {KeyOf(r)})
    BY <1>3 DEF LoggedOutOfAccess, GivesUp
  <2>2. redis \subseteq redis' /\ (outages = 0 => KeyOf(r) \in redis')
    BY <1>3, SharesMore DEF LoggedOutOfAccess, KeyInv, KeysShared
  <2>3. KeyOf(r) \in local[r.process]
    BY <1>1, <1>3 DEF LoggedOutOfAccess, KeysKept
  <2> QED
    BY <1>3, <2>1, <2>2, <2>3, KeySpent DEF LoggedOutOfAccess
<1>4. CASE LoggedOut(q)
  <2>1. GivesUp(q, {AccessKey(r.session), RefreshKey(r.session)})
    BY <1>4 DEF LoggedOut, GivesUp
  <2>2. r.op = "logout" /\ KeyOf(r) = AccessKey(r.session)
    BY <1>4, RequestTypes DEF LoggedOut, WellFormed, OpsAt, KeyOf
  <2>3. redis \subseteq redis' /\ (outages = 0 => RefreshKey(r.session) \in redis')
    BY <1>4, SharesMore DEF LoggedOut, KeyInv, KeysShared
  <2>4. /\ AccessKey(r.session) \in local[r.process] /\ RefreshKey(r.session) \in local[r.process]
        /\ outages = 0 => AccessKey(r.session) \in redis
    BY <1>1, <1>4, <2>2 DEF LoggedOut, KeysKept
  <2> QED
    BY <1>4, <2>1, <2>3, <2>4, KeySpent DEF LoggedOut
<1> QED
  BY <1>2, <1>3, <1>4

\* The rest: requests without a token that start, read, or save.
LEMMA RowKeys ==
    ASSUME Base, KeyInv, Base', NEW q \in Request,
           \/ \E u \in User : Login(q, u)
           \/ \E p \in Process, u \in User, n \in Nonce : SocialSignIn(q, p, u, n)
           \/ \E u \in User, op \in Op : Take(q, u, op)
    PROVE  KeyInv'
<1>1. PICK r : /\ r.pc \in {"claim", "saving", "issue"}
               /\ r.late = "no" /\ (r.pc = "issue" => r.op = "signIn") /\ Starts(q, r)
  <2>1. ASSUME NEW u \in User, Login(q, u)
        PROVE  \E r : /\ Starts(q, r) /\ r.pc = "issue" /\ r.op = "signIn" /\ r.late = "no"
    <3> DEFINE r == [Idle EXCEPT !.pc = "issue", !.user = u, !.seen = account[u], !.knew = revocations[u]]
    <3>1. r.pc = "issue" /\ r.op = "signIn" /\ r.late = "no"
      BY DEF Idle
    <3> QED
      BY <2>1, <3>1 DEF Login
  <2>2. ASSUME NEW p \in Process, NEW u \in User, NEW n \in Nonce, SocialSignIn(q, p, u, n)
        PROVE  \E r : Starts(q, r) /\ r.pc = "claim" /\ r.op = "signIn" /\ r.late = "no"
    <3> DEFINE r == [Idle EXCEPT !.pc = "claim", !.process = p, !.user = u, !.nonce = n]
    <3>1. r.pc = "claim" /\ r.op = "signIn" /\ r.late = "no"
      BY DEF Idle
    <3> QED
      BY <2>2, <3>1 DEF SocialSignIn
  <2>3. ASSUME NEW u \in User, NEW op \in Op, Take(q, u, op)
        PROVE  \E r : Starts(q, r) /\ r.pc = "saving" /\ r.late = "no"
    <3> DEFINE r == [Idle EXCEPT !.pc = "saving", !.op = op, !.user = u,
                                 !.seen = account[u], !.knew = revocations[u]]
    <3>1. r.pc = "saving" /\ r.late = "no"
      BY DEF Idle
    <3> QED
      BY <2>3, <3>1 DEF Take
  <2> QED
    BY <2>1, <2>2, <2>3
<1>2. request' = [request EXCEPT ![q] = r] /\ r \in Errand
  BY <1>1 DEF Starts, Base, TypeOK
<1>3. KeysKept(r, local, redis, outages)
  BY <1>1 DEF KeysKept, Descends
<1> QED
  BY <1>2, <1>3, KeyMove DEF Login, SocialSignIn, Take

LEMMA ReadKeys ==
    ASSUME Base, KeyInv, NEW q \in Request, Resolve(q) \/ ReadRow(q)
    PROVE  KeyInv'
<1> DEFINE u == request[q].user
<1>1. /\ u \in User /\ request[q] \in Errand /\ "issue" \in Pc /\ "saving" \in Pc
      /\ request[q].pc # "exists"
  BY RequestTypes DEF Resolve, ReadRow, WellFormed, Pc
<1>2. account[u] \in Account /\ revocations[u] \in Nat
  BY <1>1 DEF Base, TypeOK
<1>3. CASE Resolve(q)
  <2> DEFINE r == Having(request[q], "issue", account[u], revocations[u])
  <2>1. request' = [request EXCEPT ![q] = r] /\ r \in Errand /\ SameRequest(r, request[q]) /\ r.pc = "issue"
    BY <1>1, <1>2, <1>3, SeesAs, HavingFields DEF Resolve
  <2>2. r.op = "signIn"
    BY <1>3, <2>1 DEF Resolve, SameRequest
  <2>3. KeysKept(r, local', redis', outages')
    BY <1>1, <1>3, <2>1, <2>2, SameKeys, LateKept DEF KeysKept, Descends, Resolve
  <2> QED
    BY <1>3, <2>1, <2>3, KeyMove DEF Resolve
<1>4. CASE ReadRow(q) /\ Ends(q)
  BY <1>4, KeyEnd DEF ReadRow
<1>5. CASE ReadRow(q) /\ Sees(q, "saving", u)
  <2> DEFINE r == Having(request[q], "saving", account[u], revocations[u])
  <2>1. request' = [request EXCEPT ![q] = r] /\ r \in Errand /\ SameRequest(r, request[q]) /\ r.pc = "saving"
    BY <1>1, <1>2, <1>5, SeesAs, HavingFields
  <2> QED
    BY <1>1, <1>5, <2>1, SameKeys, PassKeys DEF ReadRow
<1> QED
  BY <1>3, <1>4, <1>5 DEF ReadRow

LEMMA SaveKeys ==
    ASSUME Base, KeyInv, NEW q \in Request,
           \/ SaveTouched(q) \/ SaveRevoked(q) \/ SaveSuspended(q) \/ SaveReactivated(q)
           \/ EndSessions(q) \/ DeleteUser(q) \/ Refuse(q) \/ Abandon(q)
    PROVE  KeyInv'
<1>1. CASE Ends(q)
  BY <1>1, KeyEnd DEF SaveTouched, SaveRevoked, SaveSuspended, SaveReactivated, EndSessions,
                      DeleteUser, Refuse, Abandon
<1>2. CASE EndSessions(q)
  BY <1>2, GoesAs, SameKeys, PassKeys DEF EndSessions, Pc
<1> QED
  BY <1>1, <1>2 DEF SaveTouched, SaveRevoked, SaveSuspended, SaveReactivated, DeleteUser,
                    Refuse, Abandon

\* A process forgets its list and its requests: what it gave up is known to Redis,
\* or Redis has failed.
LEMMA RestartKeys ==
    ASSUME Base, KeyInv, NEW p \in Process, Restart(p)
    PROVE  KeyInv'
<1>1. ASSUME NEW x \in Request
      PROVE  KeysKept(request'[x], local', redis', outages')
  <2>1. CASE request[x].process = p
    BY <2>1, IdleKeys DEF Restart
  <2>2. CASE request[x].process # p
    <3>1. request'[x] = request[x] /\ redis' = redis /\ outages' = outages
      BY <2>2 DEF Restart
    <3>2. local'[request[x].process] = local[request[x].process]
            \/ request[x].process \notin Process
      BY <2>2 DEF Restart, Base, TypeOK
    <3>3. request[x].pc \in {"store", "storeRefresh"} \/ (request[x].pc = "issue" /\ Descends(request[x]))
            => request[x].process \in Process
      BY RequestTypes DEF WellFormed, OpsAt, Descends
    <3> QED
      BY <3>1, <3>2, <3>3 DEF KeyInv, KeysKept
  <2> QED
    BY <2>1, <2>2
<1>2. KeysRemembered'
  <2> SUFFICES ASSUME NEW x \in spent', x[1] \in Process PROVE x[2] \in local'[x[1]]
    BY DEF KeysRemembered
  <2>1. PICK y \in spent : x = IF y[1] = p THEN <<None, y[2]>> ELSE y
    BY DEF Restart
  <2>2. x = y /\ y[1] # p
    BY <2>1, SessionsAssumption
  <2> QED
    BY <2>2 DEF Restart, KeyInv, KeysRemembered, Base, TypeOK
<1>3. KeysShared'
  <2> SUFFICES ASSUME outages' = 0 PROVE redisUp' /\ \A x \in spent' : x[2] \in redis'
    BY DEF KeysShared
  <2>1. redisUp' /\ \A y \in spent : y[2] \in redis'
    BY DEF Restart, KeyInv, KeysShared
  <2>2. ASSUME NEW x \in spent' PROVE \E y \in spent : x[2] = y[2]
    BY DEF Restart
  <2> QED
    BY <2>1, <2>2
<1> QED
  BY <1>1, <1>2, <1>3 DEF KeyInv

LEMMA RedisKeys ==
    ASSUME Base, KeyInv, RedisFails \/ RedisReturns
    PROVE  KeyInv'
<1>1. outages' > 0 /\ (outages' = outages \/ outages = 0 \/ outages > 0) /\ outages \in Nat
  BY SessionsAssumption DEF RedisFails, RedisReturns, Base, TypeOK, KeyInv, KeysShared
<1>2. UNCHANGED <<local, redis, spent, request>>
  BY DEF RedisFails, RedisReturns
<1>3. ASSUME NEW x \in Request
      PROVE  KeysKept(request'[x], local', redis', outages')
  BY <1>1, <1>2 DEF KeyInv, KeysKept
<1>4. KeysRemembered' /\ KeysShared'
  BY <1>1, <1>2 DEF KeyInv, KeysRemembered, KeysShared
<1> QED
  BY <1>3, <1>4 DEF KeyInv

LEMMA KeyStep == Base /\ KeyInv /\ [Next]_vars => KeyInv'
<1> SUFFICES ASSUME Base, KeyInv, [Next]_vars, Base' PROVE KeyInv'
  BY BaseStep
<1>1. ASSUME NEW q \in Request, SignInStep(q) PROVE KeyInv'
  BY <1>1, RowKeys, NonceKeys, ReadKeys, SpendKeys DEF SignInStep
<1>2. ASSUME NEW q \in Request, TokenStep(q) PROVE KeyInv'
  BY <1>2, PresentKeys, CheckKeys, SaveKeys, RefreshKeys, AdmitKeys, StoreKeys, SpendKeys
     DEF TokenStep
<1>3. ASSUME NEW q \in Request, RowStep(q) PROVE KeyInv'
  <2>1. ASSUME NEW u \in User,
               \/ ResetPassword(q, u) \/ UpdateUser(q, u) \/ SuspendUser(q, u)
               \/ ReactivateUser(q, u) \/ EraseAccount(q, u)
        PROVE  \E op \in Op : Take(q, u, op)
    BY <2>1 DEF ResetPassword, UpdateUser, SuspendUser, ReactivateUser, EraseAccount, Op
  <2> QED
    BY <1>3, <2>1, RowKeys, ReadKeys, SaveKeys DEF RowStep
<1>4. ASSUME NEW q \in Request, Abandon(q) PROVE KeyInv'
  BY <1>4, SaveKeys
<1>5. CASE UNCHANGED vars
  BY <1>5 DEF vars, KeyInv, KeysRemembered, KeysShared
<1> QED
  BY <1>1, <1>2, <1>3, <1>4, <1>5, RestartKeys, RedisKeys DEF Next

LEMMA LateFromKeys == KeyInv => SpentTokensAreRefused
  BY DEF KeyInv, KeysKept, SpentTokensAreRefused

-------------------------------------------------------------------------------
(* Nonces                                                                      *)

LEMMA NonceInit == Init => NonceInv
  BY DEF Init, NonceInv, Claims, Idle

\* Steps that claim no nonce and accept none.
LEMMA NonceKept ==
    ASSUME Base, NonceInv, redis \subseteq redis', UNCHANGED <<redisUp, outages, accepted>>,
           \A q \in Request, n \in Nonce : Claims(q, n)' => Claims(q, n)
    PROVE  NonceInv'
  BY DEF NonceInv

\* A record that is not one of a claim.
LEMMA NoClaim ==
    ASSUME Base, NEW q \in Request, NEW r, request' = [request EXCEPT ![q] = r], r.pc # "claimed"
    PROVE  \A x \in Request, n \in Nonce : Claims(x, n)' => Claims(x, n)
  BY DEF Claims, Base, TypeOK

LEMMA ClaimStep ==
    ASSUME Base, NonceInv, NEW q \in Request, ClaimNonce(q)
    PROVE  NonceInv'
<1> SUFFICES ASSUME outages = 0 PROVE NonceInv'
  BY DEF NonceInv, ClaimNonce
<1>1. request[q] \in Errand /\ "claimed" \in Pc
  BY RequestTypes DEF Pc
<1>2. /\ \A x \in Request \ {q}, n \in Nonce : Claims(x, n)' => Claims(x, n)
      /\ \A n \in Nonce : Claims(q, n)' => n = request[q].nonce
  BY <1>1, GoesAs DEF ClaimNonce, Claims, SameRequest, Base, TypeOK
<1>3. \A n \in Nonce : n = request[q].nonce =>
         /\ NonceKey(n) \notin redis /\ NonceKey(n) \in redis'
  BY DEF ClaimNonce
<1>4. redis \subseteq redis' /\ UNCHANGED <<redisUp, outages, accepted>>
  BY DEF ClaimNonce
<1>5. accepted \in [Nonce -> 0 .. 2]
  BY DEF Base, TypeOK
<1>6. ASSUME NEW n \in Nonce
      PROVE  /\ accepted'[n] <= 1
             /\ accepted'[n] = 1 => NonceKey(n) \in redis'
             /\ \A x \in Request : Claims(x, n)' => accepted'[n] = 0 /\ NonceKey(n) \in redis'
             /\ \A x, y \in Request : Claims(x, n)' /\ Claims(y, n)' => x = y
  BY <1>2, <1>3, <1>4, <1>5 DEF NonceInv
<1> QED
  BY <1>4, <1>6 DEF NonceInv

LEMMA AcceptStep ==
    ASSUME Base, NonceInv, NEW q \in Request, NonceAccepted(q)
    PROVE  NonceInv'
<1> SUFFICES ASSUME outages = 0 PROVE NonceInv'
  BY DEF NonceInv, NonceAccepted
<1> DEFINE m == request[q].nonce
<1>1. /\ request[q] \in Errand /\ "account" \in Pc /\ request[q].pc = "claimed"
      /\ m \in Nonce /\ Claims(q, m)
  BY RequestTypes DEF Pc, NonceAccepted, NonceInv, WellFormed, Claims
<1>2. \A x \in Request, n \in Nonce : Claims(x, n)' => Claims(x, n) /\ x # q
  BY <1>1, GoesAs DEF NonceAccepted, Claims, Base, TypeOK
<1>3. accepted[m] = 0 /\ NonceKey(m) \in redis
  BY <1>1 DEF NonceInv
<1>4. accepted' = [accepted EXCEPT ![m] = 1] /\ UNCHANGED <<redis, redisUp, outages>>
  BY <1>1, <1>3 DEF NonceAccepted, Base, TypeOK
<1>5. accepted \in [Nonce -> 0 .. 2]
  BY DEF Base, TypeOK
<1>6. ASSUME NEW n \in Nonce
      PROVE  /\ accepted'[n] <= 1
             /\ accepted'[n] = 1 => NonceKey(n) \in redis'
             /\ \A x \in Request : Claims(x, n)' => accepted'[n] = 0 /\ NonceKey(n) \in redis'
             /\ \A x, y \in Request : Claims(x, n)' /\ Claims(y, n)' => x = y
  <2>1. CASE n = m
    BY <1>1, <1>2, <1>3, <1>4, <1>5, <2>1 DEF NonceInv
  <2>2. CASE n # m
    BY <1>2, <1>4, <1>5, <2>2 DEF NonceInv
  <2> QED
    BY <2>1, <2>2
<1> QED
  BY <1>4, <1>6 DEF NonceInv

LEMMA NonceStep == Base /\ NonceInv /\ [Next]_vars => NonceInv'
<1> SUFFICES ASSUME Base, NonceInv, [Next]_vars PROVE NonceInv'
  OBVIOUS
<1>1. ASSUME NEW q \in Request, NEW r, request' = [request EXCEPT ![q] = r], r.pc # "claimed",
             redis \subseteq redis', UNCHANGED <<redisUp, outages, accepted>>
      PROVE  NonceInv'
  BY <1>1, NoClaim, NonceKept
<1>2. ASSUME NEW q \in Request, Ends(q), redis \subseteq redis', UNCHANGED <<redisUp, outages, accepted>>
      PROVE  NonceInv'
  <2>1. Idle.pc # "claimed"
    BY DEF Idle
  <2> QED
    BY <1>1, <1>2, <2>1 DEF Ends
<1>3. ASSUME NEW q \in Request, NEW pc \in Pc \ {"claimed"}, Goes(q, pc), redis \subseteq redis',
             UNCHANGED <<redisUp, outages, accepted>>
      PROVE  NonceInv'
  BY <1>1, <1>3, GoesAs
<1>4. ASSUME NEW q \in Request, NEW pc \in Pc \ {"claimed"}, Sees(q, pc, request[q].user),
             UNCHANGED <<redis, redisUp, outages, accepted>>
      PROVE  NonceInv'
  <2> DEFINE r == [request[q] EXCEPT !.pc = pc, !.seen = account[request[q].user],
                                     !.knew = revocations[request[q].user]]
  <2>1. request' = [request EXCEPT ![q] = r]
    BY <1>4 DEF Sees
  <2>2. r.pc = pc
    BY RequestTypes DEF Errand
  <2> QED
    BY <1>1, <1>4, <2>1, <2>2
<1>5. ASSUME NEW q \in Request, SignInStep(q) PROVE NonceInv'
  <2>1. ASSUME NEW u \in User, Login(q, u) PROVE NonceInv'
    <3> DEFINE r == [Idle EXCEPT !.pc = "issue", !.user = u, !.seen = account[u], !.knew = revocations[u]]
    <3>1. r.pc = "issue"
      BY DEF Idle
    <3> QED
      BY <1>1, <2>1, <3>1 DEF Login, Starts
  <2>2. ASSUME NEW u \in User, NEW p \in Process, NEW n \in Nonce, SocialSignIn(q, p, u, n)
        PROVE  NonceInv'
    <3> DEFINE r == [Idle EXCEPT !.pc = "claim", !.process = p, !.user = u, !.nonce = n]
    <3>1. r.pc = "claim"
      BY DEF Idle
    <3> QED
      BY <1>1, <2>2, <3>1 DEF SocialSignIn, Starts
  <2>3. ASSUME Resolve(q) PROVE NonceInv'
    BY <1>4, <2>3 DEF Resolve, Pc
  <2>4. ASSUME NEW s \in Session, IssueSession(q, s) PROVE NonceInv'
    BY <1>2, <2>4 DEF IssueSession
  <2> QED
    BY <1>5, <2>1, <2>2, <2>3, <2>4, ClaimStep, AcceptStep DEF SignInStep
<1>6. ASSUME NEW q \in Request, TokenStep(q) PROVE NonceInv'
  <2>1. ASSUME NEW p \in Process, NEW s \in Session, NEW op \in Op, Present(q, p, s, op)
        PROVE  NonceInv'
    <3> DEFINE x == [Idle EXCEPT !.pc = "exists", !.op = op, !.process = p,
                                 !.user = sess[s].user, !.session = s]
               y == [x EXCEPT !.locally = KeyOf(x) \in local[p], !.late = Lateness(p, KeyOf(x))]
    <3>1. x.pc = "exists"
      BY DEF Idle
    <3>2. y.pc = x.pc
      BY Zenon DEF Idle
    <3>3. request' = [request EXCEPT ![q] = y]
      BY <2>1 DEF Present, Starts
    <3> QED
      BY <1>1, <2>1, <3>1, <3>2, <3>3 DEF Present
  <2>2. ASSUME CheckBlacklist(q) PROVE NonceInv'
    <3> DEFINE r == [request[q] EXCEPT !.pc = "account", !.locally = FALSE]
    <3>1. r.pc = "account"
      BY RequestTypes DEF Errand
    <3> QED
      BY <1>1, <1>2, <2>2, <3>1 DEF CheckBlacklist
  <2>3. ASSUME Refuse(q) \/ LoggedOutOfAccess(q) \/ LoggedOut(q) PROVE NonceInv'
    BY <1>2, <2>3, SharesMore DEF Refuse, LoggedOutOfAccess, LoggedOut
  <2>4. ASSUME Refresh(q) \/ UpgradeSession(q) PROVE NonceInv'
    BY <1>2, <1>4, <2>4 DEF Refresh, UpgradeSession, Pc
  <2>5. ASSUME Admit(q) \/ StoreKey(q) PROVE NonceInv'
    BY <1>3, <2>5, SharesMore DEF Admit, StoreKey, Pc
  <2> QED
    BY <1>6, <2>1, <2>2, <2>3, <2>4, <2>5 DEF TokenStep
<1>7. ASSUME NEW q \in Request, RowStep(q) PROVE NonceInv'
  <2>1. ASSUME NEW u \in User, NEW op \in Op, Take(q, u, op) PROVE NonceInv'
    <3> DEFINE r == [Idle EXCEPT !.pc = "saving", !.op = op, !.user = u,
                                 !.seen = account[u], !.knew = revocations[u]]
    <3>1. r.pc = "saving"
      BY DEF Idle
    <3> QED
      BY <1>1, <2>1, <3>1 DEF Take, Starts
  <2>2. ASSUME ReadRow(q) PROVE NonceInv'
    BY <1>2, <1>4, <2>2 DEF ReadRow, Pc
  <2>3. ASSUME \/ SaveTouched(q) \/ SaveRevoked(q) \/ SaveSuspended(q) \/ SaveReactivated(q)
               \/ DeleteUser(q)
        PROVE  NonceInv'
    BY <1>2, <2>3 DEF SaveTouched, SaveRevoked, SaveSuspended, SaveReactivated, DeleteUser
  <2>4. ASSUME EndSessions(q) PROVE NonceInv'
    BY <1>3, <2>4 DEF EndSessions, Pc
  <2>5. ASSUME NEW u \in User,
               \/ ResetPassword(q, u) \/ UpdateUser(q, u) \/ SuspendUser(q, u)
               \/ ReactivateUser(q, u) \/ EraseAccount(q, u)
        PROVE  NonceInv'
    BY <2>1, <2>5 DEF ResetPassword, UpdateUser, SuspendUser, ReactivateUser, EraseAccount, Op
  <2> QED
    BY <1>7, <2>2, <2>3, <2>4, <2>5 DEF RowStep
<1>8. ASSUME NEW q \in Request, Abandon(q) PROVE NonceInv'
  BY <1>2, <1>8 DEF Abandon
<1>9. ASSUME NEW p \in Process, Restart(p) PROVE NonceInv'
  <2>1. \A x \in Request, n \in Nonce : Claims(x, n)' => Claims(x, n)
    BY <1>9 DEF Restart, Claims, Idle
  <2> QED
    BY <1>9, <2>1, NonceKept DEF Restart
<1>10. CASE RedisFails \/ RedisReturns
  <2>1. outages \in Nat
    BY SessionsAssumption DEF Base, TypeOK
  <2>2. outages' # 0
    BY <1>10, <2>1 DEF RedisFails, RedisReturns, NonceInv
  <2> QED
    BY <2>2 DEF NonceInv
<1>11. CASE UNCHANGED vars
  BY <1>11 DEF vars, NonceInv, Claims
<1> QED
  BY <1>5, <1>6, <1>7, <1>8, <1>9, <1>10, <1>11 DEF Next

-------------------------------------------------------------------------------
(* What holds of sessions                                                      *)

LEMMA SessionInit == Init => SessionInv
  BY BaseInit, VersionInit, KeyInit, NonceInit DEF SessionInv

LEMMA SessionStep == SessionInv /\ [Next]_vars => SessionInv'
  BY BaseStep, VersionStep, KeyStep, NonceStep, SuspendedStep DEF SessionInv

\* SessionInv holds in every state of AccountSessions: what requests, tokens and
\* Redis remember agrees, whatever is interleaved, restarted or lost
\* (auth.service.ts, token-blacklist.service.ts, admin-users.service.ts).
THEOREM SessionsInvariant == Spec => []SessionInv
  BY SessionInit, SessionStep, PTL DEF Spec

LEMMA CurrentFromVersions == Base /\ VersionInv => UsableIsCurrent
<1> SUFFICES ASSUME Base, VersionInv, NEW s \in Session, Usable(s),
                    sess[s].user \notin clobbered, ~sess[s].upgraded
             PROVE  sess[s].knew = revocations[sess[s].user]
  BY DEF UsableIsCurrent
<1>1. sess[s].user \in User \ clobbered
  BY DEF Usable, Base, TypeOK, Tokens
<1> QED
  BY <1>1 DEF Usable, MaySignIn, Holds, VersionInv, CountsRevocations, SessionsKnow

-------------------------------------------------------------------------------
(* Tokens of Apple and Google                                                  *)

VisitRow == [at: {"idle", "apple", "google", "waiting", "admitted", "refused"},
             token: {Nowhere} \cup Issued, sent: BOOLEAN, given: SUBSET SigningKey,
             why: {"nothing", "token", "nonce", "key", "unavailable"}]

\* One sign-in is decided as it should be.
Decided(r) ==
    /\ r.at # "idle" => r.token \in Issued
    /\ r.at = "admitted" => r.token.flaw = "none" /\ NonceHolds(r)
    /\ r.why = "key" => r.token.kid \notin r.given /\ r.given # {}

\* Apple always publishes a key, so every answer holds one.
SocialInv ==
    /\ published \in SUBSET SigningKey /\ published # {}
    /\ kept \in {Nowhere} \cup SUBSET SigningKey
    /\ inflight \in [at: {"none", "asked", "answered"}, keys: SUBSET SigningKey]
    /\ inflight.at = "answered" => inflight.keys # {}
    /\ inflight.at = "none" => inflight = NoRequest
    /\ policy \in Policy
    /\ visit \in [Visit -> VisitRow]
    /\ \A v \in Visit :
        /\ Decided(visit[v])
        /\ visit[v].at = "waiting" => inflight.at \in {"asked", "answered"}

LEMMA SocialPromise == SocialInv => SocialTypeOK /\ TokensAreJudged
<1>1. SocialInv => SocialTypeOK
  <2> SUFFICES ASSUME SocialInv PROVE SocialTypeOK
    OBVIOUS
  <2>1. inflight \in [at: {"none", "asked", "answered", "failed"}, keys: SUBSET SigningKey]
    BY DEF SocialInv
  <2> QED
    BY <2>1 DEF SocialInv, SocialTypeOK, VisitRow
<1>2. SocialInv => TokensAreJudged
  <2> SUFFICES ASSUME SocialInv, NEW v \in Visit
               PROVE  /\ visit[v].at = "admitted" => visit[v].token.flaw = "none" /\ NonceHolds(visit[v])
                      /\ visit[v].why = "key" => visit[v].token.kid \notin visit[v].given /\ visit[v].given # {}
                      /\ visit[v].at = "waiting" => inflight.at \in {"asked", "answered"}
    BY DEF TokensAreJudged
  <2>1. Decided(visit[v]) /\ (visit[v].at = "waiting" => inflight.at \in {"asked", "answered"})
    BY DEF SocialInv
  <2> QED
    BY <2>1 DEF Decided
<1> QED
  BY <1>1, <1>2

LEMMA SocialInitInv == SocialInit => SocialInv
<1> SUFFICES ASSUME SocialInit PROVE SocialInv
  OBVIOUS
<1>1. Away \in VisitRow /\ Away.at = "idle" /\ Away.why = "nothing"
  BY DEF Away, VisitRow
<1>2. visit \in [Visit -> VisitRow] /\ \A v \in Visit : visit[v] = Away
  BY <1>1 DEF SocialInit
<1>3. \A v \in Visit : Decided(visit[v]) /\ visit[v].at # "waiting"
  BY <1>1, <1>2 DEF Decided
<1>4. published \in SUBSET SigningKey /\ published # {} /\ kept \in {Nowhere} \cup SUBSET SigningKey
  BY DEF SocialInit
<1>5. inflight \in [at: {"none", "asked", "answered"}, keys: SUBSET SigningKey]
      /\ inflight.at = "none" /\ inflight = NoRequest
  BY DEF SocialInit, NoRequest
<1> QED
  BY <1>2, <1>3, <1>4, <1>5 DEF SocialInv, SocialInit

\* The ways in which a sign-in ends.
LEMMA EndedRow ==
    ASSUME NEW r \in VisitRow, NEW a \in {"admitted", "refused"},
           NEW w \in {"nothing", "token", "nonce", "key", "unavailable"}
    PROVE  /\ Ended(r, a, w) \in VisitRow /\ Ended(r, a, w).at = a /\ Ended(r, a, w).why = w
           /\ Ended(r, a, w).token = r.token /\ Ended(r, a, w).given = r.given
           /\ Ended(r, a, w).sent = r.sent
  BY DEF Ended, VisitRow

LEMMA RefusedRow ==
    ASSUME NEW r \in VisitRow, r.token \in Issued,
           NEW w \in {"nothing", "token", "nonce", "unavailable"}
    PROVE  Ended(r, "refused", w) \in VisitRow /\ Decided(Ended(r, "refused", w))
           /\ Ended(r, "refused", w).at = "refused"
<1>1. w \in {"nothing", "token", "nonce", "key", "unavailable"} /\ "refused" \in {"admitted", "refused"}
  OBVIOUS
<1> QED
  BY <1>1, EndedRow DEF Decided

LEMMA VerifiedRow ==
    ASSUME NEW r \in VisitRow, r.token \in Issued
    PROVE  Verified(r) \in VisitRow /\ Decided(Verified(r)) /\ Verified(r).at # "waiting"
<1>1. CASE r.token.flaw # "none"
  BY <1>1, RefusedRow DEF Verified
<1>2. CASE r.token.flaw = "none" /\ ~NonceHolds(r)
  BY <1>2, RefusedRow DEF Verified
<1>3. CASE r.token.flaw = "none" /\ NonceHolds(r)
  <2> DEFINE e == Ended(r, "admitted", "nothing")
  <2>1. Verified(r) = e
    BY <1>3 DEF Verified
  <2>2. /\ e \in VisitRow /\ e.at = "admitted" /\ e.why = "nothing" /\ e.token = r.token
        /\ e.sent = r.sent
    BY EndedRow
  <2>3. NonceHolds(e)
    BY <1>3, <2>2 DEF NonceHolds
  <2> QED
    BY <1>3, <2>1, <2>2, <2>3 DEF Decided
<1> QED
  BY <1>1, <1>2, <1>3

LEMMA JudgedRow ==
    ASSUME NEW r \in VisitRow, r.token \in Issued, NEW keys \in SUBSET SigningKey, keys # {}
    PROVE  Judged(r, keys) \in VisitRow /\ Decided(Judged(r, keys)) /\ Judged(r, keys).at # "waiting"
<1> DEFINE g == [r EXCEPT !.given = keys]
<1>1. g \in VisitRow /\ g.token = r.token /\ g.given = keys
  BY DEF VisitRow
<1> HIDE DEF g
<1>2. Judged(r, keys) = IF r.token.kid \in keys THEN Verified(g) ELSE Ended(g, "refused", "key")
  BY DEF Judged, g
<1>3. CASE r.token.kid \in keys
  BY <1>1, <1>2, <1>3, VerifiedRow
<1>4. CASE r.token.kid \notin keys
  BY <1>1, <1>2, <1>4, EndedRow DEF Decided
<1> QED
  BY <1>3, <1>4

LEMMA WaitingRow ==
    ASSUME NEW r \in VisitRow, r.token \in Issued, Decided(r), NEW w, w = [r EXCEPT !.at = "waiting"]
    PROVE  w \in VisitRow /\ Decided(w) /\ w.at = "waiting"
<1>1. /\ w \in VisitRow /\ w.at = "waiting" /\ w.token = r.token /\ w.why = r.why
      /\ w.given = r.given
  BY DEF VisitRow
<1> QED
  BY <1>1 DEF Decided

LEMMA AppleInv ==
    ASSUME SocialInv,
           \/ \E k \in SigningKey \ published : Publish(k)
           \/ \E k \in published : Retire(k)
           \/ AppleAnswers \/ KeptExpires
    PROVE  SocialInv'
<1>1. UNCHANGED <<policy, visit>>
  BY DEF Publish, Retire, AppleAnswers, KeptExpires
<1>2. published' \in SUBSET SigningKey /\ published' # {}
  BY DEF Publish, Retire, AppleAnswers, KeptExpires, SocialInv
<1>3. kept' \in {Nowhere} \cup SUBSET SigningKey
  BY DEF Publish, Retire, AppleAnswers, KeptExpires, SocialInv
<1>4. /\ inflight' \in [at: {"none", "asked", "answered"}, keys: SUBSET SigningKey]
      /\ inflight'.at = "answered" => inflight'.keys # {}
      /\ inflight'.at = "none" => inflight' = NoRequest
      /\ inflight.at \in {"asked", "answered"} => inflight'.at \in {"asked", "answered"}
  BY DEF Publish, Retire, AppleAnswers, KeptExpires, SocialInv
<1>5. ASSUME NEW v \in Visit
      PROVE  /\ Decided(visit[v])'
             /\ visit'[v].at = "waiting" => inflight'.at \in {"asked", "answered"}
  <2>1. Decided(visit[v]) /\ (visit[v].at = "waiting" => inflight.at \in {"asked", "answered"})
    BY DEF SocialInv
  <2> QED
    BY <1>1, <1>4, <2>1 DEF Decided, NonceHolds, NonceRequired
<1> QED
  BY <1>1, <1>2, <1>3, <1>4, <1>5 DEF SocialInv

\* A sign-in that goes on by itself: its record r, and whether it asks Apple.
LEMMA VisitInv ==
    ASSUME SocialInv, NEW v \in Visit, NEW r \in VisitRow, visit' = [visit EXCEPT ![v] = r],
           Decided(r), r.at = "waiting" => inflight'.at \in {"asked", "answered"},
           \/ inflight' = inflight
           \/ inflight' = [at |-> "asked", keys |-> {}],
           UNCHANGED <<published, kept, policy>>
    PROVE  SocialInv'
<1>1. visit' \in [Visit -> VisitRow]
  BY DEF SocialInv
<1>2. \A x \in Visit : visit'[x] = IF x = v THEN r ELSE visit[x]
  BY DEF SocialInv
<1>3. /\ inflight' \in [at: {"none", "asked", "answered"}, keys: SUBSET SigningKey]
      /\ inflight'.at = "answered" => inflight'.keys # {}
      /\ inflight'.at = "none" => inflight' = NoRequest
      /\ inflight.at \in {"asked", "answered"} => inflight'.at \in {"asked", "answered"}
  BY DEF SocialInv
<1>4. ASSUME NEW x \in Visit
      PROVE  /\ Decided(visit[x])'
             /\ visit'[x].at = "waiting" => inflight'.at \in {"asked", "answered"}
  <2>1. Decided(visit[x]) /\ (visit[x].at = "waiting" => inflight.at \in {"asked", "answered"})
    BY DEF SocialInv
  <2>2. CASE x = v
    BY <1>2, <2>2 DEF Decided, NonceHolds, NonceRequired
  <2>3. CASE x # v
    BY <1>2, <1>3, <2>1, <2>3 DEF Decided, NonceHolds, NonceRequired
  <2> QED
    BY <2>2, <2>3
<1> QED
  BY <1>1, <1>3, <1>4 DEF SocialInv

LEMMA ArrivesInv ==
    ASSUME SocialInv, NEW v \in Visit, SignIn(v)
    PROVE  SocialInv'
<1>1. PICK t \in Issued, sent \in BOOLEAN :
        visit' = [visit EXCEPT ![v] =
          IF t.flaw = "header" THEN Ended([Away EXCEPT !.token = t, !.sent = sent], "refused", "token")
          ELSE [Away EXCEPT !.at = t.by, !.token = t, !.sent = sent]]
  BY DEF SignIn
<1> DEFINE a == [Away EXCEPT !.token = t, !.sent = sent]
           b == [Away EXCEPT !.at = t.by, !.token = t, !.sent = sent]
<1>2. t.by \in {"apple", "google"}
  BY DEF Issued, Token
<1>3. a \in VisitRow /\ a.token = t
  BY DEF Away, VisitRow
<1>4. b \in VisitRow /\ b.token = t /\ b.at = t.by /\ b.why = "nothing"
  BY <1>2 DEF Away, VisitRow
<1> HIDE DEF a, b
<1>5. Decided(b)
  BY <1>2, <1>4 DEF Decided
<1>6. UNCHANGED <<published, kept, inflight, policy>>
  BY DEF SignIn
<1>7. CASE t.flaw = "header"
  <2>1. visit' = [visit EXCEPT ![v] = Ended(a, "refused", "token")]
    BY <1>1, <1>7 DEF a
  <2> QED
    BY <1>3, <1>6, <2>1, RefusedRow, VisitInv
<1>8. CASE t.flaw # "header"
  <2>1. visit' = [visit EXCEPT ![v] = b]
    BY <1>1, <1>8 DEF b
  <2> QED
    BY <1>2, <1>4, <1>5, <1>6, <2>1, VisitInv
<1> QED
  BY <1>7, <1>8

LEMMA VisitTypes ==
    ASSUME SocialInv, NEW v \in Visit, visit[v].at # "idle"
    PROVE  visit[v] \in VisitRow /\ visit[v].token \in Issued /\ Decided(visit[v])
<1>1. visit[v] \in VisitRow /\ Decided(visit[v])
  BY DEF SocialInv
<1> QED
  BY <1>1 DEF Decided

LEMMA ResolveInv ==
    ASSUME SocialInv, NEW v \in Visit, ResolveSigningKey(v)
    PROVE  SocialInv'
<1>1. visit[v] \in VisitRow /\ visit[v].token \in Issued /\ Decided(visit[v])
  BY VisitTypes DEF ResolveSigningKey
<1>2. CASE kept # Nowhere /\ visit[v].token.kid \in kept
  <2>1. visit' = [visit EXCEPT ![v] = Verified(visit[v])] /\ UNCHANGED <<inflight, published, kept, policy>>
    BY <1>2 DEF ResolveSigningKey
  <2> QED
    BY <1>1, <2>1, VerifiedRow, VisitInv
<1>3. CASE ~(kept # Nowhere /\ visit[v].token.kid \in kept)
  <2> DEFINE w == [visit[v] EXCEPT !.at = "waiting"]
  <2>1. visit' = [visit EXCEPT ![v] = w] /\ UNCHANGED <<published, kept, policy>>
    BY <1>3 DEF ResolveSigningKey
  <2>2. w \in VisitRow /\ Decided(w) /\ w.at = "waiting"
    BY <1>1, WaitingRow
  <2>3. \/ inflight' = inflight /\ inflight # NoRequest
        \/ inflight' = [at |-> "asked", keys |-> {}]
    BY <1>3 DEF ResolveSigningKey
  <2> HIDE DEF w
  <2>4. inflight'.at \in {"asked", "answered"}
    BY <2>3 DEF NoRequest, SocialInv
  <2> QED
    BY <2>1, <2>2, <2>3, <2>4, VisitInv
<1> QED
  BY <1>2, <1>3

LEMMA GoogleInv ==
    ASSUME SocialInv, NEW v \in Visit, VerifyGoogleIdToken(v)
    PROVE  SocialInv'
<1>1. visit[v] \in VisitRow /\ visit[v].token \in Issued
  BY VisitTypes DEF VerifyGoogleIdToken
<1>2. PICK answered \in BOOLEAN : visit' = [visit EXCEPT ![v] =
         IF answered THEN Verified(visit[v]) ELSE Ended(visit[v], "refused", "unavailable")]
  BY DEF VerifyGoogleIdToken
<1>3. UNCHANGED <<published, kept, inflight, policy>>
  BY DEF VerifyGoogleIdToken
<1>4. CASE answered
  BY <1>1, <1>2, <1>3, <1>4, VerifiedRow, VisitInv
<1>5. CASE ~answered
  BY <1>1, <1>2, <1>3, <1>5, RefusedRow, VisitInv
<1> QED
  BY <1>4, <1>5

\* The answer, or the failure, of the request under way goes to all who wait.
LEMMA SettleInv ==
    ASSUME SocialInv, FetchSettles \/ FetchFails
    PROVE  SocialInv'
<1>1. inflight' = NoRequest /\ UNCHANGED <<published, policy>>
  BY DEF FetchSettles, FetchFails
<1>2. kept' \in {Nowhere} \cup SUBSET SigningKey
  BY DEF FetchSettles, FetchFails, SocialInv
<1>3. ASSUME NEW v \in Visit
      PROVE  visit'[v] \in VisitRow /\ Decided(visit[v])' /\ visit'[v].at # "waiting"
  <2>1. visit[v] \in VisitRow /\ Decided(visit[v])
    BY DEF SocialInv
  <2>2. CASE visit[v].at # "waiting"
    <3>1. visit'[v] = visit[v]
      BY <2>2 DEF FetchSettles, FetchFails
    <3> QED
      BY <1>1, <2>1, <2>2, <3>1 DEF Decided, NonceHolds, NonceRequired
  <2>3. CASE visit[v].at = "waiting"
    <3>1. visit[v].token \in Issued
      BY <2>1, <2>3 DEF Decided
    <3>2. PICK r : r = visit'[v] /\ r \in VisitRow /\ Decided(r) /\ r.at # "waiting"
      <4>1. CASE FetchSettles
        <5>1. inflight.keys \in SUBSET SigningKey /\ inflight.keys # {}
          BY <4>1 DEF FetchSettles, SocialInv
        <5>2. visit'[v] = Judged(visit[v], inflight.keys)
          BY <2>3, <4>1 DEF FetchSettles
        <5> QED
          BY <2>1, <3>1, <5>1, <5>2, JudgedRow
      <4>2. CASE FetchFails
        <5>1. visit'[v] = Ended(visit[v], "refused", "unavailable")
          BY <2>3, <4>2 DEF FetchFails
        <5> QED
          BY <2>1, <3>1, <5>1, RefusedRow
      <4> QED
        BY <4>1, <4>2
    <3> QED
      BY <1>1, <3>2 DEF Decided, NonceHolds, NonceRequired
  <2> QED
    BY <2>2, <2>3
<1>4. visit' \in [Visit -> VisitRow]
  BY <1>3 DEF FetchSettles, FetchFails
<1>5. /\ inflight' \in [at: {"none", "asked", "answered"}, keys: SUBSET SigningKey]
      /\ inflight'.at = "none"
  BY <1>1 DEF NoRequest
<1> QED
  BY <1>1, <1>2, <1>3, <1>4, <1>5 DEF SocialInv

LEMMA SocialStep == SocialInv /\ [SocialNext]_socialVars => SocialInv'
<1> SUFFICES ASSUME SocialInv, [SocialNext]_socialVars PROVE SocialInv'
  OBVIOUS
<1>1. CASE UNCHANGED socialVars
  <2>1. UNCHANGED <<published, kept, inflight, policy, visit>>
    BY <1>1 DEF socialVars
  <2>2. ASSUME NEW v \in Visit PROVE Decided(visit[v])'
    <3>1. Decided(visit[v])
      BY DEF SocialInv
    <3> QED
      BY <2>1, <3>1 DEF Decided, NonceHolds, NonceRequired
  <2> QED
    BY <2>1, <2>2 DEF SocialInv
<1> QED
  BY <1>1, AppleInv, SettleInv, ArrivesInv, ResolveInv, GoogleInv DEF SocialNext

-------------------------------------------------------------------------------
(* The run                                                                     *)

LEMMA SignInsAreSessions == SignInSpec => Spec
<1>1. SignInInit => Init
  BY DEF SignInInit
<1>2. [SignInNext]_<<vars, socialVars, service>> => [Next]_vars
  BY DEF SignInNext
<1> QED
  BY <1>1, <1>2, PTL DEF SignInSpec, Spec

LEMMA SessionsHold == SignInSpec => []SessionInv
  BY SignInsAreSessions, SessionsInvariant, PTL

\* UsableIsCurrent: a session that the guard lets through descends from a sign-in
\* that read the account after its last revocation, unless two saves overlapped
\* (auth.service.ts, users.service.ts, admin-users.service.ts).
THEOREM SessionsAreCurrent == SignInSpec => []UsableIsCurrent
<1>1. SessionInv => UsableIsCurrent
  BY CurrentFromVersions DEF SessionInv
<1> QED
  BY <1>1, SessionsHold, PTL

\* SpentTokensAreRefused: a token that was given up is refused by every process,
\* while Redis has never failed, and by the process that answered, while it runs
\* (token-blacklist.service.ts).
THEOREM SpentTokensStayRefused == SignInSpec => []SpentTokensAreRefused
<1>1. SessionInv => SpentTokensAreRefused
  BY LateFromKeys DEF SessionInv
<1> QED
  BY <1>1, SessionsHold, PTL

\* NonceOnce: a nonce is accepted once while Redis has not failed (consumeOnce).
THEOREM NoncesAreSingle == SignInSpec => []NonceOnce
<1>1. SessionInv => NonceOnce
  <2> SUFFICES ASSUME SessionInv, NEW n \in Nonce PROVE accepted[n] <= 1 \/ outages > 0
    BY DEF NonceOnce
  <2>1. outages \in Nat
    BY SessionsAssumption DEF SessionInv, Base, TypeOK
  <2> QED
    BY <2>1 DEF SessionInv, NonceInv
<1> QED
  BY <1>1, SessionsHold, PTL

\* SuspendedIffRestricted: the flag of the account and the row of the restriction
\* agree, unless a save overwrote what it had not read (admin-users.service.ts).
THEOREM RestrictionsAgree == SignInSpec => []SuspendedIffRestricted
<1>1. SessionInv => SuspendedIffRestricted
  BY DEF SessionInv
<1> QED
  BY <1>1, SessionsHold, PTL

\* SignInsAreJudged: of every component of the run, tokens are decided on keys
\* that Apple gave and on the rules of the nonce (apple-identity.service.ts).
THEOREM SignInsAlwaysJudged == SignInSpec => []SignInsAreJudged
<1> DEFINE I == service = "tokens" => SocialInv
<1>1. SignInInit => I
  BY SocialInitInv DEF SignInInit
<1>2. I /\ [SignInNext]_<<vars, socialVars, service>> => I'
  BY SocialStep DEF SignInNext
<1>3. I => SignInsAreJudged
  BY SocialPromise DEF SignInsAreJudged
<1> QED
  BY <1>1, <1>2, <1>3, PTL DEF SignInSpec

================================================================================
