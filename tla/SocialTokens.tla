---- MODULE SocialTokens ----
(***************************************************************************)
(* The verification of the identity tokens of Apple and of Google          *)
(* (apple-identity.service.ts, verifySocialToken of auth.service.ts).      *)
(*                                                                         *)
(* Apple's tokens are checked against the keys Apple publishes.  A process *)
(* keeps the last set it was given for ten minutes and shares one request  *)
(* for it among the sign-ins that need it; Apple publishes new keys and    *)
(* retires old ones, answers, fails or never answers.  Google judges its   *)
(* own tokens, in one request of the sign-in's own.                        *)
(*                                                                         *)
(* A token is what the checks tell apart: the key it names, the first      *)
(* thing that is wrong with it and the nonce it carries.  What becomes of  *)
(* the identity is AccountIdentities, how a nonce is spent AccountSessions.*)
(***************************************************************************)
EXTENDS Integers, FiniteSets

CONSTANTS Visit,      \* sign-ins
          SigningKey, \* Apple's keys
          Nowhere     \* no set kept, no token yet, no key named

VARIABLES published, \* the keys Apple publishes
          kept,      \* jwksCache: the keys, or Nowhere once they are too old
          inflight,  \* inflightFetch: its stage and the keys Apple answered with
          policy,    \* the settings of the nonce
          visit      \* the sign-ins
socialVars == <<published, kept, inflight, policy, visit>>

\* What may be wrong: with an Apple token its header (the algorithm, no key
\* named), its signature, a claim (audience, issuer, expiry, subject, address);
\* with a Google token Google's own verdict or a claim.
Flaw(provider) ==
  {"none", "claim"} \cup (IF provider = "apple" THEN {"header", "signature"} ELSE {"verdict"})

Token ==
  [by: {"apple"}, kid: SigningKey, flaw: Flaw("apple"), nonce: {"absent", "mine", "another"}]
    \cup [by: {"google"}, kid: {Nowhere}, flaw: Flaw("google"), nonce: {"absent", "mine", "another"}]

\* One thing is wrong with a token at most.
Issued == {t \in Token : t.flaw = "none" \/ t.nonce = "mine"}

Policy == [forced: BOOLEAN, cutoff: {"unset", "past", "future"}, production: BOOLEAN]

Away == [at |-> "idle", token |-> Nowhere, sent |-> FALSE, given |-> {}, why |-> "nothing"]
NoRequest == [at |-> "none", keys |-> {}]

----
(* nonceRequired(): the switch, a cutoff that has passed, and production,  *)
(* whatever the cutoff.                                                    *)
NonceRequired == policy.forced \/ policy.cutoff = "past" \/ policy.production

\* A nonce that is required must be sent, and one that is sent must be the
\* token's own.
NonceHolds(s) ==
  /\ NonceRequired => s.sent
  /\ s.sent => s.token.nonce = "mine"

Ended(s, place, reason) == [s EXCEPT !.at = place, !.why = reason]

\* The checks once the key is in hand: signature, claims and nonce.
Verified(s) ==
  IF s.token.flaw # "none" THEN Ended(s, "refused", "token")
  ELSE IF ~NonceHolds(s) THEN Ended(s, "refused", "nonce")
  ELSE Ended(s, "admitted", "nothing")

\* The answer of a request the sign-in waited on.
Judged(s, keys) ==
  IF s.token.kid \in keys THEN Verified([s EXCEPT !.given = keys])
  ELSE Ended([s EXCEPT !.given = keys], "refused", "key")

----
(* Apple. *)

Publish(k) ==
  /\ published' = published \cup {k}
  /\ UNCHANGED <<kept, inflight, policy, visit>>

Retire(k) ==
  /\ published # {k}
  /\ published' = published \ {k}
  /\ UNCHANGED <<kept, inflight, policy, visit>>

\* Apple answers with the keys of this moment; the answer travels.
AppleAnswers ==
  /\ inflight.at = "asked"
  /\ inflight' = [at |-> "answered", keys |-> published]
  /\ UNCHANGED <<published, kept, policy, visit>>

----
(* Sign-ins. *)

\* A token arrives, with the nonce the app generated or without one (which tells
\* nothing of a token that is refused before its nonce is looked at).
SignIn(v) ==
  /\ visit[v] = Away
  /\ \E t \in Issued : \E sent \in IF t.flaw = "none" THEN BOOLEAN ELSE {TRUE} :
       visit' = [visit EXCEPT ![v] =
         IF t.flaw = "header" THEN Ended([Away EXCEPT !.token = t, !.sent = sent], "refused", "token")
         ELSE [Away EXCEPT !.at = t.by, !.token = t, !.sent = sent]]
  /\ UNCHANGED <<published, kept, inflight, policy>>

\* Mutant of ResolveSigningKey: a key that the kept set lacks is unknown.
ResolveFromKept(v) ==
  /\ visit[v].at = "apple"
  /\ IF kept # Nowhere
     THEN /\ visit' = [visit EXCEPT ![v] = IF @.token.kid \in kept THEN Verified(@)
                                           ELSE Ended(@, "refused", "key")]
          /\ UNCHANGED inflight
     ELSE /\ visit' = [visit EXCEPT ![v].at = "waiting"]
          /\ inflight' = IF inflight = NoRequest THEN [at |-> "asked", keys |-> {}] ELSE inflight
  /\ UNCHANGED <<published, kept, policy>>

\* resolveSigningKey and loadJwks: the kept set answers for a key it has; for
\* one it has not, or when there is none, the sign-in waits on the request
\* under way or makes one.
ResolveSigningKey(v) ==
  /\ visit[v].at = "apple"
  /\ IF kept # Nowhere /\ visit[v].token.kid \in kept
     THEN visit' = [visit EXCEPT ![v] = Verified(@)] /\ UNCHANGED inflight
     ELSE /\ visit' = [visit EXCEPT ![v].at = "waiting"]
          /\ inflight' = IF inflight = NoRequest THEN [at |-> "asked", keys |-> {}] ELSE inflight
  /\ UNCHANGED <<published, kept, policy>>

\* The answer arrives: it is kept, and every sign-in that waits goes on with it.
FetchSettles ==
  /\ inflight.at = "answered"
  /\ kept' = inflight.keys
  /\ visit' = [v \in Visit |->
       IF visit[v].at = "waiting" THEN Judged(visit[v], inflight.keys) ELSE visit[v]]
  /\ inflight' = NoRequest
  /\ UNCHANGED <<published, policy>>

\* Mutant of FetchFails: the promise that failed stays in its place.
FetchFailsForAll ==
  /\ inflight.at \in {"asked", "answered"}
  /\ visit' = [v \in Visit |->
       IF visit[v].at = "waiting" THEN Ended(visit[v], "refused", "unavailable") ELSE visit[v]]
  /\ inflight' = [inflight EXCEPT !.at = "failed"]
  /\ UNCHANGED <<published, kept, policy>>

\* fetchJwks throws: five seconds without an answer, an answer that is not ok or
\* holds no usable key. The kept set stays, and the next sign-in asks again.
FetchFails ==
  /\ inflight.at \in {"asked", "answered"}
  /\ visit' = [v \in Visit |->
       IF visit[v].at = "waiting" THEN Ended(visit[v], "refused", "unavailable") ELSE visit[v]]
  /\ inflight' = NoRequest
  /\ UNCHANGED <<published, kept, policy>>

\* Ten minutes after a set was kept it is not trusted any more.
KeptExpires ==
  /\ kept # Nowhere
  /\ kept' = Nowhere
  /\ UNCHANGED <<published, inflight, policy, visit>>

\* verifyGoogleIdToken: Google's verdict, the audience, address and subject,
\* then the nonce.
VerifyGoogleIdToken(v) ==
  /\ visit[v].at = "google"
  /\ \E answered \in BOOLEAN :
       visit' = [visit EXCEPT ![v] = IF answered THEN Verified(@) ELSE Ended(@, "refused", "unavailable")]
  /\ UNCHANGED <<published, kept, inflight, policy>>

----
SocialInit ==
  /\ published \in {{k} : k \in SigningKey}
  /\ kept = Nowhere /\ inflight = NoRequest
  /\ policy \in Policy
  /\ visit = [v \in Visit |-> Away]

SocialNext ==
  \/ \E k \in SigningKey \ published : Publish(k)
  \/ \E k \in published : Retire(k)
  \/ AppleAnswers \/ FetchSettles \/ FetchFails \/ KeptExpires
  \/ \E v \in Visit : SignIn(v) \/ ResolveSigningKey(v) \/ VerifyGoogleIdToken(v)

SocialSpec == SocialInit /\ [][SocialNext]_socialVars

----
SocialTypeOK ==
  /\ published \in SUBSET SigningKey
  /\ kept \in {Nowhere} \cup SUBSET SigningKey
  /\ inflight \in [at: {"none", "asked", "answered", "failed"}, keys: SUBSET SigningKey]
  /\ policy \in Policy
  /\ visit \in [Visit -> [at: {"idle", "apple", "google", "waiting", "admitted", "refused"},
                          token: {Nowhere} \cup Issued, sent: BOOLEAN,
                          given: SUBSET SigningKey,
                          why: {"nothing", "token", "nonce", "key", "unavailable"}]]

\* A sign-in is decided on the token and on keys Apple gave: nobody comes in
\* with a flawed token or against the nonce rules; a sound token is not refused
\* for its key unless the request made for it was answered without that key,
\* which only a key published after Apple's answer suffers; and whoever waits,
\* waits on a request that will end, a failed one being forgotten.
TokensAreJudged ==
  \A v \in Visit :
    /\ visit[v].at = "admitted" => visit[v].token.flaw = "none" /\ NonceHolds(visit[v])
    /\ visit[v].why = "key" => visit[v].token.kid \notin visit[v].given /\ visit[v].given # {}
    /\ visit[v].at = "waiting" => inflight.at \in {"asked", "answered"}

\* What two comments say (auth.service.ts:242 "A compatibility window must be
\* explicit and future-dated", dto/social-auth.dto.ts:22 "only accepted as
\* absent during an explicit, time-bounded legacy-client window"): while a
\* future cutoff keeps the window open, nobody is refused for sending no nonce.
WindowAdmitsOldClients ==
  policy.cutoff = "future" /\ ~policy.forced =>
    \A v \in Visit : visit[v].why = "nonce" => visit[v].sent
====
