------------------------------- MODULE MCSignIns -------------------------------
(* Sessions of accounts, and the tokens of Apple and Google with which people   *)
(* sign in.  What one of them knows of the other is whether a sign-in went      *)
(* well, which AccountSessions leaves open: one run visits each from its own    *)
(* initial state, for the sum and not the product of their states.              *)
EXTENDS AccountSessions, SocialTokens, TLC

VARIABLE service   \* the component this behaviour is about

Rests == 0

SignInInit ==
    /\ service \in {"sessions", "tokens"}
    /\ Init
    /\ IF service = "tokens" THEN SocialInit
       ELSE /\ published = Rests /\ kept = Rests /\ inflight = Rests
            /\ policy = Rests /\ visit = Rests

SignInNext ==
    /\ UNCHANGED service
    /\ \/ service = "sessions" /\ Next /\ UNCHANGED socialVars
       \/ service = "tokens" /\ SocialNext /\ UNCHANGED vars

SignInSpec == SignInInit /\ [][SignInNext]_<<vars, socialVars, service>>

\* Every token of Apple and Google is judged as it should be, whoever fetches
\* Apple's keys for whom, and whatever keys come and go (apple-identity.service.ts).
SignInsAreJudged == service = "tokens" => SocialTypeOK /\ TokensAreJudged

\* The members of Request are those of Visit, and those of Process SigningKey's.
Symmetry ==
    Permutations(Process) \cup Permutations(Session) \cup Permutations(Request)
================================================================================
