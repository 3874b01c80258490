------------------------------ MODULE MCServices ------------------------------
(* Services of many concurrent requests, each a component of its own that      *)
(* shares no state with the others: administrators, spotlights and campaigns,  *)
(* the identities of accounts, connections with music providers and look-ups   *)
(* there.  One run visits each of them from its own initial states, for the    *)
(* sum and not the product of their states: the variables of the services a    *)
(* behaviour is not about hold nothing.                                        *)
EXTENDS AdminAccess, Spotlights, Campaigns, AccountIdentities, MusicConnections,
        MusicLookups, TLC

CONSTANTS
    b1, b2, b3, e1, e2, g1, k1, s1, s2, s3, t1, t2,
    x1, x2,          \* those that act at once, in every service
    y1, y2, z1, z2   \* the other symmetric sets of a service

VARIABLE service   \* the component this behaviour is about

ProvidersOffered == {{"spotify"}, {"apple-music"}}

\* e1 is written with a wildcard, as j_d@ and jad@ are.
Wildcards == [e \in Address |-> IF e = e1 THEN {e1, e2} ELSE {e}]

Rests == 0

ConnectionsNext == MusicNext /\ UNCHANGED offered

ServicesInit ==
    /\ service \in {"admin", "spotlights", "campaigns", "identities",
                    "connections", "lookups"}
    /\ IF service = "admin" THEN AdminInit
       ELSE /\ adminRow = Rests /\ invitation = Rests /\ challenge = Rests
            /\ adminSession = Rests /\ opened = Rests /\ grants = Rests
            /\ adminCall = Rests /\ asked = Rests /\ unguarded = Rests
    /\ IF service = "spotlights" THEN SpotInit
       ELSE /\ spot = Rests /\ clock = Rests /\ views = Rests
    /\ IF service = "campaigns" THEN CampaignInit
       ELSE /\ campaign = Rests /\ pushToken = Rests /\ campaignCall = Rests
            /\ campaignCalls = Rests /\ answers = Rests /\ overlapped = Rests
    /\ IF service = "identities" THEN IdentityInit
       ELSE /\ account = Rests /\ joined = Rests /\ identityCall = Rests
            /\ everMade = Rests /\ proven = Rests /\ begun = Rests
    /\ IF service = "connections" THEN MusicInit
       ELSE /\ offered = Rests /\ connection = Rests /\ made = Rests
            /\ legacy = Rests /\ platforms = Rests /\ oauth = Rests
            /\ musicCall = Rests /\ refreshing = Rests /\ left = Rests
    /\ IF service = "lookups" THEN LookupInit
       ELSE /\ token = Rests /\ fetchers = Rests /\ pending = Rests
            /\ timer = Rests /\ refresher = Rests /\ up = Rests
            /\ loader = Rests /\ entry = Rests /\ cached = Rests
            /\ visitor = Rests

ServicesNext ==
    /\ UNCHANGED service
    /\ \/ /\ service = "admin" /\ AdminNext
          /\ UNCHANGED <<spotVars, campaignVars, identityVars,
                          musicVars, lookupVars>>
       \/ /\ service = "spotlights" /\ SpotNext
          /\ UNCHANGED <<adminVars, campaignVars, identityVars,
                          musicVars, lookupVars>>
       \/ /\ service = "campaigns" /\ CampaignNext
          /\ UNCHANGED <<adminVars, spotVars, identityVars,
                          musicVars, lookupVars>>
       \/ /\ service = "identities" /\ IdentityNext
          /\ UNCHANGED <<adminVars, spotVars, campaignVars,
                          musicVars, lookupVars>>
       \/ /\ service = "connections" /\ ConnectionsNext
          /\ UNCHANGED <<adminVars, spotVars, campaignVars, identityVars,
                          lookupVars>>
       \/ /\ service = "lookups" /\ LookupNext
          /\ UNCHANGED <<adminVars, spotVars, campaignVars, identityVars,
                          musicVars>>

servicesVars == <<service, adminVars, spotVars, campaignVars, identityVars,
                      musicVars, lookupVars>>

ServicesSpec == ServicesInit /\ [][ServicesNext]_servicesVars

In(name, holds) == service = name => holds

\* The rows and requests of every service hold values of their types.
ServiceTypeOK ==
    /\ In("admin", AdminTypeOK)
    /\ In("spotlights", SpotTypeOK) /\ In("campaigns", CampaignTypeOK)
    /\ In("identities", IdentityTypeOK)
    /\ In("connections", MusicTypeOK) /\ In("lookups", LookupTypeOK)

\* Of the services, in the order of the modules: what each of them promises in
\* every state. An active super administrator remains, as long as two counted
\* operations do not overlap (admin-iam.service.ts).
SuperAdminStays == In("admin", SuperAdminRemains)

\* A second factor opens one session (admin-mfa-ticket-store.service.ts).
ChallengesAreSingle == In("admin", ChallengesOpenOneSession)

\* Users see complete spotlights at their time; a campaign counts as delivered on
\* the provider's evidence only; a device gets the notifications of one account,
\* unless two registrations of it overlap.
CampaignsAreTrue ==
    /\ In("spotlights", ShownIsReady)
    /\ In("campaigns", DeliveryHasEvidence /\ DeviceHasOneAccount)

\* Nobody gets the sign-ins of a person by claiming their address first; who has
\* proven an address may get those of another that finds it
\* (social-identity.service.ts, users.service.ts).
SubjectsAreTheirOwn == In("identities", NoPreHijack)

\* An authorization connects one account, a rotating refresh token is spent once
\* by a process, whoever waits is woken, and tokens fit the status of their row
\* (music-connections.service.ts).
ConnectionsHold == In("connections", AuthorizationsAreSingle)

\* Client tokens and look-ups are shared, and nobody waits for work that nobody
\* does (music.service.ts).
LookupsHold == In("lookups", LookupsAreShared)

\* What was decided or deleted is undone by requests only that had read before: a
\* decision about an administrator, a way into an account or its deletion, and
\* the disconnection of a provider. And the background refresh of the client
\* token goes on.
OnlyTheLateUndo ==
    [][/\ In("admin", OldCallUndoes)
       /\ In("identities", LateWriteUndoes)
       /\ In("connections", OldCallBringsBack)
       /\ In("lookups", RefreshIsKept)]_servicesVars

Symmetry ==
    Permutations({x1, x2}) \cup Permutations({y1, y2}) \cup Permutations({z1, z2})

===============================================================================
