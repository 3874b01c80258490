---- MODULE ProviderConfig ----
(***************************************************************************)
(* A deployment's settings for connecting a music account, and the flow    *)
(* that runs into them: auth.service.ts (the authorization addresses, the  *)
(* callbacks and the diagnostics an administrator reads), the validation   *)
(* of the Spotify redirect address and the access and key rules of         *)
(* music-connections.service.ts.                                           *)
(*                                                                         *)
(* A behaviour is one flow of one user under one setup, which Init picks:  *)
(* settings are read from the environment and do not change while the      *)
(* process runs.  A setting is abstracted to the shapes the code tells     *)
(* apart.  What happens to the states and the rows of several flows at     *)
(* once is MusicConnections.                                               *)
(***************************************************************************)

VARIABLES setup, flow
configVars == <<setup, flow>>

\* The shapes of SPOTIFY_REDIRECT_URI: a list of addresses, an address over
\* http that is not the loopback one, one with another path and one with a
\* query or a fragment are the mistakes the code names.
RedirectShape ==
  {"unset", "list", "noUrl", "http", "loopback", "otherPath", "query", "https"}

\* The shapes of APPLE_MUSIC_AUTH_BASE_URL and of API_BASE_URL.
OriginShape == {"unset", "noUrl", "http", "localhost", "railway", "https"}

\* What a setup holds: the settings of both providers' flows.
SetupShape ==
  [production: BOOLEAN,
   spotifyClient: BOOLEAN, redirect: RedirectShape,
   appleIds: BOOLEAN, applePrivateKey: {"unset", "bad", "good"},
   authBase: OriginShape, apiBase: OriginShape,
   enabled: BOOLEAN, allowed: {"anyone", "listed", "unlisted"},
   tokenKey: {"unset", "malformed", "hex", "base64"}, jwtSecret: BOOLEAN]

\* The setups of each provider's flow: the other provider's settings play no
\* part in it.
SetupsOf(provider) ==
  IF provider = "spotify"
  THEN {s \in SetupShape : /\ ~s.appleIds /\ s.applePrivateKey = "unset"
                           /\ s.authBase = "unset" /\ s.apiBase = "unset"}
  ELSE {s \in SetupShape : ~s.spotifyClient /\ s.redirect = "unset"}

----
(* The rules. *)

\* spotifyRedirectUriProblem says null of these two only.
RedirectValid(s) == s.redirect \in {"loopback", "https"}

\* assertProviderAccess: the master flag and the provider's own, then the list
\* of addresses when there is one.
HasAccess(s) == s.enabled /\ s.allowed # "unlisted"

\* tokenKey(): a configured key must have one of two shapes; outside production
\* one is derived from the JWT secret.
KeyUsable(s) ==
  \/ s.tokenKey \in {"hex", "base64"}
  \/ s.tokenKey = "unset" /\ ~s.production /\ s.jwtSecret

\* The three settings of an Apple developer token are there.
AppleIdsSet(s) == s.appleIds /\ s.applePrivateKey # "unset"

\* generateMusicKitDeveloperToken returns a token, which is then well formed
\* and verifies against the public half of the same key: a key that is not an
\* EC private key makes the signature throw.
TokenVerifies(s) == AppleIdsSet(s) /\ s.applePrivateKey = "good"

\* resolveAppleMusicAuthBaseUrl: the origin that is used, and whether it is
\* accepted.
OriginUsed(s) ==
  IF s.authBase # "unset" THEN s.authBase
  ELSE IF s.apiBase # "unset" THEN s.apiBase ELSE "localhost"
OriginAccepted(s) ==
  /\ s.authBase = "unset" => ~s.production
  /\ OriginUsed(s) \in {"localhost", "https"}

\* Mutant of AppleReady: a domain of the hosting service counts as ready.
AppleReadyOnRailway(s) ==
  /\ s.authBase \in {"https", "railway"} /\ AppleIdsSet(s) /\ TokenVerifies(s)

\* getOAuthConfigDiagnostics, the "ready" of each provider.
SpotifyReady(s) == s.spotifyClient /\ RedirectValid(s)
AppleReady(s) == s.authBase = "https" /\ AppleIdsSet(s) /\ TokenVerifies(s)
Ready(s, provider) == IF provider = "spotify" THEN SpotifyReady(s) ELSE AppleReady(s)

----
(* The flow: "new", "asked" (the app opened the address), "authorizing"    *)
(* (Apple's page is shown), "agreed" (the provider calls back) and its end.*)

Refuse(where, why) == flow' = [flow EXCEPT !.at = "refused", !.where = where, !.why = why]
GoTo(place) == flow' = [flow EXCEPT !.at = place]

\* The settings both the address and the callback of Spotify insist on.
SpotifyConfigured == setup.spotifyClient /\ setup.redirect # "unset"

\* Mutant of BuildSpotifyAuthUrl: the address is not looked at before the user
\* is sent away.
BuildAnySpotifyAuthUrl ==
  /\ flow.at = "new" /\ flow.provider = "spotify"
  /\ IF ~SpotifyConfigured THEN Refuse("start", "settings")
     ELSE IF ~HasAccess(setup) THEN Refuse("start", "access")
     ELSE IF ~KeyUsable(setup) THEN Refuse("start", "key")
     ELSE GoTo("agreed")
  /\ UNCHANGED setup

\* buildSpotifyAuthUrl, with createOAuthState: the code verifier is sealed
\* under the key before the user leaves the app.
BuildSpotifyAuthUrl ==
  /\ flow.at = "new" /\ flow.provider = "spotify"
  /\ IF ~SpotifyConfigured \/ ~RedirectValid(setup) THEN Refuse("start", "settings")
     ELSE IF ~HasAccess(setup) THEN Refuse("start", "access")
     ELSE IF ~KeyUsable(setup) THEN Refuse("start", "key")
     ELSE GoTo("agreed")
  /\ UNCHANGED setup

\* handleSpotifyCallback: the same checks, the state consumed and its code
\* verifier opened, then the exchange, which Spotify may refuse for a reason of
\* its own (a wrong secret, an address that is not registered, a spent code).
HandleSpotifyCallback ==
  /\ flow.at = "agreed" /\ flow.provider = "spotify"
  /\ IF ~SpotifyConfigured \/ ~RedirectValid(setup) THEN Refuse("callback", "settings")
     ELSE IF ~HasAccess(setup) THEN Refuse("callback", "access")
     ELSE IF ~KeyUsable(setup) THEN Refuse("callback", "key")
     ELSE \E answer \in {"tokens", "refused"} :
            IF answer = "tokens" THEN GoTo("connected") ELSE Refuse("callback", "provider")
  /\ UNCHANGED setup

\* Mutant of BuildAppleMusicAuthUrl: the origin is checked with the test the
\* diagnostics use for https only.
BuildAppleMusicAuthUrlAnyHost ==
  /\ flow.at = "new" /\ flow.provider = "apple-music"
  /\ IF ~AppleIdsSet(setup) THEN Refuse("start", "settings")
     ELSE IF ~HasAccess(setup) THEN Refuse("start", "access")
     ELSE IF OriginUsed(setup) \notin {"https", "railway"} THEN Refuse("start", "settings")
     ELSE GoTo("asked")
  /\ UNCHANGED setup

\* buildAppleMusicAuthUrl: the state is created before the origin is resolved,
\* and nothing is sealed yet.
BuildAppleMusicAuthUrl ==
  /\ flow.at = "new" /\ flow.provider = "apple-music"
  /\ IF ~AppleIdsSet(setup) THEN Refuse("start", "settings")
     ELSE IF ~HasAccess(setup) THEN Refuse("start", "access")
     ELSE IF ~OriginAccepted(setup) THEN Refuse("start", "settings")
     ELSE GoTo("asked")
  /\ UNCHANGED setup

\* appleMusicAuthorize: the page is served with a token that verifies.
AppleMusicAuthorize ==
  /\ flow.at = "asked"
  /\ IF ~HasAccess(setup) THEN Refuse("page", "access")
     ELSE IF ~TokenVerifies(setup) THEN Refuse("page", "settings")
     ELSE GoTo("agreed")
  /\ UNCHANGED setup

\* appleMusicCallback and handleAppleMusicCallback: without a token (the user
\* declined) nothing is consumed; with one the state is consumed and the token
\* sealed, which is the first time this flow needs the key.
AppleMusicCallback ==
  /\ flow.at = "agreed" /\ flow.provider = "apple-music"
  /\ \E userToken \in BOOLEAN :
       IF ~userToken THEN Refuse("callback", "provider")
       ELSE IF ~HasAccess(setup) THEN Refuse("callback", "access")
       ELSE IF ~KeyUsable(setup) THEN Refuse("callback", "key")
       ELSE GoTo("connected")
  /\ UNCHANGED setup

----
ConfigInit ==
  \E provider \in {"spotify", "apple-music"} :
    /\ setup \in SetupsOf(provider)
    /\ flow = [provider |-> provider, at |-> "new", where |-> "nowhere", why |-> "nothing"]

ConfigNext ==
  \/ BuildSpotifyAuthUrl \/ HandleSpotifyCallback
  \/ BuildAppleMusicAuthUrl \/ AppleMusicAuthorize \/ AppleMusicCallback

ConfigSpec == ConfigInit /\ [][ConfigNext]_configVars

----
ConfigTypeOK ==
  /\ setup \in SetupShape
  /\ flow \in [provider: {"spotify", "apple-music"},
               at: {"new", "asked", "agreed", "connected", "refused"},
               where: {"nowhere", "start", "page", "callback"},
               why: {"nothing", "settings", "access", "key", "provider"}]

\* What the diagnostics do not count as ready and the flow accepts all the
\* same: Apple's page on localhost, or on the API's own origin outside
\* production.
ToleratedInDevelopment ==
  /\ flow.provider = "apple-music" /\ TokenVerifies(setup)
  /\ setup.authBase = "localhost" \/ (setup.authBase = "unset" /\ ~setup.production)

\* The diagnostics an administrator reads and the flow a user goes through,
\* which check the same settings in different code, agree: a provider that is
\* "ready" refuses nobody for its settings, and one that is not connects nobody,
\* but for the origins tolerated in development.  And a user who came back from
\* the provider is not turned away for a setting, but for Apple's late first use
\* of the encryption key.
DiagnosticsAreTrue ==
  /\ flow.why = "settings" => ~Ready(setup, flow.provider)
  /\ flow.at = "connected" => Ready(setup, flow.provider) \/ ToleratedInDevelopment
  /\ flow.where = "callback" /\ flow.why \in {"settings", "access", "key"}
       => flow.provider = "apple-music" /\ flow.why = "key" /\ ~KeyUsable(setup)
====
