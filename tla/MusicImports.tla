----------------------------- MODULE MusicImports -----------------------------
(***************************************************************************)
(* A link somebody pastes becomes a list of songs (music.service.ts): the  *)
(* link is prepared twice, the provider is asked with the tokens of the    *)
(* application or of the user, requests are repeated, and every failure is *)
(* told with a code the app acts upon.                                     *)
(*                                                                         *)
(* One import, from its link to what is told.  Caches and shared lookups   *)
(* are in MusicLookups, the user's connection in MusicConnections.  The    *)
(* provider answers truthfully unless it fails; what it knows is `world`.  *)
(***************************************************************************)
EXTENDS Naturals, FiniteSets

CONSTANTS FetchRetries,   \* FETCH_MAX_RETRIES
          Nobody

ASSUME ImportAssumption == FetchRetries \in Nat

VARIABLES
    link,         \* what is asked for
    world,        \* what the provider knows of it
    connection1,  \* the user's connection with the provider
    errand,       \* the step of the import and the request under way
    told,         \* the answer, Nobody until there is one
    failed        \* a failure of the provider got through the retries

importVars == <<link, world, connection1, errand, told, failed>>

-----------------------------------------------------------------------------
(* Links.                                                                  *)

\* A short link, and what it leads to.
SpotifyLink ==
    [host : {"spotify"}, short : BOOLEAN, kind : {"track", "album", "playlist", "artist"},
     id : {"none", "plain"}]

\* A path is (storefront)/kind/(name)/id; i: the query parameter.
AppleLink ==
    [host : {"apple"}, kind : {"song", "album", "playlist", "artist"},
     storefront : BOOLEAN, name : BOOLEAN,
     id : {"none", "digits", "pl.", "pl.u-", "p."},
     i : {"none", "empty", "digits", "text"}]

OtherLink == [host : {"no url", "lookalike"}]

\* What prepareLink makes of a link that is not short.
LinkType(l) ==
    CASE l.host = "spotify" /\ l.kind # "artist" -> l.kind
      [] l.host = "apple" /\ l.kind = "playlist" -> "playlist"
      [] l.host = "apple" /\ (l.kind = "song" \/ l.i # "none") /\ l.kind # "playlist" -> "track"
      [] l.host = "apple" /\ l.kind = "album" /\ l.i = "none" -> "album"
      [] OTHER -> "unknown"

\* Mutant of Normalized: the query is dropped whatever it says.
NormalizedWithoutQuery(l) ==
    IF l.host = "apple" THEN [l EXCEPT !.i = "none"] ELSE l

\* normalizeSpotifyUrl, normalizeAppleUrl: an i without a value is dropped.
Normalized(l) ==
    IF l.host = "apple" /\ l.i = "empty" THEN [l EXCEPT !.i = "none"] ELSE l

SpotifyIdOf(l) == l.id

AppleTrackId(l) == l.i = "digits" \/ (l.kind = "song" /\ l.id = "digits")

ApplePlaylistId(l) ==
    l.kind = "playlist" /\ l.storefront /\ l.name /\ l.id # "none"

AppleAlbumId(l) ==
    l.kind = "album" /\ l.i = "none" /\ l.storefront /\ l.name /\ l.id = "digits"

\* The extractor of the link's provider and type finds an id.
HasId(l) ==
    IF l.host = "spotify" THEN SpotifyIdOf(l) # "none"
    ELSE CASE LinkType(l) = "track" -> AppleTrackId(l)
           [] LinkType(l) = "album" -> AppleAlbumId(l)
           [] OTHER -> ApplePlaylistId(l)

\* isPersonal of listAppleMusicPlaylist
IsPersonal(l) == l.host = "apple" /\ l.id \in {"pl.u-", "p."}

-----------------------------------------------------------------------------
(* The provider.                                                           *)

\* "deep": own, behind the first 500 playlists of a library.
World ==
    [access : {"public", "own", "deep", "foreign", "gone"}, songs : BOOLEAN]

\* "rejected": the row says connected, the provider refuses the token.
Connection1 ==
    [status : {"none", "connected", "rejected", "reauth_required"}, scope : BOOLEAN]

Refusal == {"400", "401", "403", "404", "408"}
Fault == {"429", "5xx", "timeout", "network"}
Answer == {"ok"} \cup Refusal \cup Fault

\* Whether the connection lets the user read what is asked for.
UserReads ==
    /\ connection1.status = "connected"
    /\ \/ world.access = "public"
       \/ world.access \in {"own", "deep"} /\ (link.host = "apple" \/ connection1.scope)

\* What a sound provider answers to the token of the application, of the user.
ToApplication == IF world.access = "public" THEN "ok" ELSE "404"

ToUser ==
    IF connection1.status # "connected" THEN "401"
    ELSE IF UserReads THEN "ok" ELSE "404"

-----------------------------------------------------------------------------
(* The import.                                                             *)

Code == {"INVALID_LINK", "UNSUPPORTED_PROVIDER_URL", "NORMALIZATION_FAILURE",
         "PROVIDER_AUTH_FAILURE", "PROVIDER_NOT_FOUND", "PROVIDER_RATE_LIMIT",
         "PROVIDER_TIMEOUT", "PROVIDER_UNAVAILABLE", "NETWORK_FAILURE",
         "UNKNOWN_RESOLUTION_FAILURE", "PROVIDER_NOT_CONNECTED",
         "PROVIDER_REAUTH_REQUIRED"}

Told0 == [code : Code \cup {"songs", "no songs"}, retriable : BOOLEAN]

Step0 == {"prepare", "short", "prepare again", "lookup", "library", "user token",
          "user", "application", "later token", "later user", "judge", "apple token",
          "apple library", "apple", "search", "recent token", "recent", "done"}

\* route: what the controller made of the first preparation; token, userStatus,
\* status: whether the user's token was had, what was answered to it and to the
\* application's; again: the one repetition after a refusal of the latter.
Errand ==
    [step : Step0, tries : 0..FetchRetries, again : BOOLEAN,
     prepared : SpotifyLink \cup AppleLink \cup OtherLink,
     route : {"track", "collection", Nobody}, token : BOOLEAN,
     userStatus : Answer \cup {Nobody}, status : Answer \cup {Nobody}]

ImportTypeOK ==
    /\ link \in SpotifyLink \cup AppleLink \cup OtherLink
    /\ world \in World
    /\ connection1 \in Connection1
    /\ errand \in Errand
    /\ told \in Told0 \cup {Nobody}
    /\ failed \in BOOLEAN

\* Only playlists are anybody's own, and the ids of Apple tell which.
ImportInit ==
    /\ link \in SpotifyLink \cup AppleLink \cup OtherLink
    /\ world \in World
    /\ LinkType(link) # "playlist" => world.access \in {"public", "gone"}
    /\ link.host = "apple" =>
         IF IsPersonal(link) THEN world.access # "public"
         ELSE world.access \in {"public", "gone"}
    /\ connection1 \in Connection1
    /\ told = Nobody
    /\ failed = FALSE
    /\ errand \in [step : {"prepare", "search", "recent token"}, tries : {0},
                   again : {FALSE}, prepared : {link}, route : {Nobody},
                   token : {FALSE}, userStatus : {Nobody}, status : {Nobody}]

AtStep(s) == errand.step = s

To(s) ==
    /\ errand' = [errand EXCEPT !.step = s, !.tries = 0, !.again = FALSE]
    /\ UNCHANGED told

Tell(code, retriable) ==
    /\ told' = [code |-> code, retriable |-> retriable]
    /\ errand' = [errand EXCEPT !.step = "done"]

Songs == Tell(IF world.songs THEN "songs" ELSE "PROVIDER_NOT_FOUND", FALSE)

\* mapResponseToError, and the errors that resilientFetch throws.
ErrorOf(s) ==
    CASE s \in {"401", "403"}     -> "PROVIDER_AUTH_FAILURE"
      [] s = "404"                -> "PROVIDER_NOT_FOUND"
      [] s = "429"                -> "PROVIDER_RATE_LIMIT"
      [] s \in {"408", "timeout"} -> "PROVIDER_TIMEOUT"
      [] s = "5xx"                -> "PROVIDER_UNAVAILABLE"
      [] s = "network"            -> "NETWORK_FAILURE"
      [] OTHER                    -> "UNKNOWN_RESOLUTION_FAILURE"

TellStatus(s) == Tell(ErrorOf(s), s \in Fault \cup {"408"})

Thrown == {"timeout", "network"}

\* resilientFetch tries 429, 5xx and exceptions again, and no refusal.
Retried(answer) ==
    /\ answer \in Fault
    /\ ~errand.again
    /\ errand.tries < FetchRetries
    /\ errand' = [errand EXCEPT !.tries = @ + 1]
    /\ UNCHANGED <<connection1, told, failed>>

\* The answer that gets through is what is due, or a failure.
Through(answer, due) ==
    /\ answer = due \/ answer \in Fault \cup {"400", "408"}
    /\ answer \in Fault => errand.again \/ errand.tries = FetchRetries
    /\ failed' = (failed \/ answer # due)

\* spotifyApiCall and appleMusicApiCall: once more with a new token, and without
\* the retries; another refusal of it is a failure.
Refused1 == IF link.host = "apple" THEN {"401", "403"} ELSE {"401"}

Renewed(answer) ==
    /\ answer \in Refused1
    /\ ~errand.again
    /\ errand' = [errand EXCEPT !.again = TRUE, !.tries = 0]
    /\ UNCHANGED <<connection1, told, failed>>

Concluded(answer, due) ==
    /\ answer \in Refused1 => errand.again
    /\ \/ Through(answer, due)
       \/ answer \in Refused1 \ {due} /\ failed' = TRUE

\* requireReauthorization
Reauthorize ==
    connection1' = IF connection1.status = "none" THEN connection1
                   ELSE [connection1 EXCEPT !.status = "reauth_required"]

-----------------------------------------------------------------------------
(* prepareLink, by the controller and again by what it calls.              *)

Rejected(l) ==
    IF l.host = "lookalike" THEN "UNSUPPORTED_PROVIDER_URL"
    ELSE IF LinkType(l) = "unknown" THEN "INVALID_LINK" ELSE "none"

IsShort(l) == l.host = "spotify" /\ l.short

PrepareLink ==
    LET l == errand.prepared IN
    /\ errand.step \in {"prepare", "prepare again"}
    /\ UNCHANGED <<connection1, failed>>
    /\ \/ IsShort(l) /\ To("short")
       \/ ~IsShort(l) /\ Rejected(l) # "none" /\ Tell(Rejected(l), FALSE)
       \/ /\ ~IsShort(l) /\ Rejected(l) = "none"
          /\ UNCHANGED told
          /\ errand' = [errand EXCEPT !.prepared = Normalized(l),
                !.step = IF AtStep("prepare") THEN "prepare again" ELSE "lookup",
                !.route = IF AtStep("prepare")
                          THEN IF LinkType(l) = "track" THEN "track" ELSE "collection"
                          ELSE @]

\* resolveSpotifyShortLink: one retry; a link that leads nowhere else is refused.
ResolveShortLink ==
    /\ AtStep("short")
    /\ UNCHANGED connection1
    /\ \E answer \in Answer :
         \/ answer \in Fault /\ errand.tries < 1 /\ Retried(answer)
         \/ /\ answer = "ok"
            /\ UNCHANGED <<told, failed>>
            /\ errand' = [errand EXCEPT !.step = "prepare", !.tries = 0,
                                        !.prepared.short = FALSE]
         \/ answer = "ok" /\ Tell("NORMALIZATION_FAILURE", FALSE) /\ failed' = TRUE
         \/ /\ answer # "ok"
            /\ answer \in Fault => errand.tries = 1
            /\ TellStatus(answer)
            /\ failed' = TRUE

\* parsePreparedTrack, listPreparedCollection
Lookup ==
    LET l == errand.prepared IN
    /\ AtStep("lookup")
    /\ UNCHANGED <<connection1, failed>>
    /\ IF (errand.route = "track") # (LinkType(l) = "track")
       THEN Tell("INVALID_LINK", FALSE)
       ELSE IF ~HasId(l) THEN Tell("NORMALIZATION_FAILURE", FALSE)
       ELSE To(IF l.host = "apple"
               THEN IF IsPersonal(l) /\ LinkType(l) = "playlist" THEN "apple token" ELSE "apple"
               ELSE IF LinkType(l) = "playlist" THEN "library" ELSE "application")

-----------------------------------------------------------------------------
(* Spotify.                                                                *)

HasToken == connection1.status \in {"connected", "rejected"}

\* Mutant of TryLibrary: what goes wrong is told.
TryLibraryOrTell ==
    /\ AtStep("library")
    /\ \/ HasToken /\ \E answer \in Answer :
            /\ answer = ToUser \/ answer \in Fault \cup {"400", "408"}
            /\ failed' = (failed \/ answer # ToUser)
            /\ IF answer = "401" THEN Reauthorize ELSE UNCHANGED connection1
            /\ IF answer = "ok" THEN Songs ELSE TellStatus(answer)
       \/ /\ UNCHANGED connection1
          /\ To("user token")
          /\ failed' = (failed \/ HasToken)

\* loadProviderPlaylist asks once per page; whatever goes wrong is swallowed.
TryLibrary ==
    /\ AtStep("library")
    /\ \/ HasToken /\ \E answer \in Answer :
            /\ answer = ToUser \/ answer \in Fault \cup {"400", "408"}
            /\ failed' = (failed \/ answer # ToUser)
            /\ IF answer = "401" THEN Reauthorize ELSE UNCHANGED connection1
            /\ IF answer = "ok" /\ world.songs THEN Songs ELSE To("user token")
       \/ /\ UNCHANGED connection1
          /\ To("user token")
          /\ failed' = (failed \/ HasToken)

\* getUserSpotifyAccessToken is null when anything goes wrong.
UserToken ==
    /\ AtStep("user token")
    /\ UNCHANGED connection1
    /\ \/ /\ HasToken
          /\ errand' = [errand EXCEPT !.step = "user", !.token = TRUE]
          /\ UNCHANGED <<told, failed>>
       \/ To("application") /\ failed' = (failed \/ HasToken)

AskAsUser ==
    /\ AtStep("user")
    /\ \E answer \in Answer :
         \/ Retried(answer)
         \/ /\ Through(answer, ToUser)
            /\ IF answer = "401" THEN Reauthorize ELSE UNCHANGED connection1
            /\ CASE answer = "ok"      -> Songs
                 [] answer \in Thrown -> TellStatus(answer)
                 [] OTHER -> /\ errand' = [errand EXCEPT !.step = "application",
                                             !.tries = 0, !.userStatus = answer]
                             /\ UNCHANGED told

\* spotifyApiCall, for a track, an album or a playlist.
AskAsApplication ==
    LET list == LinkType(errand.prepared) = "playlist" IN
    /\ AtStep("application")
    /\ \/ /\ Tell("PROVIDER_AUTH_FAILURE", FALSE)
          /\ failed' = TRUE
          /\ UNCHANGED connection1
       \/ \E answer \in Answer :
          \/ Retried(answer) \/ Renewed(answer)
          \/ /\ Concluded(answer, ToApplication)
             /\ UNCHANGED connection1
             /\ CASE answer = "ok"                 -> Songs
                  [] answer \in Thrown \/ (answer # "ok" /\ ~list) -> TellStatus(answer)
                  [] OTHER -> /\ UNCHANGED told
                              /\ errand' = [errand EXCEPT !.tries = 0, !.again = FALSE,
                                    !.status = answer,
                                    !.step = IF answer \in {"403", "404"} /\ ~errand.token
                                             THEN "later token" ELSE "judge"]

\* The second chance when no user token was had the first time.
LaterToken ==
    /\ AtStep("later token")
    /\ UNCHANGED connection1
    /\ \/ HasToken /\ To("later user") /\ UNCHANGED failed
       \/ To("judge") /\ failed' = (failed \/ HasToken)

AskAsUserLater ==
    /\ AtStep("later user")
    /\ \E answer \in Answer :
         \/ Retried(answer)
         \/ /\ Through(answer, ToUser)
            /\ UNCHANGED connection1
            /\ CASE answer = "ok"      -> Songs
                 [] answer \in Thrown -> TellStatus(answer)
                 [] OTHER             -> To("judge")

\* What a playlist that could not be read is told with.
Judge ==
    /\ AtStep("judge")
    /\ UNCHANGED <<connection1, failed>>
    /\ IF "404" \notin {errand.status, errand.userStatus} THEN TellStatus(errand.status)
       ELSE Tell(IF ~errand.token THEN "PROVIDER_NOT_CONNECTED"
                 ELSE IF ~connection1.scope THEN "PROVIDER_REAUTH_REQUIRED"
                 ELSE "PROVIDER_NOT_FOUND", FALSE)

-----------------------------------------------------------------------------
(* Apple Music.                                                            *)

AppleToken ==
    /\ AtStep("apple token")
    /\ UNCHANGED connection1
    /\ \/ /\ HasToken
          /\ To(IF link.id = "p." THEN "apple" ELSE "apple library")
          /\ UNCHANGED failed
       \/ Tell("PROVIDER_NOT_CONNECTED", FALSE) /\ failed' = (failed \/ HasToken)

\* findAppleLibraryPlaylistId looks through the first 500 playlists of the
\* library, and takes a refusal for the end of them.
FindInLibrary ==
    LET due == IF connection1.status = "connected" THEN "ok" ELSE "401" IN
    /\ AtStep("apple library")
    /\ \E answer \in Answer :
         \/ Retried(answer) \/ Renewed(answer)
         \/ /\ Concluded(answer, due)
            /\ IF answer = "401" THEN Reauthorize ELSE UNCHANGED connection1
            /\ CASE answer = "ok" /\ world.access = "own" -> To("apple")
                 [] answer \in Thrown                     -> TellStatus(answer)
                 [] OTHER -> Tell("PROVIDER_NOT_FOUND", FALSE)

AskApple ==
    LET personal == IsPersonal(link) /\ LinkType(link) = "playlist"
        due == IF personal THEN ToUser ELSE ToApplication
    IN  /\ AtStep("apple")
        /\ \/ /\ Tell("PROVIDER_AUTH_FAILURE", FALSE)
              /\ failed' = TRUE
              /\ UNCHANGED connection1
           \/ \E answer \in Answer :
              \/ Retried(answer) \/ Renewed(answer)
              \/ /\ Concluded(answer, due)
                 /\ IF answer = "401" /\ personal THEN Reauthorize
                    ELSE UNCHANGED connection1
                 /\ IF answer = "ok" THEN Songs ELSE TellStatus(answer)

-----------------------------------------------------------------------------
(* Search and the songs played last: no songs, whatever goes wrong.        *)

Nothing1 == Tell("no songs", FALSE)

Search ==
    /\ AtStep("search")
    /\ UNCHANGED connection1
    /\ \/ Nothing1 /\ failed' = TRUE
       \/ \E answer \in Answer :
            \/ Retried(answer)
            \/ /\ Through(answer, "ok")
               /\ IF answer = "ok" /\ world.songs THEN Tell("songs", FALSE) ELSE Nothing1

RecentToken ==
    /\ AtStep("recent token")
    /\ UNCHANGED connection1
    /\ \/ HasToken /\ To("recent") /\ UNCHANGED failed
       \/ Nothing1 /\ failed' = (failed \/ HasToken)

Recent ==
    LET due == IF connection1.status = "connected" THEN "ok" ELSE "401" IN
    /\ AtStep("recent")
    /\ UNCHANGED connection1
    /\ \E answer \in Answer :
         \/ Retried(answer)
         \/ /\ Through(answer, due)
            /\ IF answer = "ok" /\ world.songs THEN Tell("songs", FALSE) ELSE Nothing1

-----------------------------------------------------------------------------
ImportNext ==
    /\ told = Nobody
    /\ UNCHANGED <<link, world>>
    /\ \/ PrepareLink \/ ResolveShortLink \/ Lookup
       \/ TryLibrary \/ UserToken \/ AskAsUser \/ AskAsApplication
       \/ LaterToken \/ AskAsUserLater \/ Judge
       \/ AppleToken \/ FindInLibrary \/ AskApple
       \/ Search \/ RecentToken \/ Recent

ImportSpec == ImportInit /\ [][ImportNext]_importVars

-----------------------------------------------------------------------------
(* Properties.                                                             *)

WellFormed == LinkType(link) # "unknown" /\ HasId(link)

\* Behind the 500th playlist of a library only its own id finds one.
Reachable ==
    \/ world.access = "public"
    \/ UserReads /\ ~(world.access = "deep" /\ link.host = "apple" /\ link.id = "pl.u-")

\* When no failure of the provider gets through the retries, an import is told
\* the truth: a playlist that the provider would show to the application or to
\* the user is imported, by whichever of the paths; nobody is sent away to
\* connect who is connected, or to reconnect who gave all scopes; and nothing
\* is put on the provider (listSpotifyPlaylist, listAppleMusicPlaylist).
NoFaultNoExcuse ==
    told # Nobody /\ ~failed /\ errand.route # Nobody =>
        /\ WellFormed => ((told.code = "songs") <=> (Reachable /\ world.songs))
        /\ told.code = "PROVIDER_NOT_CONNECTED" => connection1.status # "connected"
        /\ told.code = "PROVIDER_REAUTH_REQUIRED" =>
             connection1.status = "connected" /\ ~connection1.scope
        /\ ~told.retriable

\* A link is not taken for one thing by the controller and for another by what it
\* calls, except for an Apple link with an i that has no value (prepareLink).
PreparedAlike ==
    told # Nobody /\ told.code = "INVALID_LINK" /\ errand.route # Nobody
        => link.host = "apple" /\ link.i = "empty"

\* "no Spotify connection at all" is distinguished from "connected but this
\* account can't access it" (music.service.ts:1589).
ConnectMeansNotConnected ==
    told # Nobody /\ told.code = "PROVIDER_NOT_CONNECTED"
        => connection1.status # "connected"

=============================================================================
