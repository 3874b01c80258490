-------------------------- MODULE MusicConnections --------------------------
(***************************************************************************)
(* The music accounts of one user: the table music_connections, the        *)
(* authorization states, the list connectedPlatforms and the legacy tokens *)
(* of the user's row (music-connections.service.ts), as the requests of    *)
(* several processes read them, call the provider and save them again.     *)
(*                                                                         *)
(* A handler is cut at every await between a read and the save that uses   *)
(* it.  Profile data, scopes, counters and sync times are left out, and so *)
(* is the encryption of the tokens; a token is there, fresh or stale.      *)
(***************************************************************************)
EXTENDS Naturals, FiniteSets

CONSTANTS MusicCall,      \* requests that may be under way at once
          MusicProcess,   \* API processes, each with its map of refreshes
          OAuthState,     \* authorization states that are ever issued
          MaxRow,         \* connections that are ever inserted
          Offers,         \* configurations: the providers each of them offers
          Absent

ASSUME MusicAssumption ==
    /\ MaxRow \in Nat
    /\ Offers \subseteq SUBSET {"spotify", "apple-music"}
    /\ Absent \notin MusicCall \cup MusicProcess

VARIABLES
    offered,      \* providers with connections enabled
    connection,   \* music_connections of the user, by provider
    made,         \* rows inserted so far, for their ids
    legacy,       \* providers with a legacy token in the user's row
    platforms,    \* connectedPlatforms of the user's row
    oauth,        \* music_oauth_states
    musicCall,    \* the requests under way and what they have read
    refreshing,   \* pendingSpotifyRefreshes of every process
    left          \* providers disconnected, and neither consented to nor back since

musicVars == <<offered, connection, made, legacy, platforms, oauth, musicCall,
               refreshing, left>>

Provider == {"spotify", "apple-music"}

ConnectionRow ==
    [id : 0..MaxRow, status : {"connected", "reauth_required"},
     access : {"none", "fresh", "stale"}, refresh : BOOLEAN]

AuthState == [status : {"unissued", "open", "consumed", "expired", "deleted"},
              provider : Provider, passes : Nat]

\* old: it was under way when a disconnect of its provider completed.
Request0 ==
    [kind : {"connect", "token", "list", "refused", "leave", "profile"},
     step : {"away", "exchange", "find", "insert", "joined", "look", "migrate",
             "clear", "ask", "store", "mark", "user", "keep", "forget"},
     provider : Provider, process : MusicProcess \cup {Absent},
     copy : ConnectionRow \cup {Absent}, list : SUBSET Provider, old : BOOLEAN]

Away0 == [kind |-> "list", step |-> "away", provider |-> "spotify",
          process |-> Absent, copy |-> Absent, list |-> {}, old |-> FALSE]

MusicTypeOK ==
    /\ offered \in Offers
    /\ connection \in [Provider -> ConnectionRow \cup {Absent}]
    /\ made \in 0..MaxRow
    /\ legacy \subseteq Provider
    /\ platforms \subseteq Provider
    /\ oauth \in [OAuthState -> AuthState]
    /\ musicCall \in [MusicCall -> Request0]
    /\ refreshing \in [MusicProcess -> MusicCall \cup {Absent}]
    /\ left \subseteq Provider

\* A user of the time before music_connections may have a legacy token.
\* assertProviderAccess refuses what is not offered, and there is nothing of
\* it to disconnect.
MusicInit ==
    /\ offered \in Offers
    /\ connection = [p \in Provider |-> Absent]
    /\ made = 0
    /\ legacy \in SUBSET offered
    /\ platforms = legacy
    /\ oauth = [s \in OAuthState |-> [status |-> "unissued",
                                      provider |-> "spotify", passes |-> 0]]
    /\ musicCall = [c \in MusicCall |-> Away0]
    /\ refreshing = [m \in MusicProcess |-> Absent]
    /\ left = {}

-----------------------------------------------------------------------------
(* The steps requests are made of.                                         *)

At(c, step) == musicCall[c].step = step

Step(c, step) == musicCall' = [musicCall EXCEPT ![c].step = step]

Enter(c, kind, p, m, step) ==
    /\ At(c, "away")
    /\ musicCall' = [musicCall EXCEPT
         ![c] = [Away0 EXCEPT !.kind = kind, !.provider = p, !.process = m,
                              !.step = step]]

\* Requests whose promise settles when that of c does: c and, if c leads a
\* refresh, those that wait for it.
SettledWith(c) ==
    {c} \cup {d \in MusicCall : /\ At(d, "joined")
                                /\ refreshing[musicCall[d].process] = c}

\* The request is over, whether it returns or throws; the finally block of
\* spotifyAccessToken takes it out of the map.
Over(c) ==
    /\ musicCall' = [d \in MusicCall |->
                       IF d \in SettledWith(c) THEN Away0 ELSE musicCall[d]]
    /\ refreshing' = [m \in MusicProcess |->
                        IF refreshing[m] = c THEN Absent ELSE refreshing[m]]

\* save() of an entity: an update of the row with its id, or an insert; the
\* unique index on (userId, provider) refuses a second row.
CanSave(p, e) ==
    IF connection[p] = Absent THEN TRUE ELSE connection[p].id = e.id

Save(p, e) ==
    LET new == e.id = 0 IN
    /\ CanSave(p, e)
    /\ new => made < MaxRow
    /\ made' = IF new THEN made + 1 ELSE made
    /\ connection' = [connection EXCEPT ![p] =
                        IF new THEN [e EXCEPT !.id = made + 1] ELSE e]
    /\ left' = left \ {p}

-----------------------------------------------------------------------------
(* Authorization: createOAuthState, the callback and what it stores.       *)

\* Expired states are deleted before a new one is stored.
CreateOAuthState(s, p) ==
    /\ oauth[s].status = "unissued"
    /\ oauth' = [t \in OAuthState |->
          IF t = s THEN [oauth[s] EXCEPT !.status = "open", !.provider = p]
          ELSE IF oauth[t].status = "expired"
               THEN [oauth[t] EXCEPT !.status = "deleted"] ELSE oauth[t]]
    /\ UNCHANGED <<connection, made, legacy, platforms, musicCall, refreshing,
                   left>>

\* Ten minutes pass; a consumed row may expire too, and is refused anyway.
StateExpires(s) ==
    /\ oauth[s].status = "open"
    /\ oauth' = [oauth EXCEPT ![s].status = "expired"]
    /\ UNCHANGED <<connection, made, legacy, platforms, musicCall, refreshing,
                   left>>

\* Mutant of Callback: consumedAt is not looked at.
CallbackAgain(c, m, s) ==
    LET p == oauth[s].provider IN
    /\ oauth[s].status \in {"open", "consumed"}
    /\ oauth[s].passes < 2
    /\ oauth' = [oauth EXCEPT ![s].status = "consumed",
                              ![s].passes = @ + 1]
    /\ Enter(c, "connect", p, m, IF p = "spotify" THEN "exchange" ELSE "find")
    /\ left' = left \ {p}
    /\ UNCHANGED <<connection, made, legacy, platforms, refreshing>>

\* consumeOAuthState: one transaction that locks the row, or refuses.  Apple's
\* callback brings the token, Spotify's a code that is exchanged for one.
Callback(c, m, s) ==
    LET p == oauth[s].provider IN
    /\ oauth[s].status = "open"
    /\ oauth' = [oauth EXCEPT ![s].status = "consumed",
                              ![s].passes = @ + 1]
    /\ Enter(c, "connect", p, m, IF p = "spotify" THEN "exchange" ELSE "find")
    /\ left' = left \ {p}
    /\ UNCHANGED <<connection, made, legacy, platforms, refreshing>>

\* The code is exchanged and the profile read; connectSpotify goes on.
Exchanged(c) ==
    /\ At(c, "exchange")
    /\ Step(c, "find")
    /\ UNCHANGED <<connection, made, legacy, platforms, oauth, refreshing, left>>

FindExisting(c) ==
    /\ At(c, "find")
    /\ musicCall' = [musicCall EXCEPT
          ![c].copy = connection[musicCall[c].provider], ![c].step = "insert"]
    /\ UNCHANGED <<connection, made, legacy, platforms, oauth, refreshing, left>>

\* Spotify may keep the refresh token to itself; the one on file then stays.
StoreConnection(c) ==
    LET p == musicCall[c].provider
        e == musicCall[c].copy IN
    /\ At(c, "insert")
    /\ \E granted \in BOOLEAN :
         LET kept == e # Absent /\ e.refresh IN
         Save(p, [id |-> IF e = Absent THEN 0 ELSE e.id, status |-> "connected",
                  access |-> "fresh",
                  refresh |-> p = "spotify" /\ (granted \/ kept)])
    /\ Step(c, "user")
    /\ UNCHANGED <<legacy, platforms, oauth, refreshing>>

\* addConnectedPlatform, markReauthRequired, disconnect and disconnectPlatform
\* read the user's row and save it with the list changed.
ReadUser(c) ==
    /\ At(c, "user")
    /\ musicCall' = [musicCall EXCEPT ![c].list = platforms, ![c].step = "keep"]
    /\ UNCHANGED <<connection, made, legacy, platforms, oauth, refreshing, left>>

SaveUser(c) ==
    LET r == musicCall[c] IN
    /\ At(c, "keep")
    /\ platforms' = IF r.kind = "connect"
                    THEN IF r.provider \in r.list THEN platforms
                         ELSE r.list \cup {r.provider}
                    ELSE r.list \ {r.provider}
    /\ IF r.kind = "leave"
       THEN Step(c, "forget") /\ UNCHANGED refreshing
       ELSE Over(c)
    /\ UNCHANGED <<connection, made, legacy, oauth, left>>

-----------------------------------------------------------------------------
(* Tokens: spotifyAccessToken, appleMusicUserToken, the migration of legacy *)
(* tokens.                                                                  *)

\* Mutant of AskToken: the map is written but not looked at.
AskTokenAlone(c, m, p) ==
    /\ Enter(c, "token", p, m, "look")
    /\ refreshing' = IF p = "spotify" THEN [refreshing EXCEPT ![m] = c]
                     ELSE refreshing
    /\ UNCHANGED <<connection, made, legacy, platforms, oauth, left>>

\* Calls of one process for one user share a refresh; Apple's share nothing.
AskToken(c, m, p) ==
    /\ \/ /\ p = "spotify" /\ refreshing[m] # Absent
          /\ Enter(c, "token", p, m, "joined")
          /\ UNCHANGED refreshing
       \/ /\ p = "spotify" /\ refreshing[m] = Absent
          /\ Enter(c, "token", p, m, "look")
          /\ refreshing' = [refreshing EXCEPT ![m] = c]
       \/ /\ p = "apple-music"
          /\ Enter(c, "token", p, m, "look")
          /\ UNCHANGED refreshing
    /\ UNCHANGED <<connection, made, legacy, platforms, oauth, left>>

\* The row decides: no row, a legacy token is looked for; a usable token is
\* returned; without the token to go on with the connection is given up.  After
\* a migration of Spotify's, the row it saved stands in for one that is gone.
Look(c) ==
    LET p == musicCall[c].provider
        row == IF connection[p] = Absent THEN musicCall[c].copy ELSE connection[p]
        held == musicCall' = [musicCall EXCEPT ![c].copy = row,
                  ![c].step = IF p = "spotify" /\ row.refresh THEN "ask"
                              ELSE "mark"] IN
    /\ At(c, "look")
    /\ \/ row = Absent /\ p \in legacy /\ Step(c, "migrate")
          /\ UNCHANGED refreshing
       \/ row = Absent /\ p \notin legacy /\ Over(c)
       \/ /\ row # Absent
          /\ \/ row.status = "reauth_required" \/ row.access = "fresh"
             \/ p = "apple-music" /\ row.access # "none"
          /\ Over(c)
       \/ /\ row # Absent
          /\ row.status = "connected" /\ row.access # "fresh"
          /\ ~(p = "apple-music" /\ row.access # "none")
          /\ held
          /\ UNCHANGED refreshing
    /\ UNCHANGED <<connection, made, legacy, platforms, oauth, left>>

\* The list of connections migrates what it does not find; it reads the list
\* of platforms and the rows.
ListConnections(c, m, p) ==
    /\ p \in platforms /\ connection[p] = Absent /\ p \in legacy
    /\ Enter(c, "list", p, m, "migrate")
    /\ UNCHANGED <<connection, made, legacy, platforms, oauth, refreshing, left>>

\* The legacy token of the user's row as it was read becomes a connection, which
\* Spotify's migration keeps in hand.
Migrate(c) ==
    LET p == musicCall[c].provider
        row == [id |-> 0, status |-> "connected",
                access |-> IF p = "spotify" THEN "none" ELSE "fresh",
                refresh |-> p = "spotify"] IN
    /\ At(c, "migrate")
    /\ Save(p, row)
    /\ musicCall' = [musicCall EXCEPT ![c].step = "clear",
          ![c].copy = IF p = "spotify" THEN [row EXCEPT !.id = made + 1] ELSE @]
    /\ UNCHANGED <<legacy, platforms, oauth, refreshing>>

ClearLegacy(c) ==
    LET p == musicCall[c].provider IN
    /\ At(c, "clear")
    /\ legacy' = legacy \ {p}
    /\ IF musicCall[c].kind = "token"
       THEN Step(c, "look") /\ UNCHANGED refreshing
       ELSE Over(c)
    /\ UNCHANGED <<connection, made, platforms, oauth, left>>

\* Spotify answers the refresh: a new token, a refusal, or nothing of use.
Refreshed(c) ==
    /\ At(c, "ask")
    /\ \/ Step(c, "store") /\ UNCHANGED refreshing
       \/ Step(c, "mark") /\ UNCHANGED refreshing
       \/ Over(c)
    /\ UNCHANGED <<connection, made, legacy, platforms, oauth, left>>

\* The row as it was read before the refresh is saved with the new token.
StoreRefreshed(c) ==
    /\ At(c, "store")
    /\ Save(musicCall[c].provider,
            [musicCall[c].copy EXCEPT !.status = "connected",
                                      !.access = "fresh", !.refresh = TRUE])
    /\ Over(c)
    /\ UNCHANGED <<legacy, platforms, oauth>>

\* Two minutes before accessTokenExpiresAt.  A token of Apple's has no expiry.
AccessExpires ==
    /\ connection["spotify"] # Absent
    /\ connection["spotify"].access = "fresh"
    /\ connection' = [connection EXCEPT !["spotify"].access = "stale"]
    /\ UNCHANGED <<made, legacy, platforms, oauth, musicCall, refreshing, left>>

-----------------------------------------------------------------------------
(* The end of a connection.                                                *)

\* requireReauthorization: a provider's 401 somewhere else, or an operator.
Refused(c, m, p) ==
    /\ connection[p] # Absent
    /\ At(c, "away")
    /\ musicCall' = [musicCall EXCEPT
          ![c] = [Away0 EXCEPT !.kind = "refused", !.provider = p,
                    !.process = m, !.step = "mark", !.copy = connection[p]]]
    /\ UNCHANGED <<connection, made, legacy, platforms, oauth, refreshing, left>>

\* markReauthRequired: the row as it was read is saved without its tokens.
MarkReauth(c) ==
    /\ At(c, "mark")
    /\ Save(musicCall[c].provider,
            [musicCall[c].copy EXCEPT !.status = "reauth_required",
                                      !.access = "none", !.refresh = FALSE])
    /\ Step(c, "user")
    /\ UNCHANGED <<legacy, platforms, oauth, refreshing>>

\* disconnect: the row is deleted, then the user's row is read and saved.
Disconnect(c, m, p) ==
    /\ Enter(c, "leave", p, m, "user")
    /\ connection' = [connection EXCEPT ![p] = Absent]
    /\ UNCHANGED <<made, legacy, platforms, oauth, refreshing, left>>

\* Mutant of Forget: the legacy token stays.
ForgetNothing(c) ==
    LET p == musicCall[c].provider IN
    /\ At(c, "forget")
    /\ left' = IF connection[p] = Absent THEN left \cup {p} ELSE left
    /\ musicCall' = [d \in MusicCall |->
          IF d = c THEN Away0
          ELSE IF At(d, "away") THEN musicCall[d]
               ELSE [musicCall[d] EXCEPT !.old = @ \/ musicCall[d].provider = p]]
    /\ UNCHANGED <<connection, made, legacy, platforms, oauth, refreshing>>

\* Its last step clears the legacy token.
Forget(c) ==
    LET p == musicCall[c].provider IN
    /\ At(c, "forget")
    /\ legacy' = legacy \ {p}
    /\ left' = IF connection[p] = Absent THEN left \cup {p} ELSE left
    /\ musicCall' = [d \in MusicCall |->
          IF d = c THEN Away0
          ELSE IF At(d, "away") THEN musicCall[d]
               ELSE [musicCall[d] EXCEPT !.old = @ \/ musicCall[d].provider = p]]
    /\ UNCHANGED <<connection, made, platforms, oauth, refreshing>>

\* users/disconnect-platform changes the list alone: the tokens it sets to
\* undefined are columns save() then leaves as they are.
DisconnectPlatform(c, m, p) ==
    /\ Enter(c, "profile", p, m, "user")
    /\ UNCHANGED <<connection, made, legacy, platforms, oauth, refreshing, left>>

\* A call to the provider or to the database throws: a save that the unique
\* index refuses among them.
MusicThrows(c) ==
    /\ musicCall[c].step \notin {"away", "joined"}
    /\ Over(c)
    /\ UNCHANGED <<connection, made, legacy, platforms, oauth, left>>

-----------------------------------------------------------------------------
MusicNext ==
    \/ \E s \in OAuthState :
         \/ \E p \in offered : CreateOAuthState(s, p)
         \/ StateExpires(s)
    \/ AccessExpires
    \/ \E c \in MusicCall :
         \/ \E m \in MusicProcess :
              \/ \E s \in OAuthState : Callback(c, m, s)
              \/ \E p \in offered :
                   \/ AskToken(c, m, p) \/ ListConnections(c, m, p)
                   \/ Refused(c, m, p) \/ Disconnect(c, m, p)
                   \/ DisconnectPlatform(c, m, p)
         \/ Exchanged(c) \/ FindExisting(c) \/ StoreConnection(c)
         \/ ReadUser(c) \/ SaveUser(c) \/ Look(c) \/ Migrate(c)
         \/ ClearLegacy(c) \/ Refreshed(c) \/ StoreRefreshed(c)
         \/ MarkReauth(c) \/ Forget(c) \/ MusicThrows(c)

MusicSpec == MusicInit /\ [][MusicNext /\ UNCHANGED offered]_musicVars

-----------------------------------------------------------------------------
(* Properties.                                                             *)

\* A link to authorize connects one account, however often its callback comes.
StateSpentOnce == \A s \in OAuthState : oauth[s].passes <= 1

\* A process refreshes the user's Spotify token once at a time: a second
\* exchange of a rotating refresh token would be refused, and take the
\* connection with it.
OneRefreshPerProcess ==
    \A c, d \in MusicCall :
        /\ musicCall[c].kind = "token" /\ musicCall[c].provider = "spotify"
        /\ musicCall[d].kind = "token" /\ musicCall[d].provider = "spotify"
        /\ musicCall[c].process = musicCall[d].process
        /\ musicCall[c].step \notin {"away", "joined"}
        /\ musicCall[d].step \notin {"away", "joined"}
        => c = d

\* Whoever waits for a refresh is woken by it: the one that leads is at work.
JoinedIsAwaited ==
    \A c \in MusicCall : At(c, "joined") =>
        LET lead == refreshing[musicCall[c].process] IN
        lead # Absent /\ ~At(lead, "away") /\ ~At(lead, "joined")

\* A connection that asks for a new authorization holds no token, and one that
\* is connected holds one to go on with, whoever saved it last.
TokensFitStatus ==
    \A p \in Provider : connection[p] # Absent =>
        (connection[p].status = "connected"
            <=> connection[p].access # "none" \/ connection[p].refresh)

AuthorizationsAreSingle ==
    StateSpentOnce /\ OneRefreshPerProcess /\ JoinedIsAwaited /\ TokensFitStatus

\* After a disconnect, and until the user consents again, only a request that
\* was already under way can bring the connection back: no later one finds a
\* token to do it with.
OldCallBringsBack ==
    \A p \in left :
      connection[p] = Absent /\ connection'[p] # Absent =>
         \E c \in MusicCall : /\ musicCall[c].old
                              /\ musicCall[c].provider = p
                              /\ musicCall'[c] # musicCall[c]

OnlyOldCallsBringBack == [][OldCallBringsBack]_musicVars

\* "disconnects the provider, clears the profile flag": a provider that is
\* disconnected stays so until the user consents again.
DisconnectHolds == [][\A p \in left : connection'[p] = Absent]_musicVars

=============================================================================
