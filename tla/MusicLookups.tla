---------------------------- MODULE MusicLookups ----------------------------
(***************************************************************************)
(* Look-ups of songs and collections in one API process                    *)
(* (music.service.ts): the client token that requests and a timer share,   *)
(* the map of look-ups under way, the cache, and the deadline that answers *)
(* a request while its look-up goes on.                                    *)
(*                                                                         *)
(* resilientFetch and what it retries is one step that has an outcome; how *)
(* an outcome follows from the provider's answers is MusicImports'.        *)
(***************************************************************************)
EXTENDS Naturals, FiniteSets

CONSTANTS LookupCall,     \* loaders that may be at work at once
          Visitor,    \* requests that may be under way at once
          LookupKey,  \* normalized links, with the user's id for a playlist
          AppleKey,   \* those of Apple Music; the others are Spotify's
          PlaylistKey,
          Unset

ASSUME LookupAssumption ==
    /\ Unset \notin LookupCall \cup LookupKey \cup {"background"}
    /\ AppleKey \subseteq LookupKey /\ PlaylistKey \subseteq LookupKey

VARIABLES
    token,      \* spotifyAccessToken and its expiry
    fetchers,   \* who is inside fetchSpotifyToken
    pending,    \* pendingSpotifyToken: whose fetch it is
    timer,      \* spotifyRefreshTimer and what it will run
    refresher,  \* the callback of the timer, and onModuleInit's pre-warming
    up,         \* onModuleDestroy has not run
    loader,     \* loaders under way
    entry,      \* pendingTrackLookups and pendingCollectionLookups
    cached,     \* keys with an answer in the cache
    visitor     \* requests: waiting for a key, or not

lookupVars == <<token, fetchers, pending, timer, refresher, up, loader, entry,
                cached, visitor>>

\* The one that refreshes in the background counts among those that fetch.
Background == "background"

LookupTypeOK ==
    /\ token \in {"none", "usable", "expired"}
    /\ fetchers \subseteq LookupCall \cup {Background}
    /\ pending \in LookupCall \cup {Background, Unset}
    /\ timer \in {"off", "refresh", "retry"}
    /\ refresher \in {"new", "warming", "idle", "fetching", "joined"}
    /\ up \in BOOLEAN
    /\ loader \in [LookupCall -> [step : {"free", "token", "await", "call"},
                              key : LookupKey \cup {Unset}, again : BOOLEAN]]
    /\ entry \in [LookupKey -> LookupCall \cup {Unset}]
    /\ cached \subseteq LookupKey
    /\ visitor \in [Visitor -> LookupKey \cup {Unset}]

Free == [step |-> "free", key |-> Unset, again |-> FALSE]

LookupInit ==
    /\ token = "none"
    /\ fetchers = {}
    /\ pending = Unset
    /\ timer = "off"
    /\ refresher = "new"
    /\ up = TRUE
    /\ loader = [l \in LookupCall |-> Free]
    /\ entry = [k \in LookupKey |-> Unset]
    /\ cached = {}
    /\ visitor = [v \in Visitor |-> Unset]

-----------------------------------------------------------------------------
(* getSpotifyAccessToken.                                                  *)

\* Mutant of GetToken: every loader fetches for itself.
GetTokenAlone(l) ==
    /\ loader[l].step = "token"
    /\ IF token = "usable"
       THEN /\ loader' = [loader EXCEPT ![l].step = "call"]
            /\ UNCHANGED <<fetchers, pending>>
       ELSE /\ loader' = [loader EXCEPT ![l].step = "await"]
            /\ fetchers' = fetchers \cup {l}
            /\ pending' = l
    /\ UNCHANGED <<token, timer, refresher, up, entry, cached, visitor>>

\* The loader goes on at "call" with a usable token; or waits for the fetch
\* under way; or starts one.
GetToken(l) ==
    /\ loader[l].step = "token"
    /\ \/ /\ token = "usable"
          /\ loader' = [loader EXCEPT ![l].step = "call"]
          /\ UNCHANGED <<fetchers, pending>>
       \/ /\ token # "usable" /\ pending # Unset
          /\ loader' = [loader EXCEPT ![l].step = "await"]
          /\ UNCHANGED <<fetchers, pending>>
       \/ /\ token # "usable" /\ pending = Unset
          /\ loader' = [loader EXCEPT ![l].step = "await"]
          /\ fetchers' = fetchers \cup {l}
          /\ pending' = l
    /\ UNCHANGED <<token, timer, refresher, up, entry, cached, visitor>>

\* Those that wait for the fetch under way: its owner and all that joined.
Waiting == {l \in LookupCall : loader[l].step = "await"}

\* A loader is over, whatever its outcome: the finally block takes its entry
\* away, and those who wait for its key are answered.
Settled(ls, answered) ==
    /\ loader' = [l \in LookupCall |->
          IF l \in ls THEN Free
          ELSE IF l \in Waiting /\ answered THEN [loader[l] EXCEPT !.step = "call"]
          ELSE loader[l]]
    /\ entry' = [k \in LookupKey |-> IF entry[k] \in ls THEN Unset ELSE entry[k]]
    /\ visitor' = [v \in Visitor |->
          IF visitor[v] # Unset /\ \E l \in ls : loader[l].key = visitor[v]
          THEN Unset ELSE visitor[v]]

\* Mutant of TokenFetched: a failed refresh is not tried again.
TokenFetchedNoRetry(o) ==
    /\ o \in fetchers
    /\ fetchers' = fetchers \ {o}
    /\ pending' = Unset
    /\ \E got \in BOOLEAN :
         /\ token' = IF got THEN "usable" ELSE token
         /\ Settled(IF got THEN {} ELSE Waiting, got)
         /\ timer' = IF got /\ refresher \notin {"new", "idle"}
                     THEN "refresh" ELSE timer
         /\ refresher' = IF refresher = "new" THEN refresher ELSE "idle"
    /\ UNCHANGED <<up, cached>>

\* fetchSpotifyToken ends: a token for all that wait, or null, and then their
\* look-ups fail.  The callback of the timer sets its next run.
TokenFetched(o) ==
    /\ o \in fetchers
    /\ fetchers' = fetchers \ {o}
    /\ pending' = Unset
    /\ \E got \in BOOLEAN :
         /\ token' = IF got THEN "usable" ELSE token
         /\ Settled(IF got THEN {} ELSE Waiting, got)
         /\ \/ /\ refresher \in {"fetching", "joined"}
               /\ timer' = IF got THEN "refresh" ELSE "retry"
               /\ refresher' = "idle"
            \/ /\ refresher = "warming"
               /\ timer' = IF got THEN "refresh" ELSE "off"
               /\ refresher' = "idle"
            \/ /\ refresher \in {"new", "idle"}
               /\ UNCHANGED <<timer, refresher>>
    /\ UNCHANGED <<up, cached>>

-----------------------------------------------------------------------------
(* The timer.                                                              *)

\* The token is asked for in the background, by onModuleInit or the timer.
AskInBackground(joined, started) ==
    IF pending = Unset
    THEN /\ fetchers' = fetchers \cup {Background}
         /\ pending' = Background
         /\ refresher' = started
    ELSE refresher' = joined /\ UNCHANGED <<fetchers, pending>>

\* onModuleInit; a worker process does not take it.  It runs before the server
\* listens, so nothing else has asked for a token.
PreWarm ==
    /\ refresher = "new"
    /\ AskInBackground("warming", "warming")
    /\ UNCHANGED <<token, timer, up, loader, entry, cached, visitor>>

\* The token is dropped although it is still good, and a new one asked for.
RefreshDue ==
    /\ timer = "refresh"
    /\ refresher = "idle"
    /\ timer' = "off"
    /\ token' = "none"
    /\ AskInBackground("joined", "fetching")
    /\ UNCHANGED <<up, loader, entry, cached, visitor>>

\* After a failure the schedule is set again a minute later.
RetryDue ==
    /\ timer = "retry"
    /\ timer' = "refresh"
    /\ UNCHANGED <<token, fetchers, pending, refresher, up, loader, entry,
                   cached, visitor>>

\* onModuleDestroy clears the timer that is set; a callback that is under way
\* sets another.
Destroy ==
    /\ up
    /\ refresher \notin {"new", "warming"}
    /\ up' = FALSE
    /\ timer' = "off"
    /\ UNCHANGED <<token, fetchers, pending, refresher, loader, entry, cached,
                   visitor>>

TokenExpires ==
    /\ token = "usable"
    /\ token' = "expired"
    /\ UNCHANGED <<fetchers, pending, timer, refresher, up, loader, entry,
                   cached, visitor>>

-----------------------------------------------------------------------------
(* parsePreparedTrack, listPreparedCollection, dedupeLookup, spotifyApiCall. *)

\* The developer token for Apple Music is signed on the spot.
FirstStep(k) == IF k \in AppleKey THEN "call" ELSE "token"

\* A request is answered from the cache, joins a look-up, or starts one.
Ask(v, k) ==
    /\ refresher \notin {"new", "warming"}
    /\ visitor[v] = Unset
    /\ k \notin cached
    /\ \/ entry[k] # Unset /\ UNCHANGED <<loader, entry>>
       \/ /\ entry[k] = Unset
          /\ \E l \in LookupCall :
               /\ loader[l].step = "free"
               /\ loader' = [loader EXCEPT ![l] =
                    [Free EXCEPT !.step = FirstStep(k), !.key = k]]
               /\ entry' = [entry EXCEPT ![k] = l]
    /\ visitor' = [visitor EXCEPT ![v] = k]
    /\ UNCHANGED <<token, fetchers, pending, timer, refresher, up, cached>>

\* The provider answers.  A 401 drops the client token, also a newer one that
\* another look-up has fetched meanwhile, and the call is made once more; so it
\* is after a 401 or 403 of Apple's, with a new developer token.
Answered(l) ==
    LET k == loader[l].key IN
    /\ loader[l].step = "call"
    /\ \/ /\ cached' = cached \cup {k}
          /\ Settled({l}, FALSE)
          /\ UNCHANGED token
       \/ /\ ~loader[l].again
          /\ token' = IF k \in AppleKey THEN token ELSE "none"
          /\ loader' = [loader EXCEPT ![l].step = FirstStep(k), ![l].again = TRUE]
          /\ UNCHANGED <<entry, cached, visitor>>
       \/ /\ Settled({l}, FALSE)
          /\ UNCHANGED <<token, cached>>
    /\ UNCHANGED <<fetchers, pending, timer, refresher, up>>

\* Mutant of DeadlinePasses: the entry goes with the request.
DeadlineForgets(v) ==
    /\ visitor[v] # Unset
    /\ visitor' = [visitor EXCEPT ![v] = Unset]
    /\ entry' = [entry EXCEPT ![visitor[v]] = Unset]
    /\ UNCHANGED <<token, fetchers, pending, timer, refresher, up, loader,
                   cached>>

\* listSpotifyPlaylist: the user's own library or token has the answer before
\* the client token is asked for.
AnsweredToUser(l) ==
    /\ loader[l].step = "token" /\ ~loader[l].again
    /\ loader[l].key \in PlaylistKey \ AppleKey
    /\ cached' = cached \cup {loader[l].key}
    /\ Settled({l}, FALSE)
    /\ UNCHANGED <<token, fetchers, pending, timer, refresher, up>>

\* withDeadline: the request is answered with a time-out, the look-up goes on.
DeadlinePasses(v) ==
    /\ visitor[v] # Unset
    /\ visitor' = [visitor EXCEPT ![v] = Unset]
    /\ UNCHANGED <<token, fetchers, pending, timer, refresher, up, loader,
                   entry, cached>>

CacheExpires(k) ==
    /\ k \in cached
    /\ cached' = cached \ {k}
    /\ UNCHANGED <<token, fetchers, pending, timer, refresher, up, loader,
                   entry, visitor>>

-----------------------------------------------------------------------------
LookupNext ==
    \/ \E l \in LookupCall : GetToken(l) \/ Answered(l) \/ AnsweredToUser(l)
    \/ \E o \in LookupCall \cup {Background} : TokenFetched(o)
    \/ PreWarm \/ RefreshDue \/ RetryDue \/ Destroy \/ TokenExpires
    \/ \E v \in Visitor : DeadlinePasses(v) \/ \E k \in LookupKey : Ask(v, k)
    \/ \E k \in LookupKey : CacheExpires(k)

LookupSpec == LookupInit /\ [][LookupNext]_lookupVars

-----------------------------------------------------------------------------
(* Properties.                                                             *)

\* However many requests find no token, or drop it, one fetch is under way.
OneTokenFetch ==
    /\ Cardinality(fetchers) <= 1
    /\ pending # Unset <=> fetchers # {}

\* A key is looked up by one loader at a time, and an entry in the map is
\* always somebody's work: a dead one would answer every request for its key
\* with a time-out from then on.
OneLoaderPerKey ==
    /\ \A l, m \in LookupCall : loader[l].key = loader[m].key /\ loader[l].key # Unset
                            => l = m
    /\ \A k \in LookupKey : entry[k] # Unset => loader[entry[k]].key = k
    /\ \A l \in LookupCall : loader[l].key # Unset => entry[loader[l].key] = l

\* Who waits for a token waits for a fetch that is under way.
AwaitedFetchRuns == Waiting # {} => pending # Unset

LookupsAreShared == OneTokenFetch /\ OneLoaderPerKey /\ AwaitedFetchRuns

\* Once the token was pre-warmed the background refresh never stops by itself:
\* from then on, and until the process shuts down, a timer is set or its
\* callback is at work.
RefreshIsKept ==
    up /\ (timer # "off" \/ refresher \in {"fetching", "joined"})
      => ~up' \/ timer' # "off" \/ refresher' \in {"fetching", "joined"}

RefreshGoesOn == [][RefreshIsKept]_lookupVars

=============================================================================
