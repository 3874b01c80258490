--------------------------- MODULE MusicCollections ---------------------------
(***************************************************************************)
(* A playlist of the provider is shown page by page, songs of it are       *)
(* chosen, and a collection of them is shared (music-library.service.ts).  *)
(* Every request reads the whole list again, in pages of the provider,     *)
(* while its owner may edit it there; a choice is remembered as ids made   *)
(* of a song and of its place.                                             *)
(*                                                                         *)
(* The same loop reads the user's library of playlists.  Names, art and    *)
(* artists are left out; refusals of the provider are in MusicImports.     *)
(***************************************************************************)
EXTENDS Naturals, FiniteSets, Sequences, SequencesExt, Subsequences

CONSTANTS Tune,           \* songs of the provider
          LocalTune,      \* files of the listener's own, which have no id
          MaxLength,      \* songs a playlist ever has
          MaxEdits,       \* edits that are ever made
          BatchSize,      \* songs the provider puts on a page
          ReadCap,        \* songs after which reading stops
          PageLimit,      \* songs the app asks to see at once
          MaxShared,      \* MAX_COLLECTION_TRACKS
          NoTune

ASSUME CollectionAssumption ==
    /\ LocalTune \subseteq Tune
    /\ MaxLength \in Nat /\ MaxEdits \in Nat /\ MaxShared \in Nat
    /\ BatchSize \in Nat \ {0} /\ ReadCap \in Nat \ {0} /\ PageLimit \in Nat \ {0}

VARIABLES
    playlist,     \* the list at the provider
    edits,
    reading,      \* the request under way
    shown,        \* what the app has seen, page after page, and whether the list
                  \* was left alone since
    chosen,       \* trackIds of the request to share
    collection,   \* the last row of music_collections
    importCount   \* trackCount in music_playlist_imports, 0: no row

collectionVars == <<playlist, edits, reading, shown, chosen, collection, importCount>>

\* `${track.id}:${offset + batchIndex}`
Occurrence == [tune : Tune, place : 0..MaxLength]

OccurrenceId(tune, place) == [tune |-> tune, place |-> place]

Reading ==
    [for : {"nobody", "page", "sharing"}, page : 1..(MaxLength + 1), offset : 0..MaxLength,
     tracks : Seq(Occurrence), done : BOOLEAN]

Reading0 == [for |-> "nobody", page |-> 1, offset |-> 0, tracks |-> <<>>,
             done |-> FALSE]

CollectionTypeOK ==
    /\ playlist \in Seq(Tune) /\ Len(playlist) <= MaxLength
    /\ edits \in 0..MaxEdits
    /\ reading \in Reading
    /\ shown \in [tracks : Seq(Occurrence), next : 0..(MaxLength + 1), calm : BOOLEAN]
    /\ chosen \subseteq Occurrence
    /\ collection \in {NoTune} \cup [tracks : Seq(Tune), trackCount : 0..MaxLength,
                                     chosen : SUBSET Occurrence]
    /\ importCount \in 0..MaxLength

Nothing0 == [tracks |-> <<>>, next |-> 1, calm |-> TRUE]

CollectionInit ==
    /\ playlist \in UNION {[1..n -> Tune] : n \in 0..MaxLength}
    /\ edits = 0
    /\ reading = Reading0
    /\ shown = Nothing0
    /\ chosen = {}
    /\ collection = NoTune
    /\ importCount = 0

-----------------------------------------------------------------------------
(* The provider.                                                           *)

EditPlaylist ==
    /\ edits < MaxEdits
    /\ edits' = edits + 1
    /\ \E i \in 1..(Len(playlist) + 1) :
         \/ i <= Len(playlist) /\ playlist' = RemoveAt(playlist, i)
         \/ /\ Len(playlist) < MaxLength
            /\ \E t \in Tune : playlist' = InsertAt(playlist, i, t)
    /\ shown' = [shown EXCEPT !.calm = FALSE]
    /\ UNCHANGED <<reading, chosen, collection, importCount>>

Batch(offset) ==
    SubSeq(playlist, offset + 1,
           IF offset + BatchSize < Len(playlist) THEN offset + BatchSize ELSE Len(playlist))

-----------------------------------------------------------------------------
(* The loop: spotifyPlaylistTracks, applePlaylistTracks.                   *)

BeginPage ==
    /\ reading.for = "nobody"
    /\ shown.next > 0
    /\ reading' = [Reading0 EXCEPT !.for = "page", !.page = shown.next]
    /\ UNCHANGED <<playlist, edits, shown, chosen, collection, importCount>>

\* trackIds, none of them, or some that were shown.
BeginSharing ==
    /\ reading.for = "nobody"
    /\ \E ids \in SUBSET Range(shown.tracks) : chosen' = ids
    /\ reading' = [Reading0 EXCEPT !.for = "sharing"]
    /\ UNCHANGED <<playlist, edits, shown, collection, importCount>>

\* Items without an id are passed over, and count for the offset all the same.
Kept(batch, offset) ==
    LET all == [i \in 1..Len(batch) |-> OccurrenceId(batch[i], offset + i - 1)]
    IN  Picked(all, {i \in 1..Len(batch) : batch[i] \notin LocalTune})

\* Mutant of NextOffset: the songs that were kept are counted.
NextOffsetOfKept(offset, batch, tracks) == Len(tracks)

\* Mutant of NextOffset: a page is taken to be full.
NextOffsetByPage(offset, batch, tracks) == offset + BatchSize

NextOffset(offset, batch, tracks) == offset + Len(batch)

ReadBatch ==
    LET batch == Batch(reading.offset)
        tracks == reading.tracks \o Kept(batch, reading.offset)
        offset == NextOffset(reading.offset, batch, tracks)
    IN  /\ reading.for # "nobody"
        /\ ~reading.done
        /\ reading' = [reading EXCEPT !.tracks = tracks, !.offset = offset,
                         !.done = batch = <<>> \/ offset >= Len(playlist)
                                    \/ Len(tracks) >= ReadCap]
        /\ UNCHANGED <<playlist, edits, shown, chosen, collection, importCount>>

\* A request of the provider fails, and with it the whole reading.
ReadFails ==
    /\ reading.for # "nobody"
    /\ reading' = Reading0
    /\ chosen' = {}
    /\ UNCHANGED <<playlist, edits, shown, collection, importCount>>

-----------------------------------------------------------------------------
(* What is read is shown or shared.                                        *)

\* page(): items.slice(start, start + limit), hasMore
PageOf(items, page) ==
    SubSeq(items, (page - 1) * PageLimit + 1,
           IF page * PageLimit < Len(items) THEN page * PageLimit ELSE Len(items))

HasMore(items, page) == page * PageLimit < Len(items)

ShowPage ==
    /\ reading.for = "page"
    /\ reading.done
    /\ shown' = [tracks |-> shown.tracks \o PageOf(reading.tracks, reading.page),
                 next |-> IF HasMore(reading.tracks, reading.page)
                          THEN reading.page + 1 ELSE 0,
                 calm |-> shown.calm]
    /\ reading' = Reading0
    /\ UNCHANGED <<playlist, edits, chosen, collection, importCount>>

Refresh ==
    /\ reading.for = "nobody"
    /\ shown # Nothing0
    /\ shown' = Nothing0
    /\ UNCHANGED <<playlist, edits, reading, chosen, collection, importCount>>

\* No ids: the first of them all.
Selected(tracks, ids) ==
    IF ids = {} THEN SubSeq(tracks, 1, IF MaxShared < Len(tracks) THEN MaxShared ELSE Len(tracks))
    ELSE Picked(tracks, {i \in 1..Len(tracks) : tracks[i] \in ids})

\* Mutant of Accepts: the songs that are still found will do.
AcceptsWhatIsLeft(tracks, ids) == Selected(tracks, ids) # <<>>

\* An id that is not found any more refuses the request, as PLAYLIST_CHANGED.
Accepts(tracks, ids) ==
    /\ ids # {} => Len(Selected(tracks, ids)) = Cardinality(ids)
    /\ Selected(tracks, ids) # <<>>

Tunes(tracks) == [i \in 1..Len(tracks) |-> tracks[i].tune]

CreateCollection ==
    LET selected == Selected(reading.tracks, chosen) IN
    /\ reading.for = "sharing"
    /\ reading.done
    /\ collection' = IF Accepts(reading.tracks, chosen)
                     THEN [tracks |-> Tunes(selected), trackCount |-> Len(selected),
                           chosen |-> chosen]
                     ELSE collection
    /\ reading' = Reading0
    /\ chosen' = {}
    /\ UNCHANGED <<playlist, edits, shown, importCount>>

\* recordPlaylistImport: the app says how many songs it took.
RecordPlaylistImport ==
    /\ \E n \in 1..Len(shown.tracks) : importCount' = n
    /\ UNCHANGED <<playlist, edits, reading, shown, chosen, collection>>

CollectionNext ==
    \/ EditPlaylist \/ BeginPage \/ BeginSharing \/ ReadBatch \/ ReadFails
    \/ ShowPage \/ Refresh \/ CreateCollection \/ RecordPlaylistImport

CollectionSpec == CollectionInit /\ [][CollectionNext]_collectionVars

-----------------------------------------------------------------------------
(* Properties.                                                             *)

Whole(list) == Tunes(Kept(list, 0))

\* What the app shows of a list that nobody edits is a part of the list from its
\* start, each song as often as it is in it, and once there is no next page all
\* of it, up to the cap: no song is skipped or seen twice at a border of the
\* provider's pages or of the app's (offset, page()).
ShownInFull ==
    shown.calm =>
        /\ IsPrefix(Tunes(shown.tracks), Whole(playlist))
        /\ shown.next = 0 => \/ Tunes(shown.tracks) = Whole(playlist)
                             \/ Len(shown.tracks) >= ReadCap

\* A shared collection is made of the very songs that were chosen, in the order of
\* their places, whatever became of the list meanwhile (createCollection).
SharedAsChosen ==
    LET c == collection IN
    c # NoTune /\ c.chosen # {} =>
        /\ Len(c.tracks) = Cardinality(c.chosen)
        /\ \A o \in c.chosen :
             c.tracks[1 + Cardinality({p \in c.chosen : p.place < o.place})] = o.tune

=============================================================================
