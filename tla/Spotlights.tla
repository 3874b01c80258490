------------------------------ MODULE Spotlights ------------------------------
(* Spotlight campaigns: admin/spotlight writes them, spotlight/ shows them.    *)
(* Every operation of the desk locks its row and is one step; showing and      *)
(* counting are one statement each.                                            *)
EXTENDS Naturals

CONSTANTS
    Spot,       \* campaigns
    SpotClock,  \* bound: the last moment of a behaviour; 0 stands for no date
    NoSpot

ASSUME SpotAssumption == SpotClock \in Nat \ {0} /\ NoSpot \notin Nat

VARIABLES spot, clock, views   \* rows, time, impressionCount

spotVars == <<spot, clock, views>>

\* ready: title, artist, HTTPS artwork and a link to a song.
SpotRow == [status: {"draft", "scheduled", "active", "paused", "archived"},
            ready: BOOLEAN, startsAt: 0..SpotClock, expiresAt: 0..SpotClock]

SpotTypeOK ==
    /\ spot \in [Spot -> SpotRow \cup {NoSpot}]
    /\ clock \in 1..SpotClock
    /\ views \in [Spot -> 0..1]

SpotInit ==
    /\ spot = [n \in Spot |-> NoSpot]
    /\ clock = 1
    /\ views = [n \in Spot |-> 0]

\* validateWindow
Ordered(startsAt, expiresAt) ==
    startsAt /= 0 /\ expiresAt /= 0 => startsAt < expiresAt

\* validateForDelivery
Deliverable(row) ==
    /\ row.ready
    /\ Ordered(row.startsAt, row.expiresAt)
    /\ row.expiresAt /= 0 => row.expiresAt > clock

Is(n, statuses) == spot[n] /= NoSpot /\ spot[n].status \in statuses

CreateSpot(n, ready, startsAt, expiresAt) ==
    /\ spot[n] = NoSpot
    /\ Ordered(startsAt, expiresAt)
    /\ spot' = [spot EXCEPT ![n] = [status |-> "draft", ready |-> ready,
                                    startsAt |-> startsAt, expiresAt |-> expiresAt]]
    /\ UNCHANGED <<clock, views>>

\* Mutant of EditableStatuses: what waits for its start is edited in place.
EditableAlsoScheduled == {"draft", "paused", "scheduled"}
EditableStatuses == {"draft", "paused"}

UpdateSpot(n, ready, startsAt, expiresAt) ==
    /\ Is(n, EditableStatuses)
    /\ Ordered(startsAt, expiresAt)
    /\ spot' = [spot EXCEPT ![n].ready = ready, ![n].startsAt = startsAt,
                            ![n].expiresAt = expiresAt]
    /\ UNCHANGED <<clock, views>>

PublishSpot(n) ==
    /\ Is(n, {"draft", "paused"})
    /\ Deliverable(spot[n])
    /\ spot[n].startsAt <= clock
    /\ spot' = [spot EXCEPT ![n].status = "active"]
    /\ UNCHANGED <<clock, views>>

ScheduleSpot(n, startsAt, expiresAt) ==
    /\ startsAt > clock
    /\ Is(n, EditableStatuses)
    /\ Deliverable([spot[n] EXCEPT !.startsAt = startsAt, !.expiresAt = expiresAt])
    /\ spot' = [spot EXCEPT ![n].status = "scheduled", ![n].startsAt = startsAt,
                            ![n].expiresAt = expiresAt]
    /\ UNCHANGED <<clock, views>>

PauseSpot(n) ==
    /\ Is(n, {"active", "scheduled"})
    /\ spot' = [spot EXCEPT ![n].status = "paused"]
    /\ UNCHANGED <<clock, views>>

ArchiveSpot(n) ==
    /\ spot[n] /= NoSpot
    /\ spot[n].status /= "archived"
    /\ spot' = [spot EXCEPT ![n].status = "archived"]
    /\ UNCHANGED <<clock, views>>

\* A copy is a draft without dates.
DuplicateSpot(n, copy) ==
    /\ spot[n] /= NoSpot
    /\ spot[copy] = NoSpot
    /\ spot' = [spot EXCEPT ![copy] = [spot[n] EXCEPT !.status = "draft", !.startsAt = 0,
                                                      !.expiresAt = 0]]
    /\ UNCHANGED <<clock, views>>

\* getActiveSpotlights, and the condition of incrementEligibleMetric.  Nothing
\* moves a row when its time comes: a scheduled one is shown from its start.
Shown(n) ==
    /\ Is(n, {"active", "scheduled"})
    /\ spot[n].startsAt <= clock
    /\ spot[n].expiresAt = 0 \/ spot[n].expiresAt > clock

TrackImpression(n) ==
    /\ Shown(n)
    /\ views' = [views EXCEPT ![n] = 1]
    /\ UNCHANGED <<spot, clock>>

TimePasses ==
    /\ clock < SpotClock
    /\ clock' = clock + 1
    /\ UNCHANGED <<spot, views>>

SpotNext ==
    \/ TimePasses
    \/ \E n \in Spot :
          \/ PublishSpot(n) \/ PauseSpot(n) \/ ArchiveSpot(n) \/ TrackImpression(n)
          \/ \E copy \in Spot : DuplicateSpot(n, copy)
          \/ \E startsAt, expiresAt \in 0..SpotClock :
                \/ ScheduleSpot(n, startsAt, expiresAt)
                \/ \E ready \in BOOLEAN :
                      \/ CreateSpot(n, ready, startsAt, expiresAt)
                      \/ UpdateSpot(n, ready, startsAt, expiresAt)

SpotSpec == SpotInit /\ [][SpotNext]_spotVars

-------------------------------------------------------------------------------
\* Whatever was published, paused, edited, copied and scheduled before, users
\* are shown complete campaigns whose dates are in order; one that is active is
\* not waiting for its start, and one that is scheduled has a start.
ShownIsReady ==
    \A n \in Spot :
        /\ Is(n, {"active", "scheduled"}) =>
              spot[n].ready /\ Ordered(spot[n].startsAt, spot[n].expiresAt)
        /\ Is(n, {"active"}) => spot[n].startsAt <= clock
        /\ Is(n, {"scheduled"}) => spot[n].startsAt /= 0

===============================================================================
