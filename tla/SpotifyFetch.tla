---------------------------- MODULE SpotifyFetch ----------------------------
(***************************************************************************)
(* Fetches of the Spotify player (integrations/spotify/source.py): what     *)
(* plays now, with the name of its playlist and its cover, then the queue,  *)
(* then the last play.  The name and the cover may fail without failing the *)
(* fetch.  The last cover downloaded is remembered in a global that fetches *)
(* of overlapping refreshes share without a lock.                           *)
(***************************************************************************)
EXTENDS Naturals

CONSTANTS Fetchers,    \* the threads that fetch
          Tracks,      \* what may play; a track's cover is named after it
          NoTrack

ASSUME SpotifyAssumption == NoTrack \notin Tracks

VARIABLES playing,     \* what the player of the account plays, or NoTrack
          remembered,  \* _cached_art: the track whose cover it holds, or NoTrack
          spStep,      \* where each fetch is
          now,         \* the track its snapshot names as playing, or NoTrack
          art,         \* the cover of its snapshot, or NoTrack
          name,        \* "none", "known" or "unknown": the name of the playlist
          end          \* "none", "snapshot", or the request that failed it

spVars == <<playing, remembered, spStep, now, art, name, end>>

SpotifyInit ==
    /\ playing \in Tracks \cup {NoTrack}
    /\ remembered = NoTrack
    /\ spStep = [f \in Fetchers |-> "player"]
    /\ now = [f \in Fetchers |-> NoTrack]
    /\ art = [f \in Fetchers |-> NoTrack]
    /\ name = [f \in Fetchers |-> "none"]
    /\ end = [f \in Fetchers |-> "none"]

Goes(f, step) == spStep' = [spStep EXCEPT ![f] = step]

\* The account plays on.
Plays ==
    /\ playing' \in Tracks \cup {NoTrack}
    /\ UNCHANGED <<remembered, spStep, now, art, name, end>>

\* HTTP 204, no item, or an episode: nothing plays, and the queue is next.
NothingPlays(f) ==
    /\ spStep[f] = "player" /\ playing = NoTrack
    /\ Goes(f, "queue")
    /\ UNCHANGED <<playing, remembered, now, art, name, end>>

\* A track plays: out of a playlist, whose name takes another request, or not.
TrackPlays(f) ==
    /\ spStep[f] = "player" /\ playing # NoTrack
    /\ now' = [now EXCEPT ![f] = playing]
    /\ Goes(f, "name") \/ Goes(f, "cover")
    /\ UNCHANGED <<playing, remembered, art, name, end>>

\* The playlist's name, or none on any failure.
NameIsKnown(f) ==
    /\ spStep[f] = "name"
    /\ \E known \in {"known", "unknown"} : name' = [name EXCEPT ![f] = known]
    /\ Goes(f, "cover")
    /\ UNCHANGED <<playing, remembered, now, art, end>>

\* Bug: whatever cover is remembered will do.
AnyCoverIsTaken(f) ==
    /\ spStep[f] = "cover" /\ remembered # NoTrack
    /\ art' = [art EXCEPT ![f] = remembered]
    /\ Goes(f, "queue")
    /\ UNCHANGED <<playing, remembered, now, name, end>>

\* The cover that is remembered answers for the same track.
CoverIsRemembered(f) ==
    /\ spStep[f] = "cover" /\ remembered = now[f]
    /\ art' = [art EXCEPT ![f] = remembered]
    /\ Goes(f, "queue")
    /\ UNCHANGED <<playing, remembered, now, name, end>>

\* A download that brings nothing usable leaves the snapshot without a cover; the
\* album may have none.
CoverIsMissing(f) ==
    /\ \/ spStep[f] = "cover" /\ remembered # now[f]
       \/ spStep[f] = "download"
    /\ Goes(f, "queue")
    /\ UNCHANGED <<playing, remembered, now, art, name, end>>

AskForCover(f) ==
    /\ spStep[f] = "cover" /\ remembered # now[f]
    /\ Goes(f, "download")
    /\ UNCHANGED <<playing, remembered, now, art, name, end>>

\* The download is remembered for the fetches to come and handed on.
CoverIsDownloaded(f) ==
    /\ spStep[f] = "download"
    /\ remembered' = now[f]
    /\ art' = [art EXCEPT ![f] = now[f]]
    /\ Goes(f, "queue")
    /\ UNCHANGED <<playing, now, name, end>>

QueueIsRead(f) ==
    /\ spStep[f] = "queue"
    /\ Goes(f, "last")
    /\ UNCHANGED <<playing, remembered, now, art, name, end>>

LastPlayIsRead(f) ==
    /\ spStep[f] = "last"
    /\ end' = [end EXCEPT ![f] = "snapshot"]
    /\ Goes(f, "done")
    /\ UNCHANGED <<playing, remembered, now, art, name>>

\* A refusal, an outage or a shape that is not the service's fails the fetch.
SpotifyFails(f) ==
    /\ spStep[f] \in {"player", "queue", "last"}
    /\ end' = [end EXCEPT ![f] = spStep[f]]
    /\ Goes(f, "done")
    /\ UNCHANGED <<playing, remembered, now, art, name>>

\* The next fetch of the thread.
FetchAgain(f) ==
    /\ spStep[f] = "done"
    /\ Goes(f, "player")
    /\ now' = [now EXCEPT ![f] = NoTrack]
    /\ art' = [art EXCEPT ![f] = NoTrack]
    /\ name' = [name EXCEPT ![f] = "none"]
    /\ end' = [end EXCEPT ![f] = "none"]
    /\ UNCHANGED <<playing, remembered>>

SpotifyNext ==
    \/ Plays
    \/ \E f \in Fetchers :
          \/ NothingPlays(f) \/ TrackPlays(f) \/ NameIsKnown(f)
          \/ CoverIsRemembered(f) \/ CoverIsMissing(f) \/ AskForCover(f)
          \/ CoverIsDownloaded(f) \/ QueueIsRead(f) \/ LastPlayIsRead(f)
          \/ SpotifyFails(f) \/ FetchAgain(f)

-----------------------------------------------------------------------------
\* The cover of a snapshot is the cover of the track it names, whatever tracks the
\* fetches beside it remember meanwhile; and a fetch that fails failed in a
\* request the tab cannot do without ("a missing name must not break the tab",
\* source.py:208, and the same of the cover at source.py:297).
CoversAreOfTheirTracks ==
    \A f \in Fetchers :
        /\ art[f] # NoTrack => art[f] = now[f]
        /\ end[f] \in {"none", "snapshot", "player", "queue", "last"}
=============================================================================
