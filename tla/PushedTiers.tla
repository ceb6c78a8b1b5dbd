----------------------------- MODULE PushedTiers -----------------------------
(***************************************************************************)
(* The GitHub tab's activity cache (integrations/github/source/pushed):    *)
(* which repositories a refresh asks about the viewer's pushes, and what   *)
(* it remembers of the answers.  Refreshes run on worker threads and may   *)
(* overlap: each loads the cache, asks for seconds, and saves all of it.   *)
(*                                                                         *)
(* A stamp is how long ago the viewer's newest push is: Hot (WINDOW), Cold *)
(* (RETIREMENT) or Old, which stands for never as well: the tiers do not   *)
(* tell them apart.  Repositories are numbered in the order of their names *)
(* and 0 is the cursor None.                                               *)
(***************************************************************************)
EXTENDS Naturals, FiniteSets

CONSTANTS
    N,          \* repositories
    Workers,    \* worker threads, each making one refresh after another
    Failing,    \* repositories whose requests may fail, or leave the push out
    None

Repos == 1..N
Old == 0
Cold == 1
Hot == 2
Stamp == {Old, Cold, Hot}

ASSUME NAssumption == N \in Nat \ {0}
ASSUME FailingAssumption == Failing \subseteq Repos
ASSUME WorkersAssumption == IsFiniteSet(Workers)
ASSUME NoneAssumption == None \notin Stamp \cup [stamp : Stamp, probed : Nat]

VARIABLES
    pushed,     \* pushed[r]: the stamp of the viewer's newest push to r; None: no r
    records,    \* records[r]: the RepoRecord of github-activity.json, or None
    cursor,     \* its cursor
    pc,         \* pc[w]: where the refresh of w is; "off": w makes none
    copy,       \* copy[w]: the records of its ActivityCache object
    place,      \* place[w]: the cursor of its ActivityCache object
    now,        \* now[w]: when it started, as a date of the records
    crossed     \* crossed[w]: another refresh saved since w started, or w could
                \* not read the file

workerVars == <<pc, copy, place, now>>
vars == <<pushed, records, cursor, workerVars, crossed>>

Record == [stamp : Stamp, probed : Nat]
Records == [Repos -> Record \cup {None}]
Unknown == [r \in Repos |-> None]

TypeOK ==
    /\ pushed \in [Repos -> Stamp \cup {None}]
    /\ records \in Records
    /\ cursor \in Repos \cup {0}
    /\ pc \in [Workers -> {"off", "idle", "loaded", "asked"}]
    /\ copy \in [Workers -> Records]
    /\ place \in [Workers -> Repos \cup {0}]
    /\ now \in [Workers -> Nat]
    /\ crossed \in [Workers -> BOOLEAN]

Init ==
    /\ pushed \in [Repos -> Stamp \cup {None}]
    /\ records = Unknown
    /\ cursor = 0
    /\ pc \in [Workers -> {"off", "idle"}]
    /\ copy = [w \in Workers |-> Unknown]
    /\ place = [w \in Workers |-> 0]
    /\ now = [w \in Workers |-> 0]
    /\ crossed = [w \in Workers |-> FALSE]

-----------------------------------------------------------------------------
(* The viewer and the calendar *)

Push(r) ==
    /\ pushed[r] \notin {None, Hot}
    /\ pushed' = [pushed EXCEPT ![r] = Hot]
    /\ UNCHANGED <<records, cursor, workerVars, crossed>>

\* Weeks go by: every stamp of r is a tier older, wherever it is kept.
Aged(known, r) ==
    IF known[r] = None \/ known[r].stamp = Old THEN known
    ELSE [known EXCEPT ![r].stamp = @ - 1]

Age(r) ==
    /\ pushed[r] \notin {None, Old}
    /\ pushed' = [pushed EXCEPT ![r] = @ - 1]
    /\ records' = Aged(records, r)
    /\ copy' = [w \in Workers |-> Aged(copy[w], r)]
    /\ UNCHANGED <<cursor, pc, place, now, crossed>>

-----------------------------------------------------------------------------
(* plan_refresh *)

Tier(known, names, stamp) == {r \in names : known[r] # None /\ known[r].stamp = stamp}

\* The order of the names, from the one that follows the cursor.
Turn(r, after) == IF r > after THEN r ELSE r + N

\* A fifth of the cold repositories, rounded up: the first in that order.
ProbeRotation(cold, after) ==
    {r \in cold :
        5 * Cardinality({q \in cold : Turn(q, after) < Turn(r, after)}) < Cardinality(cold)}

\* The cursor moves to the last of them, if any.
NextCursor(probes, after) ==
    IF probes = {} THEN {after}
    ELSE {r \in probes : \A q \in probes : Turn(q, after) <= Turn(r, after)}

\* The retired repositories that were asked longest ago.
OldestRetired(known, retired) ==
    {r \in retired : \A q \in retired : known[r].probed <= known[q].probed}

\* Bug: a sighting counts as a push of today.
PromotedToday(known, sighted, date) ==
    [r \in Repos |->
        IF sighted[r] # Old /\ (known[r] = None \/ known[r].stamp = Old)
          THEN [stamp |-> Hot, probed |-> date]
          ELSE known[r]]

\* should_promote and the record of a sighting in the events feed, which lags
\* and goes back no further than RETIREMENT.
Promoted(known, sighted, date) ==
    [r \in Repos |->
        IF sighted[r] # Old /\ (known[r] = None \/ known[r].stamp = Old)
          THEN [stamp |-> sighted[r], probed |-> date]
          ELSE known[r]]

\* Bug: an answer without a push resets the stamp.
ObservedAnew(known, answer, date) ==
    [r \in Repos |->
        IF r \notin DOMAIN answer THEN known[r]
        ELSE [stamp |-> answer[r], probed |-> date]]

\* observed: "the stamp advances only on evidence".
Observed(known, answer, date) ==
    [r \in Repos |->
        IF r \notin DOMAIN answer THEN known[r]
        ELSE LET previous == IF known[r] = None THEN Old ELSE known[r].stamp
             IN  [stamp |-> IF answer[r] > previous THEN answer[r] ELSE previous,
                  probed |-> date]]

-----------------------------------------------------------------------------
(* query_pushed_branches *)

Running(w) == pc[w] \in {"loaded", "asked"}

\* Dates are only compared: keep their order, and let today follow them all.
Dates ==
    {records[r].probed : r \in {q \in Repos : records[q] # None}}
    \cup (UNION {{copy[w][r].probed : r \in {q \in Repos : copy[w][q] # None}} : w \in Workers})
    \cup {now[w] : w \in {v \in Workers : Running(v)}}
Rank(date) == Cardinality({d \in Dates : d < date})
Ranked(known) ==
    [r \in Repos |-> IF known[r] = None THEN None
                     ELSE [known[r] EXCEPT !.probed = Rank(@)]]
Today == Cardinality(Dates)

Loading(w, known, cold) ==
    /\ pc[w] = "idle"
    /\ records' = Ranked(records)
    /\ copy' = [v \in Workers |-> Ranked(IF v = w THEN known ELSE copy[v])]
    /\ place' = [place EXCEPT ![w] = cold]
    /\ now' = [v \in Workers |-> IF v = w THEN Today
                                 ELSE IF Running(v) THEN Rank(now[v]) ELSE 0]
    /\ pc' = [pc EXCEPT ![w] = "loaded"]
    /\ UNCHANGED <<pushed, cursor>>

\* ActivityCache.load
Load(w) ==
    /\ Loading(w, records, cursor)
    /\ crossed' = [crossed EXCEPT ![w] = FALSE]

\* ActivityCache.load of a file that cannot be read
LoadNothing(w) ==
    /\ Loading(w, Unknown, 0)
    /\ crossed' = [crossed EXCEPT ![w] = TRUE]

\* What discover_repos may list: repositories that anyone pushed to.
Discoveries == SUBSET {r \in Repos : pushed[r] # None}

\* What the events feed may show of the viewer's pushes, Old standing for nothing.
Sightings ==
    {s \in [Repos -> Stamp] :
        \A r \in Repos : s[r] # Old => pushed[r] # None /\ s[r] <= pushed[r]}

Names(known, found) == found \cup {r \in Repos : known[r] # None}

\* What the requests for the given repositories may bring.
Answers(calls) ==
    {a \in UNION {[answered -> Stamp] : answered \in SUBSET calls} :
        \A r \in calls :
            \/ r \in DOMAIN a /\ a[r] = pushed[r]
            \/ r \in Failing /\ (r \in DOMAIN a => a[r] = Old)}

\* Discovery, the feed, the plan and its requests.
Ask(w) ==
    /\ pc[w] = "loaded"
    /\ \E found \in Discoveries, sighted \in Sightings :
          LET known == Promoted(copy[w], sighted, now[w])
              names == Names(known, found)
              unknown == {r \in names : known[r] = None}
              probes == ProbeRotation(Tier(known, names, Cold), place[w])
              oldest == OldestRetired(known, Tier(known, names, Old))
          IN  /\ \E last \in IF oldest = {} THEN {{}} ELSE {{r} : r \in oldest} :
                    \E answer \in Answers(Tier(known, names, Hot) \cup unknown
                                             \cup probes \cup last) :
                        copy' = [copy EXCEPT ![w] = Observed(known, answer, now[w])]
              /\ \E next \in NextCursor(probes, place[w]) :
                    place' = [place EXCEPT ![w] = next]
    /\ pc' = [pc EXCEPT ![w] = "asked"]
    /\ UNCHANGED <<pushed, records, cursor, now, crossed>>

Finish(w) ==
    /\ pc' = [pc EXCEPT ![w] = "idle"]
    /\ copy' = [copy EXCEPT ![w] = Unknown]
    /\ place' = [place EXCEPT ![w] = 0]
    /\ now' = [now EXCEPT ![w] = 0]

\* Bug: the cursor is not saved.
SaveRecords(w) ==
    /\ pc[w] = "asked"
    /\ records' = copy[w]
    /\ crossed' = [v \in Workers |-> v # w /\ Running(v)]
    /\ Finish(w)
    /\ UNCHANGED <<pushed, cursor>>

\* ActivityCache.save
Save(w) ==
    /\ pc[w] = "asked"
    /\ records' = copy[w]
    /\ cursor' = place[w]
    /\ crossed' = [v \in Workers |-> v # w /\ Running(v)]
    /\ Finish(w)
    /\ UNCHANGED pushed

\* Discovery fails, or the file cannot be written.
GiveUp(w) ==
    /\ Running(w)
    /\ Finish(w)
    /\ crossed' = [crossed EXCEPT ![w] = FALSE]
    /\ UNCHANGED <<pushed, records, cursor>>

-----------------------------------------------------------------------------

Next ==
    \/ \E r \in Repos : Push(r) \/ Age(r)
    \/ \E w \in Workers : Load(w) \/ LoadNothing(w) \/ Ask(w) \/ Save(w) \/ GiveUp(w)

\* Refreshes go on; now and then discovery answers, and the file is written,
\* and one day it is readable for good.
Fairness ==
    /\ <>[][\A w \in Workers : ~ LoadNothing(w)]_vars
    /\ WF_vars(\E w \in Workers : Load(w))
    /\ SF_vars(\E w \in Workers : Ask(w))
    /\ SF_vars(\E w \in Workers : Save(w))

Spec == Init /\ [][Next]_vars

-----------------------------------------------------------------------------
(* Properties *)

\* "The stamp advances only on evidence": no record, and none on its way to
\* the file, claims a push that the viewer did not make.
RecordIsEvidence ==
    \A r \in Repos : \A known \in {records} \cup {copy[w] : w \in Workers} :
        known[r] # None => pushed[r] # None /\ known[r].stamp <= pushed[r]

\* What the file knows of a repository is only taken back by a refresh that
\* overlapped with another, or that could not read the file.
LearnedIsKept ==
    [][\A r \in Repos :
          records[r] # None /\ pushed'[r] = pushed[r] =>
              \/ records'[r] # None /\ records'[r].stamp >= records[r].stamp
              \/ \E w \in Workers : Save(w) /\ crossed[w]]_vars

\* "Cold in rotation, retired one slow probe at a time": a push to a repository
\* that the file knows is found, although neither discovery nor the feed
\* mentions it and requests for others fail.  The exception: a retired
\* repository that never answers stays the one asked longest ago, and no other
\* retired repository is asked again.
PushIsFound ==
    (\A q \in Failing : []<>(records[q] # None => records[q].stamp # Old)) =>
        \A r \in Repos \ Failing :
            pushed[r] = Hot /\ records[r] # None
            ~> \/ pushed[r] # Hot
               \/ records[r] = None
               \/ records[r].stamp = Hot

=============================================================================
