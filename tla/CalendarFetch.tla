--------------------------- MODULE CalendarFetch ---------------------------
(***************************************************************************)
(* One fetch of Google Calendar (integrations/gcal/source.py): the zone,    *)
(* the list of calendars, then the events of each selected calendar, page   *)
(* by page.  A calendar that is gone is left out; any other request that    *)
(* fails, and any event that cannot be read, fails the whole fetch.         *)
(***************************************************************************)
EXTENDS Lists, SequencesExt

CONSTANTS Listed,      \* the calendars of the list, in its order
          Selected,    \* those the user has selected in Google Calendar
          Agendas      \* what a calendar may hold: pages of raw events

\* The events there may be; `start' is a time.
Raws == UNION {Range(raws) : raws \in UNION {Range(pages) : pages \in Agendas}}

ASSUME CalendarFetchAssumption ==
    /\ Listed \in Seq(Range(Listed)) /\ IsInjective(Listed)
    /\ Selected \subseteq Range(Listed)
    /\ \A pages \in Agendas : pages \in Seq(Range(pages)) /\ pages # <<>>
    /\ \A pages \in Agendas : \A raws \in Range(pages) : raws \in Seq(Range(raws))
    /\ \A raw \in Raws : raw.start \in Int

VARIABLES agenda,      \* the pages of each calendar, at the service
          request,     \* what is asked next: "zone", "list", "events" or "none"
          queue,       \* the selected calendars still to read, the current one first
          page,        \* the next page of the current one
          own,         \* the events read of the current one
          read,        \* the events of those before it
          gone,        \* history: the calendars that were not found
          calEnd      \* "none", an error, or "items"

fetchVars == <<agenda, request, queue, page, own, read, gone, calEnd>>

Errors == {"AuthExpired", "AccessNotAllowed", "Unavailable", "Malformed"}

CalendarFetchInit ==
    /\ agenda \in [Range(Listed) -> Agendas]
    /\ request = "zone"
    /\ queue = <<>> /\ page = 1 /\ own = <<>> /\ read = <<>> /\ gone = {}
    /\ calEnd = "none"

\* _event_of drops a cancelled event and one the user declined before it reads on.
Dropped(raw) == raw.is \in {"cancelled", "declined"}
Attended == {raw \in Raws : ~ Dropped(raw)}
Readable(raws) == \A i \in DOMAIN raws : raws[i].is # "broken"

\* The stable sort by start at the end of fetch.
ByStart(events) == SortedBy(events, [i \in DOMAIN events |-> events[i].start])

\* The selected calendars are all read: the items are complete.
Complete(events) ==
    /\ calEnd' = "items"
    /\ read' = ByStart(events)
    /\ request' = "none"

ZoneIsRead ==
    /\ request = "zone"
    /\ request' = "list"
    /\ UNCHANGED <<agenda, queue, page, own, read, gone, calEnd>>

\* The list of calendars: only those that are selected are read.
ListIsRead ==
    /\ request = "list"
    /\ queue' = Kept(Listed, Selected)
    /\ IF queue' = <<>> THEN Complete(read)
       ELSE request' = "events" /\ UNCHANGED <<read, calEnd>>
    /\ UNCHANGED <<agenda, page, own, gone>>

\* On to the next calendar, with what the current one gave.
NextCalendar(events) ==
    /\ queue' = Tail(queue)
    /\ page' = 1 /\ own' = <<>>
    /\ IF Tail(queue) = <<>> THEN Complete(read \o events)
       ELSE read' = read \o events /\ UNCHANGED <<request, calEnd>>

PageIsRead ==
    LET pages == agenda[Head(queue)] IN
    /\ request = "events"
    /\ Readable(pages[page])
    /\ IF page < Len(pages)
       THEN /\ page' = page + 1
            /\ own' = own \o Kept(pages[page], Attended)
            /\ UNCHANGED <<request, queue, read, calEnd>>
       ELSE NextCalendar(own \o Kept(pages[page], Attended))
    /\ UNCHANGED <<agenda, gone>>

\* Bug: the pages read before the calendar went stay.
CalendarIsCut ==
    /\ request = "events"
    /\ gone' = gone \cup {Head(queue)}
    /\ NextCalendar(own)
    /\ UNCHANGED agenda

\* HTTP 404, on any page: the calendar was deleted or is no longer shared.
CalendarIsGone ==
    /\ request = "events"
    /\ gone' = gone \cup {Head(queue)}
    /\ NextCalendar(<<>>)
    /\ UNCHANGED agenda

\* A refusal, an outage, an answer that is not what was asked for.
RequestFails ==
    /\ request # "none"
    /\ calEnd' \in Errors
    /\ request' = "none"
    /\ UNCHANGED <<agenda, queue, page, own, read, gone>>

CalendarFetchNext ==
    ZoneIsRead \/ ListIsRead \/ PageIsRead \/ CalendarIsGone \/ RequestFails

-----------------------------------------------------------------------------
\* All the events of a calendar that the user goes to or has not answered.
EventsOf(c) == FlattenSeq([n \in DOMAIN agenda[c] |-> Kept(agenda[c][n], Attended)])

\* A fetch that brings items brings each event of each selected calendar once, in
\* the order of their start, and nothing of a calendar that went away while its
\* pages were read; it never passes over an event that it could not read.
ItemsAreWholeCalendars ==
    calEnd = "items" =>
        LET chosen == Kept(Listed, Selected)
            expected == FlattenSeq([i \in DOMAIN chosen |->
                                      IF chosen[i] \in gone THEN <<>> ELSE EventsOf(chosen[i])])
        IN /\ read = ByStart(expected)
           /\ Readable(read)
=============================================================================
