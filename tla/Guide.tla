------------------------------- MODULE Guide -------------------------------
(***************************************************************************)
(* The programme guide (services/epg.py, routers/api_epg.py): the sources    *)
(* of XMLTV or of a portal, their cached files, the channels and programmes  *)
(* ingested from them, and the workers that refresh.  One lock serializes    *)
(* the ingests; an operator's change of an assignment or of a source is     *)
(* answered by a rerun over the cached files, off the network.             *)
(***************************************************************************)
EXTENDS Naturals, Sequences, FiniteSets

CONSTANTS
    Feeds,         \* guide sources
    EpgIds,           \* tvg ids
    Channels,      \* rows of the live playlist
    Fits,          \* [Channels -> SUBSET EpgIds]: what the names of a channel rank above the threshold
    NoId, NoGuide,
    MaxChanges,    \* bound: operators' changes
    MaxPulls       \* bound: refreshes from the network

\* A channel without an id, and a source without a file.
ASSUME GuideAssumption ==
    /\ NoId \notin EpgIds /\ \A ids \in SUBSET EpgIds : ids # NoGuide
    /\ Fits \in [Channels -> SUBSET EpgIds]

VARIABLES
    remote,        \* [Feeds -> SUBSET EpgIds]: the channels the source lists now
    row,           \* [Feeds -> the EpgSource row]
    cached,        \* [Feeds -> the cached file]
    listed,        \* [Feeds -> EpgChannel rows]
    shows,         \* [Feeds -> EpgProgramme rows: of which ids, read with which clock]
    live,          \* [Channels -> [id, enabled]]
    mapped,        \* EpgChannelSource: set of <<channel, feed, id>>
    worker,        \* [Workers -> the locals of a refresh]
    pending,       \* _cache_pending
    chosen,        \* history: channels whose guide an operator has chosen last
    changes, pulls

guideVars == <<remote, row, cached, listed, shows, live, mapped, worker, pending, chosen, changes, pulls>>
settings == <<row, live, mapped, chosen>>
tables == <<cached, listed, shows>>
counters == <<changes, pulls>>

\* The task of start_refresh, the rerun of cached files, and the scheduler's tick.
Workers == {"refresh", "rematch", "tick"}
Clocks == {"auto", "override"}

Resting == [at |-> "idle", todo |-> {}, feed |-> NoId, raw |-> NoGuide, clock |-> "auto",
            plan |-> [c \in Channels |-> NoId], wanted |-> {}]
Steps == {"idle", "nap", "next", "load", "keep", "match", "assign", "want", "flush"}

\* INGEST_LOCK is held from the look at the row to the end of the ingest.
Ingesting(w) == worker[w].at \in {"load", "keep", "match", "assign", "want", "flush"}
LockFree == \A w \in Workers : ~Ingesting(w)
Cached(w) == w = "rematch"

GuideTypeOK ==
    /\ remote \in [Feeds -> SUBSET EpgIds]
    /\ row \in [Feeds -> [there : BOOLEAN, enabled : BOOLEAN, clock : Clocks, applied : Clocks]]
    /\ cached \in [Feeds -> {NoGuide} \cup SUBSET EpgIds] /\ listed \in [Feeds -> SUBSET EpgIds]
    /\ shows \in [Feeds -> [ids : SUBSET EpgIds, clock : Clocks]]
    /\ live \in [Channels -> [id : EpgIds \cup {NoId}, enabled : BOOLEAN]]
    /\ mapped \subseteq Channels \X Feeds \X EpgIds /\ chosen \subseteq Channels /\ pending \in BOOLEAN
    /\ \A w \in Workers : worker[w].at \in Steps /\ worker[w].todo \subseteq Feeds
    /\ Cardinality({w \in Workers : Ingesting(w)}) <= 1

GuideInit ==
    /\ remote \in [Feeds -> SUBSET EpgIds \ {{}}]
    /\ row = [s \in Feeds |-> [there |-> TRUE, enabled |-> TRUE, clock |-> "auto", applied |-> "auto"]]
    /\ cached = [s \in Feeds |-> NoGuide] /\ listed = [s \in Feeds |-> {}]
    /\ shows = [s \in Feeds |-> [ids |-> {}, clock |-> "auto"]]
    /\ live = [c \in Channels |-> [id |-> NoId, enabled |-> TRUE]] /\ mapped = {} /\ chosen = {}
    /\ worker = [w \in Workers |-> Resting] /\ pending = FALSE /\ changes = 0 /\ pulls = 0
-----------------------------------------------------------------------------
(* Starting a refresh *)

\* start_refresh: one task at a time, of one source or of all that are enabled.
StartRefresh ==
    /\ worker["refresh"].at = "idle" /\ pulls < MaxPulls
    /\ \E todo \in {{s} : s \in Feeds} \cup {Feeds} :
          worker' = [worker EXCEPT !["refresh"] = [Resting EXCEPT !.at = "next",
                                       !.todo = {s \in todo : row[s].there /\ row[s].enabled}]]
    /\ pulls' = pulls + 1
    /\ UNCHANGED <<remote, settings, tables, pending, changes>>

\* refresh_due: the sources that are due; the tick gives way to a running ingest.
Tick ==
    /\ worker["tick"].at = "idle" /\ LockFree /\ pulls < MaxPulls
    /\ \E s \in Feeds :
          /\ row[s].there /\ row[s].enabled
          /\ worker' = [worker EXCEPT !["tick"] = [Resting EXCEPT !.at = "next", !.todo = {s}]]
    /\ pulls' = pulls + 1
    /\ UNCHANGED <<remote, settings, tables, pending, changes>>

\* Mutant of Queued: a rerun under way is taken to cover the change.
QueuedUnlessRunning ==
    IF worker["rematch"].at # "idle" THEN UNCHANGED <<worker, pending>>
    ELSE pending' = TRUE /\ worker' = [worker EXCEPT !["rematch"].at = "nap"]

\* queue_cached_refresh: mark it, and start the task unless it runs already.
Queued ==
    /\ pending' = TRUE
    /\ worker' = IF worker["rematch"].at = "idle" THEN [worker EXCEPT !["rematch"].at = "nap"] ELSE worker

\* The task lets a refresh that is running end first.
Wake ==
    /\ worker["rematch"].at = "nap" /\ worker["refresh"].at = "idle"
    /\ worker' = [worker EXCEPT !["rematch"] = [Resting EXCEPT !.at = "next"]]
    /\ UNCHANGED <<remote, settings, tables, pending, counters>>

\* Once around: the mark is cleared, then the enabled sources are read.
Rerun ==
    /\ worker["rematch"].at = "next" /\ worker["rematch"].todo = {} /\ pending
    /\ pending' = FALSE
    /\ worker' = [worker EXCEPT !["rematch"].todo = {s \in Feeds : row[s].there /\ row[s].enabled}]
    /\ UNCHANGED <<remote, settings, tables, counters>>

Rest(w) ==
    /\ worker[w].at = "next" /\ worker[w].todo = {} /\ ~(Cached(w) /\ pending)
    /\ worker' = [worker EXCEPT ![w] = Resting]
    /\ UNCHANGED <<remote, settings, tables, pending, counters>>
-----------------------------------------------------------------------------
(* One ingest, under the lock *)

Goto(w, at) == worker' = [worker EXCEPT ![w].at = at]
Dropped(w) == worker' = [worker EXCEPT ![w] = [Resting EXCEPT !.at = "next", !.todo = worker[w].todo]]

\* The row as it is when the lock has been got; disabled or gone is skipped.
Ingestible(w, s) == row[s].there /\ row[s].enabled /\ (Cached(w) => cached[s] # NoGuide)
BeginIngest(w) ==
    /\ worker[w].at = "next" /\ LockFree
    /\ \E s \in worker[w].todo :
          \/ /\ Ingestible(w, s)
             /\ worker' = [worker EXCEPT ![w] = [worker[w] EXCEPT !.at = "load", !.todo = worker[w].todo \ {s},
                                                                 !.feed = s, !.clock = row[s].clock]]
          \/ ~Ingestible(w, s) /\ worker' = [worker EXCEPT ![w].todo = @ \ {s}]
    /\ UNCHANGED <<remote, settings, tables, pending, counters>>

\* Download or read the file, then pass one: the channels, for the matching to see.  A
\* source deleted meanwhile refuses its rows (foreign key).
Load(w) ==
    LET s == worker[w].feed
        raw == IF Cached(w) THEN cached[s] ELSE remote[s] IN
    /\ worker[w].at = "load" /\ raw # NoGuide /\ (row[s].there \/ raw = {})
    /\ listed' = [listed EXCEPT ![s] = raw]
    /\ worker' = [worker EXCEPT ![w].at = "keep", ![w].raw = raw]
    /\ UNCHANGED <<remote, settings, cached, shows, pending, counters>>

\* No answer, not XMLTV, too large, no file, no row: the previous guide stays.
Fail(w) ==
    LET s == worker[w].feed IN
    /\ worker[w].at = "load"
    /\ Cached(w) => cached[s] = NoGuide \/ ~row[s].there
    /\ Dropped(w)
    /\ UNCHANGED <<remote, settings, tables, pending, counters>>

Keep(w) ==
    /\ worker[w].at = "keep" /\ Goto(w, "match")
    /\ cached' = IF Cached(w) THEN cached ELSE [cached EXCEPT ![worker[w].feed] = worker[w].raw]
    /\ UNCHANGED <<remote, settings, listed, shows, pending, counters>>

\* _match_items: a channel without an id, and exactly one candidate of the enabled guides.
IdsOffered == UNION {listed[s] : s \in {f \in Feeds : row[f].there /\ row[f].enabled}}
Sure(c) ==
    IF /\ live[c].enabled /\ live[c].id = NoId /\ \A m \in mapped : m[1] # c
       /\ Cardinality(Fits[c] \cap IdsOffered) = 1
    THEN CHOOSE i \in Fits[c] \cap IdsOffered : TRUE ELSE NoId

\* The ranking runs in a thread, and what it decides is written over whatever the row
\* has come to hold.
Match(w) ==
    /\ worker[w].at = "match"
    /\ worker' = [worker EXCEPT ![w].at = "assign", ![w].plan = [c \in Channels |-> Sure(c)]]
    /\ UNCHANGED <<remote, settings, tables, pending, counters>>
Assign(w) ==
    LET plan == worker[w].plan IN
    /\ worker[w].at = "assign" /\ Goto(w, "want")
    /\ live' = [c \in Channels |-> IF plan[c] = NoId THEN live[c] ELSE [live[c] EXCEPT !.id = plan[c]]]
    /\ chosen' = chosen \ {c \in Channels : plan[c] # NoId}
    /\ UNCHANGED <<remote, row, mapped, tables, pending, counters>>

\* What pass two keeps: the ids of enabled channels, by assignment or by mapping.
WantedOf(s) ==
    {live[c].id : c \in {d \in Channels : live[d].enabled /\ live[d].id # NoId}}
    \cup {m[3] : m \in {n \in mapped : n[2] = s /\ live[n[1]].enabled}}
Want(w) ==
    /\ worker[w].at = "want"
    /\ worker' = [worker EXCEPT ![w].at = "flush", ![w].wanted = WantedOf(worker[w].feed)]
    /\ UNCHANGED <<remote, settings, tables, pending, counters>>

\* Mutant of Applied: the clock on record is the one the row has by now.
AppliedByNow(w) == row[worker[w].feed].clock

\* The clock the programmes were read with, as the row had it when the ingest began.
Applied(w) == worker[w].clock

\* _flush_programmes: one transaction replaces the snapshot and notes its clock.  With
\* the row gone it can only fail, or write nothing.
Flush(w) ==
    LET s == worker[w].feed
        kept == worker[w].raw \cap worker[w].wanted IN
    /\ worker[w].at = "flush" /\ Dropped(w)
    /\ IF row[s].there
       THEN /\ shows' = [shows EXCEPT ![s] = [ids |-> kept, clock |-> worker[w].clock]]
            /\ row' = [row EXCEPT ![s].applied = Applied(w)]
       ELSE UNCHANGED <<shows, row>>
    /\ UNCHANGED <<remote, live, mapped, chosen, cached, listed, pending, counters>>
-----------------------------------------------------------------------------
(* Operators, and the world *)

Change == changes < MaxChanges /\ changes' = changes + 1 /\ UNCHANGED <<remote, pulls>>

\* manual_assign, a channel saved with an id, or a choice from the match review.
ChooseId(c, i) ==
    /\ Change /\ Queued /\ live[c].id # i
    /\ live' = [live EXCEPT ![c].id = i]
    /\ chosen' = chosen \cup {c}
    /\ UNCHANGED <<row, mapped, tables>>

\* apply_policy: the mappings of a channel are replaced as a whole.
ChoosePolicy(c, rules) ==
    /\ Change /\ Queued
    /\ \A r \in rules : row[r[1]].there
    /\ mapped' = {m \in mapped : m[1] # c} \cup {<<c, r[1], r[2]>> : r \in rules}
    /\ chosen' = chosen \cup {c}
    /\ UNCHANGED <<row, live, tables>>

\* Switching a channel on or off does not ask for a rerun.
SwitchChannel(c) ==
    /\ Change /\ live' = [live EXCEPT ![c].enabled = ~@]
    /\ chosen' = chosen \ {c}
    /\ UNCHANGED <<row, mapped, tables, worker, pending>>

\* toggle_source: enabled, or the timezone of its clock.
SwitchFeed(s) ==
    /\ Change /\ Queued /\ row[s].there
    /\ row' = [row EXCEPT ![s].enabled = ~@]
    /\ UNCHANGED <<live, mapped, chosen, tables>>
SetClock(s) ==
    /\ Change /\ Queued /\ row[s].there
    /\ row' = [row EXCEPT ![s].clock = IF @ = "auto" THEN "override" ELSE "auto"]
    /\ UNCHANGED <<live, mapped, chosen, tables>>

\* delete_source takes its rows along and then the file; the lock is not asked.
DeleteFeed(s) ==
    /\ Change /\ Queued /\ row[s].there
    /\ row' = [row EXCEPT ![s] = [there |-> FALSE, enabled |-> FALSE, clock |-> "auto", applied |-> "auto"]]
    /\ cached' = [cached EXCEPT ![s] = NoGuide] /\ listed' = [listed EXCEPT ![s] = {}]
    /\ shows' = [shows EXCEPT ![s] = [ids |-> {}, clock |-> "auto"]]
    /\ mapped' = {m \in mapped : m[2] # s}
    /\ UNCHANGED <<live, chosen>>

\* The publisher changes the list of a source.
Publish(s) ==
    /\ changes < MaxChanges /\ changes' = changes + 1
    /\ remote' \in {[remote EXCEPT ![s] = ids] : ids \in SUBSET EpgIds \ {remote[s]}}
    /\ UNCHANGED <<settings, tables, worker, pending, pulls>>

GuideNext ==
    \/ StartRefresh \/ Tick \/ Wake \/ Rerun
    \/ \E w \in Workers : \/ Rest(w) \/ BeginIngest(w) \/ Load(w) \/ Fail(w) \/ Keep(w)
                          \/ Match(w) \/ Assign(w) \/ Want(w) \/ Flush(w)
    \/ \E c \in Channels : \/ \E i \in EpgIds \cup {NoId} : ChooseId(c, i)
                           \/ \E rules \in {{}} \cup {{r} : r \in Feeds \X EpgIds} : ChoosePolicy(c, rules)
                           \/ SwitchChannel(c)
    \/ \E s \in Feeds : SwitchFeed(s) \/ SetClock(s) \/ DeleteFeed(s) \/ Publish(s)

GuideSpec == GuideInit /\ [][GuideNext]_guideVars
-----------------------------------------------------------------------------
(* Properties *)

Quiet == ~pending /\ \A w \in Workers : worker[w].at = "idle"
ChosenFor(s) == {live[c].id : c \in {d \in chosen : live[d].enabled}} \cup
                {m[3] : m \in {n \in mapped : n[2] = s /\ n[1] \in chosen /\ live[n[1]].enabled}}

\* What an operator chooses reaches the guide without the network: when nothing runs or
\* waits any more, each enabled source with a cached file holds the programmes of every
\* id chosen that the file lists, and they were read with the clock the operator set.
\* (An id the matching found may have to wait for the next refresh of another source.)
ChoicesArrive ==
    Quiet => \A s \in Feeds :
        (row[s].there /\ row[s].enabled /\ cached[s] # NoGuide) =>
            /\ cached[s] \cap ChosenFor(s) \subseteq shows[s].ids
            /\ row[s].clock = shows[s].clock

\* timing_pending may be trusted: the clock a source's row says was applied is the one
\* its stored programmes were read with, whatever was saved while they were ingested.
ClockIsHonest == \A s \in Feeds : row[s].there => row[s].applied = shows[s].clock

\* Whatever is edited and fetched while a source is ingested, its stored programmes are those
\* that are chosen and selected, read with its clock - or a pass that will bring them is due.
GuideKeepsUp == ChoicesArrive /\ ClockIsHonest
=============================================================================
