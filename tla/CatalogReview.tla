--------------------------- MODULE CatalogReview ---------------------------
(***************************************************************************)
(* Reviewing what a catalogue scan has found (services/catalog_changes.py,   *)
(* api_portals.review_catalog_changes): the source rows that scans refresh,  *)
(* one change row for each, and the playlist items that carry copies of a    *)
(* source's name, group and artwork.  An update is copied when an operator   *)
(* reviews a change, and into the items the source is primary of.            *)
(***************************************************************************)
EXTENDS Naturals, Sequences, FiniteSets, SequencesExt

CONSTANTS
    Titles,      \* sources of one portal
    Slots,       \* playlist ids
    OwnWord,     \* what an operator types
    NoTitle,
    Findings,    \* what one scan may find different in a row: sets of Reports
    MaxScans,    \* bound: scans that find something
    MaxTouches   \* bound: edits of the playlist

ASSUME WordAssumption == OwnWord \notin Nat /\ MaxScans \in Nat

VARIABLES
    kind,        \* of the catalogue: live, vod or series
    title,       \* [Titles -> the source row, fields and the season it has]
    item,        \* [Slots -> the playlist item]
    note,        \* [Titles -> the CatalogChange row]
    desk,        \* the review handler
    since,       \* history: differences reported since the operator last decided
    scans, touches

reviewVars == <<kind, title, item, note, desk, since, scans, touches>>

Fields == {"name", "group", "art"}
Reports == Fields \cup {"link"}
Words == 0 .. MaxScans
TitleRows == [name : Words, group : Words, art : Words, season : BOOLEAN]
NoNote == [status |-> "none", type |-> "none", labels |-> {}]
NoItem == [there |-> FALSE, name |-> 0, group |-> 0, art |-> 0, chain |-> <<>>,
           canon |-> NoTitle, seasons |-> {}]
FreeDesk == [at |-> "idle", rows |-> {}, labels |-> [s \in Titles |-> {}]]

ReviewTypeOK ==
    /\ kind \in {"live", "vod", "series"}
    /\ title \in [Titles -> TitleRows]
    /\ \A i \in Slots :
          /\ {item[i].name, item[i].group, item[i].art} \subseteq Words \cup {OwnWord}
          /\ item[i].there = (item[i].chain # <<>>) /\ IsInjective(item[i].chain)
          /\ item[i].canon \in Titles \cup {NoTitle}
          /\ item[i].seasons \subseteq {s \in Titles : title[s].season}
    /\ note \in [Titles -> [status : {"none", "pending", "reviewed", "ignored"},
                            type : {"none", "new", "changed"}, labels : SUBSET Reports]]
    /\ desk.at \in {"idle", "apply", "add"} /\ since \in [Titles -> SUBSET Reports]

ReviewInit ==
    /\ kind \in {"live", "vod", "series"}
    /\ title = [s \in Titles |-> [name |-> 0, group |-> 0, art |-> 0, season |-> FALSE]]
    /\ item = [i \in Slots |-> NoItem]
    /\ note \in [Titles -> {NoNote, [NoNote EXCEPT !.status = "pending", !.type = "new"]}]
    /\ desk = FreeDesk /\ since = [s \in Titles |-> {}] /\ scans = 0 /\ touches = 0
-----------------------------------------------------------------------------
(* A scan *)

\* source_diff: the genre of a live channel is not among the fields that are compared.
Compared == IF kind = "live" THEN Reports \ {"group"} ELSE Reports

\* Mutant of Recorded: the differences of earlier scans are kept beside the latest.
RecordedMerged(old, labels) ==
    [status |-> "pending", labels |-> old.labels \cup labels,
     type |-> IF old.status = "pending" /\ old.type = "new" THEN "new" ELSE "changed"]

\* record_changes: what waits as new stays new; the latest differences replace the rest.
Recorded(old, labels) ==
    [status |-> "pending", labels |-> labels,
     type |-> IF old.status = "pending" /\ old.type = "new" THEN "new" ELSE "changed"]

\* _bulk_upsert refreshes the row whatever becomes of the review.
Scan(s) ==
    /\ scans < MaxScans /\ scans' = scans + 1
    /\ \E found \in Findings :
          /\ title' = [title EXCEPT ![s] =
                [name |-> IF "name" \in found THEN scans' ELSE @.name,
                 group |-> IF "group" \in found THEN scans' ELSE @.group,
                 art |-> IF "art" \in found THEN scans' ELSE @.art, season |-> @.season]]
          /\ LET labels == found \cap Compared IN
             /\ note' = IF labels = {} THEN note ELSE [note EXCEPT ![s] = Recorded(@, labels)]
             /\ since' = [since EXCEPT ![s] = @ \cup labels]
    /\ UNCHANGED <<kind, item, desk, touches>>

\* The seasons of a series are fetched by a job of their own.
SeasonsFetched(s) ==
    /\ kind = "series" /\ ~title[s].season
    /\ title' = [title EXCEPT ![s].season = TRUE]
    /\ UNCHANGED <<kind, item, note, desk, since, scans, touches>>
-----------------------------------------------------------------------------
(* What a review copies *)

\* _playlist_targets: a live channel follows the head of its chain, a film or series the
\* source it was made from, wherever that stands in the chain.
Primary(i, s) ==
    item[i].there /\ IF kind = "live" THEN item[i].chain[1] = s ELSE item[i].canon = s

\* A group is taken for the portal's unless an operator typed it; a field of an equal
\* value is left out.
Derived(group) == group \in Words
Takes(i, s, labels, f) ==
    item[i][f] # title[s][f] /\ (f \in labels \/ (f = "group" /\ Derived(item[i].group)))
Missing(i, s) == IF kind = "series" /\ title[s].season THEN {s} \ item[i].seasons ELSE {}

\* _compute_target_updates and _missing_season_links, for one target.
Synced(i, s, labels) ==
    [item[i] EXCEPT !.name = IF Takes(i, s, labels, "name") THEN title[s].name ELSE @,
                    !.group = IF Takes(i, s, labels, "group") THEN title[s].group ELSE @,
                    !.art = IF Takes(i, s, labels, "art") THEN title[s].art ELSE @,
                    !.seasons = @ \cup Missing(i, s)]
-----------------------------------------------------------------------------
(* The review handler *)

Pending == {s \in Titles : note[s].status = "pending"}

\* The chosen rows that still wait are read with their differences; the sources and the
\* playlist are read after that.
BeginReview ==
    /\ desk.at = "idle"
    /\ \E rows \in SUBSET Pending \ {{}} :
          desk' = [at |-> "apply", rows |-> rows,
                   labels |-> [s \in Titles |-> IF s \in rows THEN note[s].labels ELSE {}]]
    /\ UNCHANGED <<kind, title, item, note, since, scans, touches>>

Decided(status) ==
    /\ note' = [s \in Titles |-> IF s \in desk.rows THEN [note[s] EXCEPT !.status = status] ELSE note[s]]
    /\ since' = [s \in Titles |-> IF s \in desk.rows THEN {} ELSE since[s]]
    /\ desk' = FreeDesk

\* apply_reviewed_playlist_updates and the commit: all of it or, after an error, nothing.
ApplyReview ==
    /\ desk.at = "apply" /\ Decided("reviewed")
    /\ item' = [i \in Slots |->
          IF \E s \in desk.rows : Primary(i, s)
          THEN LET s == CHOOSE t \in desk.rows : Primary(i, t) IN Synced(i, s, desk.labels[s])
          ELSE item[i]]
    /\ UNCHANGED <<kind, title, scans, touches>>
ReviewFails ==
    /\ desk.at \in {"apply", "add"} /\ desk' = FreeDesk
    /\ UNCHANGED <<kind, title, item, note, since, scans, touches>>

Ignore ==
    /\ desk.at = "idle"
    /\ \E rows \in SUBSET Pending \ {{}} :
          /\ note' = [s \in Titles |-> IF s \in rows THEN [note[s] EXCEPT !.status = "ignored"] ELSE note[s]]
          /\ since' = [s \in Titles |-> IF s \in rows THEN {} ELSE since[s]]
    /\ UNCHANGED <<kind, title, item, desk, scans, touches>>

BeginAdd ==
    /\ desk.at = "idle"
    /\ \E s \in Pending : note[s].type = "new" /\ desk' = [FreeDesk EXCEPT !.at = "add", !.rows = {s}]
    /\ UNCHANGED <<kind, title, item, note, since, scans, touches>>

\* _sync_live: behind a channel of the name, or as a channel of its own; _sync_vod and
\* _sync_series: an item of its own.
Fresh(s) == [there |-> TRUE, name |-> title[s].name, group |-> title[s].group, art |-> title[s].art,
             chain |-> <<s>>, canon |-> s, seasons |-> IF title[s].season /\ kind = "series" THEN {s} ELSE {}]
ApplyAdd ==
    LET s == CHOOSE t \in desk.rows : TRUE
        linked == \E i \in Slots : IF kind = "live" THEN s \in ToSet(item[i].chain) ELSE item[i].canon = s
        same == {i \in Slots : item[i].there /\ item[i].name = title[s].name}
        unused == {i \in Slots : ~item[i].there} IN
    /\ desk.at = "add" /\ Decided("reviewed")
    /\ IF linked THEN UNCHANGED item
       ELSE \/ /\ kind = "live" /\ same # {}
               /\ LET i == CHOOSE j \in same : TRUE IN
                  item' = [item EXCEPT ![i].chain = Append(@, s)]
            \/ /\ unused # {}
               /\ LET i == CHOOSE j \in unused : TRUE IN item' = [item EXCEPT ![i] = Fresh(s)]
    /\ UNCHANGED <<kind, title, scans, touches>>
-----------------------------------------------------------------------------
(* The playlist builder *)

Touching == touches < MaxTouches /\ touches' = touches + 1 /\ UNCHANGED <<kind, title, note, desk, since, scans>>

Rename(i, f) == Touching /\ item[i].there /\ item' = [item EXCEPT ![i][f] = OwnWord]
ReorderChain(i) == Touching /\ Len(item[i].chain) > 1 /\ item' = [item EXCEPT ![i].chain = Reverse(@)]
AddFallback(i, s) ==
    /\ Touching /\ item[i].there /\ s \notin ToSet(item[i].chain)
    /\ item' = [item EXCEPT ![i].chain = Append(@, s)]

ReviewNext ==
    \/ \E s \in Titles : Scan(s) \/ SeasonsFetched(s) \/ \E i \in Slots : AddFallback(i, s)
    \/ BeginReview \/ ApplyReview \/ ReviewFails \/ Ignore \/ BeginAdd \/ ApplyAdd
    \/ \E i \in Slots : ReorderChain(i) \/ \E f \in Fields : Rename(i, f)

ReviewSpec == ReviewInit /\ [][ReviewNext]_reviewVars
-----------------------------------------------------------------------------
(* Properties *)

\* A review changes a playlist item only by what its primary source's portal has reported
\* since the operator last decided on that source (or by moving a group nobody typed): a
\* difference that was ignored, and the words of a fallback, never get there later.
TakesReported ==
    desk.at = "apply" /\ desk'.at = "idle" =>
        \A i \in Slots, f \in Fields :
            item'[i][f] # item[i][f] =>
                \E s \in desk.rows : /\ Primary(i, s)
                                     /\ f \in since[s] \/ (f = "group" /\ item[i].group # OwnWord)

\* From one decision of the operator to the next, a review brings only what scans have
\* reported of the item's source in between.
OnlyWhatWasReported == [][TakesReported]_reviewVars
=============================================================================
