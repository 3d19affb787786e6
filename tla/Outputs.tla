------------------------------ MODULE Outputs -------------------------------
(***************************************************************************)
(* What an account sees: the rows of the output playlists its group          *)
(* whitelist lets through, as the M3U, the web player, the Xtream lists and   *)
(* the bouquets of a receiver each select them (playlist_gen.py,              *)
(* enigma2_bouquets.py), and the cache of rendered M3U texts with the         *)
(* generation that writes advance (content_cache.py, database.py).            *)
(***************************************************************************)
EXTENDS Naturals, FiniteSets

CONSTANTS
    Rows, KindOf,        \* [Rows -> "live", "vod", "series" or "local"]
    Seasons, ShowOf,     \* [Seasons -> the series row that links the season]
    NumberOf,            \* [Seasons -> Nat]: the season's number
    Episodes, SeasonOf,  \* [Episodes -> Seasons]
    Groups, Folded,      \* [Groups -> Nat]: spellings of one name fold to one number
    Requests,
    MaxEdits,            \* bound: edits of the playlists and the account
    MaxGeneration        \* bound: no edit or request begins beyond it

VARIABLES
    group,        \* [Rows -> the group of the row]
    shown,        \* [Rows \cup Seasons -> enabled], for a season its link
    allowed,      \* [Kinds -> the account's whitelist]
    version,      \* edits committed
    writer,       \* an edit whose statement has run and whose commit has not
    generation,   \* content_cache.generation()
    cache,        \* rendered texts by key
    req           \* [Requests -> a request of /playlist.m3u]

outputVars == <<group, shown, allowed, version, writer, generation, cache, req>>

Kinds == {KindOf[x] : x \in Rows}
\* clean_groups keeps one spelling of a name.
Whitelists == {S \in SUBSET Groups : \A g, h \in S : Folded[g] = Folded[h] => g = h}
Idle == [at |-> "idle"]
Texts == [groups : [Kinds -> Whitelists], seen : 0 .. MaxEdits]
NoRequest == [at |-> "idle", asked |-> 0, groups |-> [k \in Kinds |-> {}], key |-> <<>>, seen |-> 0]

\* The database keeps seasons to series rows; ids of rows and episodes are of two kinds.
OutputAssumption ==
    /\ IsFiniteSet(Rows) /\ Folded \in [Groups -> Nat]
    /\ \A x \in Rows : KindOf[x] \in {"live", "vod", "series", "local"}
    /\ \A s \in Seasons : ShowOf[s] \in Rows /\ KindOf[ShowOf[s]] = "series"
    /\ \A e \in Episodes : SeasonOf[e] \in Seasons /\ e \notin Rows
    /\ MaxEdits \in Nat /\ MaxGeneration \in Nat

OutputTypeOK ==
    /\ group \in [Rows -> Groups] /\ shown \in [Rows \cup Seasons -> BOOLEAN]
    /\ allowed \in [Kinds -> Whitelists] /\ version \in 0 .. MaxEdits
    /\ writer = Idle \/ writer.at = "executed"
    /\ generation \in Nat
    /\ \A e \in cache : e.text \in Texts
    /\ \A r \in Requests :
          /\ req[r].at \in {"idle", "arrived", "verified", "touched", "rendering", "read", "answered"}
          /\ req[r].groups \in [Kinds -> Whitelists] /\ req[r].asked \in 0 .. MaxEdits

OutputInit ==
    /\ group \in [Rows -> Groups] /\ shown = [x \in Rows \cup Seasons |-> TRUE]
    /\ \E S \in Whitelists : allowed = [k \in Kinds |-> S]
    /\ version = 0 /\ writer = Idle /\ generation = 0 /\ cache = {}
    /\ req = [r \in Requests |-> NoRequest]
-----------------------------------------------------------------------------
(* The selection, four times *)

Allowed(g, whitelist) == \E w \in whitelist : Folded[w] = Folded[g]
Visible(x) == shown[x] /\ Allowed(group[x], allowed[KindOf[x]])
OfKind(k) == {x \in Rows : KindOf[x] = k}

\* _build_m3u: series appear as the episodes of their enabled seasons.
M3uItems ==
    LET listed == {x \in Rows : Visible(x)} IN
    (listed \ OfKind("series")) \cup {e \in Episodes : shown[SeasonOf[e]] /\ ShowOf[SeasonOf[e]] \in listed}

\* web_player_playlist_items, and the check it repeats for a play.
WebItems ==
    (UNION {{x \in OfKind(k) : Visible(x)} : k \in {"live", "vod", "local"}})
    \cup {e \in Episodes : /\ ShowOf[SeasonOf[e]] \in {x \in OfKind("series") : Visible(x)}
                           /\ shown[SeasonOf[e]]}

\* Mutant of MayPlay: the link of the season is joined, its flag is not asked.
MayPlayAnySeason(x) ==
    IF x \in Episodes THEN Visible(ShowOf[SeasonOf[x]]) ELSE KindOf[x] # "series" /\ Visible(x)

\* user_can_play_playlist_item
MayPlay(x) ==
    IF x \in Episodes
    THEN LET show == ShowOf[SeasonOf[x]] IN
         shown[show] /\ shown[SeasonOf[x]] /\ Allowed(group[show], allowed["series"])
    ELSE KindOf[x] # "series" /\ shown[x] /\ Allowed(group[x], allowed[KindOf[x]])

\* xtream_live, xtream_vod (films, then files), and xtream_series with the episodes of
\* xtream_series_info; local files are films of the Xtream namespace.
Section(k) == IF k = "vod" THEN {"vod", "local"} ELSE {k}
XtreamList(k) == {x \in Rows : KindOf[x] \in Section(k) /\ Visible(x)}

\* A row that changed hands, or was imported, links seasons of several sources: one number
\* twice.  The answer has one entry for a number, that of whichever season is read last.
\* (It does not ask whether the row itself is on: the list has named no other.)
SameNumber(s, t) == ShowOf[s] = ShowOf[t] /\ NumberOf[s] = NumberOf[t]
Entries(kept) ==
    /\ \A s \in kept : shown[s] /\ \A t \in kept : SameNumber(s, t) => s = t
    /\ \A s \in Seasons : shown[s] => \E t \in kept : SameNumber(s, t)
XtreamItems(kept) ==
    XtreamList("live") \cup XtreamList("vod")
    \cup {e \in Episodes : ShowOf[SeasonOf[e]] \in XtreamList("series") /\ SeasonOf[e] \in kept}

\* build_bundle for a receiver of the account that carries everything.
BouquetItems ==
    LET carried(k) == {x \in OfKind(k) : Visible(x)} IN
    carried("live") \cup carried("vod") \cup carried("local")
    \cup {e \in Episodes : shown[SeasonOf[e]] /\ ShowOf[SeasonOf[e]] \in carried("series")}
-----------------------------------------------------------------------------
(* Xtream categories *)

\* Mutant of CategoryNames: local files are films, their groups are not categories.
CategoryNamesOfKind(k) == {group[x] : x \in {y \in OfKind(k) : shown[y] /\ Allowed(group[y], allowed[k])}}

\* xtream_categories: one category for the spellings of a name, numbered in order.
CategoryNames(k) ==
    UNION {{group[x] : x \in {y \in OfKind(j) : shown[y] /\ Allowed(group[y], allowed[j])}} : j \in Section(k)}
FoldedNames(k) == {Folded[g] : g \in CategoryNames(k)}
Categories(k) == 1 .. Cardinality(FoldedNames(k))
\* Which spelling of a name becomes the category's is up to the database.
Spellings(k) == {s \in SUBSET CategoryNames(k) :
                    \A f \in FoldedNames(k) : Cardinality({g \in s : Folded[g] = f}) = 1}
\* A row is filed under its own spelling, or under the first category.
FiledUnder(x, k, spelling) ==
    IF group[x] \in spelling
    THEN 1 + Cardinality({f \in FoldedNames(k) : f < Folded[group[x]]})
    ELSE 1
-----------------------------------------------------------------------------
(* Edits and the cache of texts *)

LibraryStep == UNCHANGED <<generation, cache, req>>

\* A statement on a table of the outputs advances the generation when it has run; readers see
\* the edit with the commit.
Execute ==
    /\ writer = Idle /\ version < MaxEdits /\ generation < MaxGeneration /\ generation' = generation + 1
    /\ \/ \E x \in Rows, g \in Groups : writer' = [at |-> "executed", what |-> "group", of |-> x, to |-> g]
       \/ \E x \in DOMAIN shown : writer' = [at |-> "executed", what |-> "switch", of |-> x, to |-> ~shown[x]]
       \/ \E k \in Kinds, S \in Whitelists :
             writer' = [at |-> "executed", what |-> "whitelist", of |-> k, to |-> S]
    /\ UNCHANGED <<group, shown, allowed, version, cache, req>>
Commit ==
    /\ writer # Idle /\ writer' = Idle /\ version' = version + 1 /\ LibraryStep
    /\ group' = IF writer.what = "group" THEN [group EXCEPT ![writer.of] = writer.to] ELSE group
    /\ shown' = IF writer.what = "switch" THEN [shown EXCEPT ![writer.of] = writer.to] ELSE shown
    /\ allowed' = IF writer.what = "whitelist" THEN [allowed EXCEPT ![writer.of] = writer.to] ELSE allowed
Rollback ==
    /\ writer # Idle /\ writer' = Idle /\ LibraryStep /\ UNCHANGED <<group, shown, allowed, version>>

Playing(r) == UNCHANGED <<group, shown, allowed, version, writer>>

Arrive(r) ==
    /\ req[r].at = "idle" /\ generation < MaxGeneration /\ Playing(r) /\ UNCHANGED <<generation, cache>>
    /\ req' = [req EXCEPT ![r].at = "arrived", ![r].asked = version]

\* UserAuth.verify reads the account, then writes its last_active: a statement on users.
Verify(r) ==
    /\ req[r].at = "arrived" /\ Playing(r) /\ UNCHANGED <<generation, cache>>
    /\ req' = [req EXCEPT ![r].at = "verified", ![r].groups = allowed]

\* Mutant of Touched: last_active is written without a statement the hook sees.
TouchedQuietly == generation

Touched == generation + 1

Touch(r) ==
    /\ req[r].at = "verified" /\ Playing(r) /\ generation' = Touched
    /\ req' = [req EXCEPT ![r].at = "touched"] /\ UNCHANGED cache

KeyOf(r) == <<req[r].groups, generation>>

\* build_m3u: the key is taken before anything is read.
Lookup(r) ==
    LET hits == {e \in cache : e.key = KeyOf(r)} IN
    /\ req[r].at = "touched" /\ Playing(r) /\ UNCHANGED <<generation, cache>>
    /\ \/ /\ hits = {}
          /\ req' = [req EXCEPT ![r].at = "rendering", ![r].key = KeyOf(r)]
       \/ \E e \in hits :
             req' = [req EXCEPT ![r].at = "answered", ![r].groups = e.text.groups, ![r].seen = e.text.seen]
Render(r) ==
    /\ req[r].at = "rendering" /\ Playing(r) /\ UNCHANGED <<generation, cache>>
    /\ req' = [req EXCEPT ![r].at = "read", ![r].seen = version]
\* The text is stored; texts of other generations go.
Store(r) ==
    LET entry == [key |-> req[r].key, text |-> [groups |-> req[r].groups, seen |-> req[r].seen]] IN
    /\ req[r].at = "read" /\ Playing(r) /\ UNCHANGED generation
    /\ cache' = {e \in {o \in cache : o.key # entry.key} \cup {entry} : e.key[2] = generation}
    /\ req' = [req EXCEPT ![r].at = "answered"]
Done(r) ==
    /\ req[r].at = "answered" /\ Playing(r) /\ UNCHANGED <<generation, cache>>
    /\ req' = [req EXCEPT ![r] = NoRequest]

OutputNext ==
    \/ Execute \/ Commit \/ Rollback
    \/ \E r \in Requests : \/ Arrive(r) \/ Verify(r) \/ Touch(r) \/ Lookup(r)
                           \/ Render(r) \/ Store(r) \/ Done(r)

OutputSpec == OutputInit /\ [][OutputNext]_outputVars
-----------------------------------------------------------------------------
(* Properties *)

\* "Match the output playlist": the M3U, the web player and a receiver's bouquets carry the
\* same rows and episodes, and those are what the web player plays.  The Xtream lists carry
\* them too, but for episodes of a season whose number another enabled season of the show
\* has taken.
OneSelection ==
    /\ M3uItems = WebItems /\ BouquetItems = WebItems
    /\ \A kept \in SUBSET Seasons : Entries(kept) =>
          /\ XtreamItems(kept) \subseteq WebItems
          /\ \A e \in WebItems \ XtreamItems(kept) :
                e \in Episodes /\ \E s \in kept : s # SeasonOf[e] /\ SameNumber(s, SeasonOf[e])
    /\ WebItems = {x \in Rows \cup Episodes : MayPlay(x)}

\* "clients re-ask one category at a time when a full list comes back truncated": whichever
\* spelling a category has, every row of a full list is in the list of an advertised category.
NothingLostByCategory ==
    \A k \in {"live", "vod", "series"} : \A x \in XtreamList(k) : \A s \in Spellings(k) :
        FiledUnder(x, k, s) \in Categories(k)

\* Every client of an account is shown the same, in full or one category at a time, as far
\* as seasons of one number allow.
SameForEveryClient == OneSelection /\ NothingLostByCategory

\* A playlist asked for after an edit was committed shows it, although the generation advances
\* before the commit and a text may be rendered in between.
FreshPlaylists ==
    \A r \in Requests : req[r].at = "answered" => req[r].seen >= req[r].asked
=============================================================================
