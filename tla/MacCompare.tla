---------------------------- MODULE MacCompare ----------------------------
(***************************************************************************)
(* Comparing what the MACs of one portal may see (services/mac_health.py,   *)
(* second half): genre lists are asked through every usable MAC, stored     *)
(* partially when some fail, diffed in two ways, and, when the packages     *)
(* differ, the channel ids of the enabled genres are compared.  The client  *)
(* (portal/client.py) keeps a refused vod or series list to itself and      *)
(* gives an empty one.  The rows of the report become per-MAC translations  *)
(* of a live source (services/channel_translations.py), which               *)
(* links.plan_for plays.                                                    *)
(***************************************************************************)
EXTENDS Naturals, SequencesExt, Selection

CONSTANTS
    PortalMacs, MacOrder,      \* the portal's MACs, and their order: Seq(PortalMacs)
    Ids, Names,       \* ids and normalized names of genres and channels
    LiveCmds, Blank,      \* the cmds of channels, and an empty one
    NoId,             \* an id that names nothing ("*", "0", "-1", empty)
    Unknown,          \* a count never stored; no row; no report
    LiveRows,          \* LiveSource rows
    Lineups,          \* the channel lists a panel may have for a MAC
    MaxCompares       \* bound: how often the operator compares

VARIABLES
    offers,      \* [PortalMacs -> [Kinds -> set of [id, name]]]: the panel's genre lists
    lineup,      \* [PortalMacs -> set of [id, name, genre, cmd]]: its channels
    there,       \* the MacAddress rows that exist
    genre,       \* [Kinds -> [gid -> [name, enabled] or Unknown]]
    counts,      \* MacAddress.genre_count_<kind>
    source,      \* [LiveRows -> [id, name, cmd]]: portal_channel_id, original_name, cmd
    translation, \* [LiveRows -> [PortalMacs -> [id, cmd] or Unknown]]: ChannelIdTranslation
    report       \* the running or last compare

\* Only a failing live list fails the MAC.
Kinds == {"live", "vod", "series"}

\* A panel's genres and channels, and what a translation holds of a channel.
Genres == [id : Ids \cup {NoId}, name : Names]
Channels == [id : Ids, name : Names, genre : Ids, cmd : LiveCmds \cup {Blank}]
Renamed == [id : Ids, cmd : LiveCmds]

ASSUME CompareAssumption ==
    /\ MacOrder \in Seq(PortalMacs) /\ MaxCompares \in Nat
    /\ Unknown \notin Renamed /\ Blank \notin LiveCmds
    /\ Lineups \subseteq SUBSET Channels /\ IsFiniteSet(Names)

compareVars == <<offers, lineup, there, genre, counts, source, translation, report>>

\* _genre_key: the portal's id, or else the name.  It is also the genre_portal_id stored.
Key(g) == IF g.id # NoId THEN g.id ELSE g.name
KeysOf(list) == {Key(g) : g \in list}

\* Histories for the properties: "told", the lists that were the panel's own, and "hidden",
\* the stored counts of a list that a refusal was kept out of.
NoReport == [at |-> "idle", n |-> 0, blocks |-> <<>>, rows |-> {}, identical |-> TRUE,
             refused |-> FALSE, packages |-> 0, told |-> {}, hidden |-> {}]

\* A block of the report: what one MAC answered; its "errors" are kinds, and so is "hid",
\* the kinds whose refusal the client kept to itself (of which the report knows nothing).
BlockTypeOK(b) == b.mac \in PortalMacs /\ b.ok \in BOOLEAN /\ b.errors \cup b.hid \subseteq Kinds

\* Nothing has been compared yet, and no translation is stored.  One portal has no two
\* sources of one channel id.
CompareInit ==
    /\ offers \in [PortalMacs -> [Kinds -> SUBSET Genres]]
    /\ lineup \in [PortalMacs -> SUBSET Channels]
    /\ there = PortalMacs
    /\ genre = [k \in Kinds |-> [g \in Ids \cup Names |-> Unknown]]
    /\ counts = [m \in PortalMacs |-> [k \in Kinds |-> Unknown]]
    /\ source \in [LiveRows -> [id : Ids, name : Names, cmd : LiveCmds \cup {Blank}]]
    /\ \A t, u \in LiveRows : source[t].id = source[u].id => t = u
    /\ translation = [t \in LiveRows |-> [m \in PortalMacs |-> Unknown]]
    /\ report = NoReport

CompareTypeOK ==
    /\ there \subseteq PortalMacs
    /\ \A k \in Kinds, g \in Ids \cup Names :
          genre[k][g] = Unknown \/ genre[k][g] \in [name : Names, enabled : BOOLEAN]
    /\ \A m \in PortalMacs, k \in Kinds : counts[m][k] = Unknown \/ counts[m][k] \in Nat
    /\ translation \in [LiveRows -> [PortalMacs -> Renamed \cup {Unknown}]]
    /\ report.packages \in Nat /\ \A i \in DOMAIN report.blocks : BlockTypeOK(report.blocks[i])
-----------------------------------------------------------------------------
\* What a request for categories comes to: the list, a PortalError, another exception.
Replies == {"told", "refused", "broken"}

\* vod_genres: a PortalError is an empty list.
VodGenres(m, reply) == IF reply = "told" THEN offers[m]["vod"] ELSE {}

\* _genres_for_mac, where the live list comes: series_genres asks for the vod list (again)
\* when the series are refused or none.  What else fails is an error of its kind.
Block(m, vod, series, again) ==
    LET back == series = "refused" \/ (series = "told" /\ offers[m]["series"] = {})
        kindsOf(v, s) == (IF v THEN {"vod"} ELSE {}) \cup (IF s THEN {"series"} ELSE {})
    IN  [mac |-> m, ok |-> TRUE,
         errors |-> kindsOf(vod = "broken", series = "broken" \/ (back /\ again = "broken")),
         hid |-> kindsOf(vod = "refused", series = "refused" \/ (back /\ again = "refused")),
         lists |-> [k \in Kinds |-> CASE k = "live" -> offers[m]["live"]
                                      [] k = "vod" -> VodGenres(m, vod)
                                      [] OTHER -> IF back THEN VodGenres(m, again)
                                                  ELSE IF series = "told" THEN offers[m]["series"] ELSE {}]]

\* A MAC that fails: refused, too late, or not answering with a list.
FailedBlock(m) == [mac |-> m, ok |-> FALSE, errors |-> {}, hid |-> {}, lists |-> [k \in Kinds |-> {}]]

\* compare_genres asks the MACs that are online and not disowned (which ones are is
\* for MacHealth to say), of all or of at least two selected.
Compare ==
    /\ report.at \in {"idle", "done"} /\ Cardinality(there) >= 2 /\ report.n < MaxCompares
    /\ \E usable \in SUBSET there : \E failed \in SUBSET usable :
       \E vod, series, again \in [usable \ failed -> Replies] :
          LET asked == Only(MacOrder, usable) IN
          report' = [NoReport EXCEPT !.at = "answered", !.n = report.n + 1, !.hidden = report.hidden,
                        !.blocks = [i \in DOMAIN asked |->
                           LET m == asked[i] IN
                           IF m \in failed THEN FailedBlock(m) ELSE Block(m, vod[m], series[m], again[m])]]
    /\ UNCHANGED <<offers, lineup, there, genre, counts, source, translation>>

Blocks == {report.blocks[i] : i \in DOMAIN report.blocks}
OkFor(k) == {b \in Blocks : b.ok /\ k \notin b.errors}

\* Mutant of CountWritten: a list that failed counts as an empty one.
CountWrittenAlways(b, k) == b.ok

CountWritten(b, k) == b.ok /\ k \notin b.errors

\* The answer of a MAC that is counted, if any.
Counted(m, k) == {b \in Blocks : m \in there /\ b.mac = m /\ CountWritten(b, k)}

\* _persist_mac_genre_counts
PersistCounts ==
    /\ report.at = "answered"
    /\ counts' = [m \in PortalMacs |-> [k \in Kinds |->
                    IF Counted(m, k) = {} THEN counts[m][k]
                    ELSE Cardinality((CHOOSE b \in Counted(m, k) : TRUE).lists[k])]]
    /\ report' = [report EXCEPT !.at = "counted",
                     !.hidden = {p \in PortalMacs \X Kinds :
                                    IF Counted(p[1], p[2]) = {} THEN p \in report.hidden
                                    ELSE \E b \in Counted(p[1], p[2]) : p[2] \in b.hid}]
    /\ UNCHANGED <<offers, lineup, there, genre, source, translation>>

\* The lists of the MACs that answered, united by gid: of two entries with one gid the
\* first MAC's stays (setdefault).
Union(k) ==
    LET ok == SelectSeq(report.blocks, LAMBDA b : b.ok)
        has(g) == {i \in DOMAIN ok : \E e \in ok[i].lists[k] : Key(e) = g}
        first(g) == CHOOSE i \in has(g) : \A j \in has(g) : i <= j
    IN  [g \in KeysOf(UNION {b.lists[k] : b \in {c \in Blocks : c.ok}}) |->
            (CHOOSE e \in ok[first(g)].lists[k] : Key(e) = g).name]

\* _sync_genres: new rows start disabled, known ones take the new name.
Upserted(rows, incoming) ==
    [g \in DOMAIN rows |->
        IF g \notin DOMAIN incoming THEN rows[g]
        ELSE IF rows[g] = Unknown THEN [name |-> incoming[g], enabled |-> FALSE]
        ELSE [rows[g] EXCEPT !.name = incoming[g]]]

\* _persist_genres_from_compare
PersistGenres ==
    /\ report.at = "counted"
    /\ genre' = [k \in Kinds |-> Upserted(genre[k], Union(k))]
    /\ report' = [report EXCEPT !.at = "stored"]
    /\ UNCHANGED <<offers, lineup, there, counts, source, translation>>

\* Either write may fail without losing the report.
PersistFails ==
    /\ report.at \in {"answered", "counted"}
    /\ report' = [report EXCEPT !.at = "stored"]
    /\ UNCHANGED <<offers, lineup, there, genre, counts, source, translation>>

\* Mutant of KindIdentical: only what the first MAC has and another lacks.
KindWithinOthers(k) ==
    LET ok == SelectSeq(report.blocks, LAMBDA b : b \in OkFor(k)) IN
    \A i \in DOMAIN ok : KeysOf(ok[1].lists[k]) \subseteq KeysOf(ok[i].lists[k])

\* _diff_kind: no MAC has a key that another lacks.
KindIdentical(k) ==
    \A b, c \in OkFor(k) : KeysOf(b.lists[k]) = KeysOf(c.lists[k])

Incomplete == {b \in Blocks : ~b.ok \/ b.errors # {}}

\* How often a list has each key: the keys of a list, sorted with their repetitions.
Sorted(list) == [key \in KeysOf(list) |-> Cardinality({e \in list : Key(e) = key})]

\* The signature that groups MACs into packages; errors are part of it (those of one kind
\* are taken to read alike, and those of MACs that failed).
Signature(b) ==
    IF b.ok THEN [k \in Kinds |-> <<k \in b.errors, Sorted(b.lists[k])>>] ELSE <<>>

Packages == {Signature(b) : b \in Blocks}
OkPackages == {Signature(b) : b \in {c \in Blocks : c.ok}}

\* _resolve_enabled_for_mac: a stored genre onto one MAC's list, by id, else by name.
ResolveEnabled(enabled, list) ==
    LET hit(g) == IF \E e \in list : e.id = g THEN {e \in list : e.id = g}
                  ELSE {e \in list : e.name = genre["live"][g].name}
    IN  {e.id : e \in UNION {hit(g) : g \in enabled}} \ {NoId}

\* _diff_channel_ids: by name, the ids and the cmds the MACs have, a blank cmd left out;
\* rows whose ids are the same everywhere are left out.  A MAC without one enabled genre
\* does not take part, and one that could not be listed neither.
ChannelRows(unlisted) ==
    LET enabled == {g \in DOMAIN genre["live"] : genre["live"][g] # Unknown /\ genre["live"][g].enabled}
        wanted == [b \in {c \in Blocks : c.ok} |-> ResolveEnabled(enabled, b.lists["live"])]
        part == {b.mac : b \in {c \in DOMAIN wanted : wanted[c] # {}}} \ unlisted
        listed(m) == {c \in lineup[m] : \E b \in DOMAIN wanted : b.mac = m /\ c.genre \in wanted[b]}
        named(m, n) == {c \in listed(m) : c.name = n}
        has(n) == [m \in {x \in part : named(x, n) # {}} |-> CHOOSE c \in named(m, n) : TRUE]
    IN  {[name |-> n, ids |-> [m \in DOMAIN has(n) |-> has(n)[m].id],
          cmds |-> [m \in {x \in DOMAIN has(n) : has(n)[x].cmd # Blank} |-> has(n)[m].cmd]] :
            n \in {x \in Names : /\ DOMAIN has(x) # {}
                                 /\ \/ DOMAIN has(x) # part
                                    \/ \E m, o \in part : has(x)[m].id # has(x)[o].id}}

\* The channel phase, only between different packages that answered, and the report.
Report ==
    /\ report.at = "stored"
    /\ \E unlisted \in SUBSET PortalMacs :
       report' = [report EXCEPT !.at = "done", !.blocks = <<>>, !.refused = Incomplete # {},
                     !.identical = (\A k \in Kinds : KindIdentical(k)) /\ Incomplete = {},
                     !.packages = Cardinality(Packages),
                     !.told = {p \in PortalMacs \X Kinds : \E b \in OkFor(p[2]) : b.mac = p[1] /\ p[2] \notin b.hid},
                     !.rows = IF Cardinality(OkPackages) > 1 THEN ChannelRows(unlisted) ELSE {}]
    /\ UNCHANGED <<offers, lineup, there, genre, counts, source, translation>>
-----------------------------------------------------------------------------
\* save: the sources a report row is about, by any of its ids, and by a name if only
\* one source has it.
Targets(row) ==
    LET named == {t \in LiveRows : source[t].name = row.name} IN
    {t \in LiveRows : \E m \in DOMAIN row.ids : row.ids[m] = source[t].id}
    \cup (IF Cardinality(named) = 1 THEN named ELSE {})

\* The rows that say something of a pair: one without a cmd of the MAC is skipped.
Saying(rows, t, m) == {r \in Range(rows) : t \in Targets(r) /\ m \in DOMAIN r.cmds}

\* What they say, in their order.
Says(rows, t, m) ==
    LET about == Only(rows, Saying(rows, t, m)) IN
    [i \in DOMAIN about |-> [id |-> about[i].ids[m], cmd |-> about[i].cmds[m]]]

Own(t) == [id |-> source[t].id, cmd |-> source[t].cmd]

\* Mutant of Dropped: the row of an earlier numbering stays.
DroppedNever(rows, t, m) == FALSE

\* A pair whose id and cmd are the source's own needs no row, and an old one must go.
Dropped(rows, t, m) == Own(t) \in Range(Says(rows, t, m))

\* Deletions come before the writes; of two rows that write one pair the later counts.
SaveTranslations(rows) ==
    LET writes(t, m) == Only(Says(rows, t, m), Renamed \ {Own(t)}) IN
    /\ report.at = "done" /\ rows # <<>>
    /\ translation' = [t \in LiveRows |-> [m \in PortalMacs |->
          IF m \notin there THEN translation[t][m]
          ELSE IF writes(t, m) # <<>> THEN Last(writes(t, m))
          ELSE IF Dropped(rows, t, m) THEN Unknown ELSE translation[t][m]]]
    /\ UNCHANGED <<offers, lineup, there, genre, counts, source, report>>

ClearTranslations ==
    /\ translation' = [t \in LiveRows |-> [m \in PortalMacs |-> Unknown]]
    /\ translation' # translation
    /\ UNCHANGED <<offers, lineup, there, genre, counts, source, report>>

\* plan_for: the cmd with which playing source t through MAC m asks the panel for a link.
Asked(t, m) == IF translation[t][m] # Unknown THEN translation[t][m].cmd ELSE source[t].cmd

\* The panel renumbers the channels of one MAC.
Renumber(m) ==
    /\ \E l \in Lineups : l # lineup[m] /\ lineup' = [lineup EXCEPT ![m] = l]
    /\ UNCHANGED <<offers, there, genre, counts, source, translation, report>>

\* The operator enables a genre, or removes a MAC (its translations go with it).
ToggleGenre(k, g) ==
    /\ genre[k][g] # Unknown
    /\ genre' = [genre EXCEPT ![k][g].enabled = ~@]
    /\ UNCHANGED <<offers, lineup, there, counts, source, translation, report>>

DropMac(m) ==
    /\ m \in there
    /\ there' = there \ {m}
    /\ translation' = [t \in LiveRows |-> [translation[t] EXCEPT ![m] = Unknown]]
    /\ UNCHANGED <<offers, lineup, genre, counts, source, report>>

CompareNext ==
    \/ Compare \/ PersistCounts \/ PersistGenres \/ PersistFails \/ Report
    \/ ClearTranslations \/ \E rows \in SetToAllKPermutations(report.rows) : SaveTranslations(rows)
    \/ \E k \in Kinds, g \in Ids \cup Names : ToggleGenre(k, g)
    \/ \E m \in PortalMacs : Renumber(m) \/ DropMac(m)

CompareSpec == CompareInit /\ [][CompareNext]_compareVars
-----------------------------------------------------------------------------
(* Properties *)

\* The list a panel that refuses nothing gives for a kind.
Given(m, k) == IF k = "series" /\ offers[m][k] = {} THEN offers[m]["vod"] ELSE offers[m][k]

\* _persist_mac_genre_counts: "without erasing older partial results".  A stored count is
\* that of a list the panel gave whole, however the compares before and after it went,
\* except where the client kept a refusal of that list to itself.
CountsAreWhole ==
    \A m \in PortalMacs, k \in Kinds :
        <<m, k>> \in report.hidden \/ counts[m][k] \in {Unknown, Cardinality(Given(m, k))}

\* No list of the panel has two entries of one key.
KeysAreOwn ==
    \A m \in PortalMacs, k \in Kinds : \A e, f \in offers[m][k] : Key(e) = Key(f) => e = f

\* The report judges twice, by differences of key sets and by packages.  MACs that all
\* answered and form one package are identical; identical ones form one package, unless a
\* list repeats a key; and what the panel told identical MACs of a kind has the same keys.
VerdictsAgree ==
    report.at = "done" =>
        /\ report.packages <= 1 /\ ~report.refused => report.identical
        /\ report.identical /\ KeysAreOwn => report.packages <= 1
        /\ report.identical => \A p, o \in report.told : p[2] = o[2] =>
              KeysOf(Given(p[1], p[2])) = KeysOf(Given(o[1], o[2]))

\* The report, the stored counts and the packages it draws tell one story of the answers.
PackagesAgree == VerdictsAgree /\ CountsAreWhole

\* A saved row is what is played: through each MAC, a source asks with a cmd that one of
\* the saved rows about it has for that MAC, whatever was stored for the pair before; where
\* none has one (no row is about the source, or the MAC's cmd was empty), as it did before.
PlayedAsSaved ==
    report.at = "done" => \A rows \in SetToAllKPermutations(report.rows) : SaveTranslations(rows) =>
        \A t \in LiveRows, m \in there :
            Asked(t, m)' \in IF Saying(rows, t, m) = {} THEN {Asked(t, m)}
                             ELSE {r.cmds[m] : r \in Saying(rows, t, m)}
SavedRowsArePlayed == [][PlayedAsSaved]_compareVars
=============================================================================
