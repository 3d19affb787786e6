# A formal model of the Stalker proxy manager

This directory holds TLA+ models of the parts of the program in which several
things happen at once, in which a long sequence of legal calls has to keep a
promise, or in which two pieces of code have to agree: proxied and redirected
plays and the MAC slots they take, the session a play has with a portal, the
background fetch jobs, catalogue scans and their review, the upkeep and the
comparison of MACs, the live playlist, ffmpeg templates and openings, the
programme guide, and what an account is shown and served. TLC checks small
instances of them, and TLAPS proves most of what the runs check for every value of
the constants: any number of plays, users, MACs, sources, jobs, channels, templates
or requests. `PlaySlots` says abstractly what becomes of the MAC slots of a play, and
the stream manager is checked and proved to implement it.

To repeat the checks: `tlc -workers 2 -config linger.cfg MCStreamManager` (each
run of `PROJECT.json` is one module and one cfg), `tlapm RedirectsProofs.tla`.

## 1. Inventory

The program is one Python process with one asyncio event loop (FastAPI), one
SQLite database, and ffmpeg child processes. There are no threads that share
state with the loop, so everything between two `await`s is atomic, and every
`await` is a place where any other request or background task may run.

| part | state | operations | where |
|---|---|---|---|
| MAC occupancy ledger | `mac_locks` (MAC -> stream ids), `redirect_leases`, `lease_meta` | `lock_mac`, `unlock_mac`, `is_mac_busy`, `lease_mac`, `release_mac*`, `busy_mac_ids` | `services/stream_manager.py` |
| proxied plays | `StreamHandle` (`proc`, `dead`, `parked`, `parker`, `bytes_sent`), the registry `streams`, the pump generator's locals, the watchdog task | `_ensure_slot`, `open`, `_pump`, `_finish`, `kill`, `client_left`, `_park`, `_adopt`, `reap_dead` | `services/stream_manager.py`, `routers/output.py` |
| redirected plays | leases, the release-time memory of a MAC | `resolve`, `release_mac_occupancy`, `cooling_down` | `services/stream_manager.py` |
| route memory | breaker, affinity, candidate failures, link cache, direct verdicts, last hand-out, probe cache | `_RouteHealth`, `note_*`, `link_is_alive` | `services/stream_manager.py`, `services/redirect_guard.py` |
| link policy | flags of a source row, `media_cmd`, `last_cmd_repair` | `plan_for`, `create_link`'s ladder, `_store_media_cmd` | `portal/links.py`, `portal/client.py` |
| MAC health | status columns of the MAC rows | `refresh_portal_macs`, portal test, login of a fetch job | `services/mac_health.py`, `routers/api_portals.py` |
| MAC compare and translations | stored genres and counts, the report, `ChannelIdTranslation` | `compare_genres`, `save_translations` | `services/mac_health.py`, `services/channel_translations.py` |
| portal session | bearer, its age, `_lock`, `_handshaking`, `_profiled`, HTTP client, 429 pause per host | `_get`, `handshake`, `get_profile`, `invalidate`, `close` | `portal/client.py` |
| client pool | sessions by key | `get`, `drop*`, `reap`, `close_all` | `portal/pool.py` |
| fetch jobs | `JOBS`, `_QUEUE`, the worker task | `submit`, `cancel`, `prune_jobs`, the stages of each job kind | `services/fetch_jobs.py` |
| catalogue scheduler | one task, the last attempt per portal | `refresh_due_once` | `services/catalog_scheduler.py` |
| catalogue scan and review | source rows, `catalog_baseline`, `CatalogChange` rows | `_paged_upsert`, `_bulk_upsert`, `record_changes`, the review handler | `services/fetch_jobs.py`, `services/catalog_changes.py` |
| live playlist | positions, numbers, locks, chains of sources | `renumber_live_numbers`, `move_live_to_rank`, create/update/delete/reorder, `assign_live_custom_name` | `services/playlist_sync.py`, `services/playlist_order.py`, `routers/api_playlist.py` |
| ffmpeg templates | fields, command text and its authority, defaults, formats | `build_command`, `parse_command`, save, default, delete, boot | `services/ffmpeg_templates.py`, `routers/api_ffmpeg.py`, `main.py` |
| starts and openings | argv, codec and subtitle caches, learned identity of an origin | `_ffmpeg_argv`, `_remux_gate`, `_subs_gate`, `_open_with_identity` | `services/stream_manager.py`, `services/probe.py`, `services/stream_identity.py` |
| deliveries | templates of items, areas and exceptions | template resolution, M3U and bouquet lines, the routes of a play | `services/playback.py`, `services/enigma2_bouquets.py`, `routers/output.py` |
| outputs and their cache | group whitelists, content generation, rendered texts | M3U, web player, Xtream lists, bouquets | `services/playlist_gen.py`, `services/content_cache.py`, `database.py` |
| programme guide | sources, cached files, ids, programmes, assignments, policies | refresh, rerun, match, `apply_policy`, `build_xmltv` | `services/epg.py`, `services/epg_policy.py`, `routers/api_epg.py` |
| log queue, pacing, logos, TMDB, backup, FTP push | see `PROJECT.json` | | not modelled, section 7 |

How the parts meet. A play request passes the connection limit, opens a handle,
answers, and its pump walks the fallback chain: for each (source, MAC) it asks
the ledger, gets a session from the pool, asks the portal for a link, takes the
slot, starts ffmpeg, and registers the stream with the first byte. Redirects and
probes use the same ledger through leases and `busy_mac_ids`. Fetch jobs use the
same sessions and write the source rows; enabling a source writes the playlist,
whose chains the plays then walk, and whose rows, filtered by an account's groups
and resolved to templates, are what playlists, bouquets and the web player show.
The guide matches its ids to the same rows.

What is hard about it:

* four parties end a play (the finally of its pump, the watchdog, the parker,
  and a kill by the dashboard, the reaper or another play) and each releases
  the slot, the registry entry and the process, in any order;
* a play asks whether a MAC is free, awaits a portal for seconds, and locks it;
* a pipe whose player left may be held for a zap back, which hands one handle
  to a second pump;
* one session is shared by every play on its MAC: refreshes, a nested profile
  request inside the handshake, cancellation at each await, and sessions dropped
  under a running request;
* one worker serves all fetch jobs while handlers add to a queued job's work;
* a catalogue changes while it is paged, pages fail, budgets cut the walk;
* numbers, locks and positions of channels are written by a dozen handlers;
* what a play learns about a source, a link or an identity is read by later plays
  of other users, on other MACs;
* three writers read MAC rows, ask a panel for seconds, and write what changed;
* one decision is made in several places that must agree: the rows an account
  sees (four renderers and the play gate), the template of an item (bouquet,
  playlist and play), a template's two faces, a report's two verdicts.

What makes each part correct is stated as properties in section 3.

## 2. Modules and how they correspond to the code

One action is the code one task executes between two awaits, with every call it
makes. `db_log` only appends to a bounded queue and never suspends, so it is not
an interleaving point. Where the code iterates over candidates in an order that
depends on settings, health and timing (`_live_chain`, the link cache, cooling
down), the model takes any order, which covers each of them.

**MacOccupancy** - the ledger as operators: `LockMac`, `UnlockMac`,
`DropLocksOf`, `HeldBy`, `IsMacBusy`, `BusyMacIds`. A MAC is busy when its slots
are full or when somebody else's lease is on it.

**StreamManager** - the life of a play. `pc[r]` says where request `r` is:

| `pc` | code |
|---|---|
| `new` | before `_ensure_slot` |
| `open`, `drop`, `wait`, `took` | inside `open()`: zap back, `_drop_parked`, `_first_free_mac` / `wait_for_mac`, after a takeover |
| `start`, `attach` | the response object exists, its generator has not started |
| `pass`, `passWait`, `walk`, `link`, `first` | `_pump`: head of a pass, waiting there, next candidate, awaiting the link, awaiting the first byte |
| `send`, `read`, `reap` | the player takes a chunk, the pump reads, an ended pipe is reaped |
| `finish`, `parking`, `closing`, `tail` | the finally of the pump and `_finish` |
| `end` | over |

`handle[r]` is the handle the request pumps (another play's after a zap back),
`src[r]` the process it reads, `hproc[h]` the handle's `proc`. `psrc`, `parker`
and `expiring` are the parker task before, during and after its loop; `watch`
holds the requests with a live watchdog; `proc` says whether a process runs, was
signalled (`dying`), or was reaped. The reaper's 45 s grace may end before or
after a failover: the constant `Reaper` says whether it may act at all, and when
it may, it acts at once.

`LeaseMac` and `LeaseOver` are what redirects, archive links and probes do to
the plays: a lease may appear on any MAC at any time, because its caller asked
`is_mac_busy` some awaits earlier.

`Prompt`: a portal's answer or a first byte arrives only after tasks that need
nothing but turns of the event loop and local database writes have had them. It
guards `LinkReady` and `FirstByte`. Without it a network round trip could be
shorter than a turn of the loop, and the model would need a fresh process name
for each spawn instead of one per play.

**PlaySlots** is the abstract specification of a play's MAC slots, without pump, pipe,
registry, parker or reaper: `slots[p]` and a phase, `waiting`, `live`, `ending`,
`over` or `done`. A play takes one slot at a time, of its own chain; it goes live with
the slot in hand, or on a source that takes none; it leaves the registry empty-handed
and for good; if that happens while an open is under way (`ending`) it may still take
the slot of that open, and no other; it is done when nothing is left.

`Immediate` is the set of plays that are answered before their first byte
(`STREAM_IMMEDIATE_START`, on by default; an address may ask for either).

**StreamProperties** states what the stream manager promises, and maps it to PlaySlots:
`slots[p]` is `HeldBy(p)`, and `Life(p)` reads the phase off the registry, `regd` and
the place of the pump. `SlotsAreKept` is the specification PlaySlots under this mapping.
**MCStreamManager** gives the constants values. The proofs are in modules of their own
(section 5).
**Selection** has the list comprehensions and stable sorts by a condition that
walks, sweeps and scans use (`Only`, `Behind`).

**RouteMemory** and **Redirects** - `resolve()`: the chain is built from the rows
of a route (`BuildChain`), ordered by what is remembered (`OrderedChain`,
`OrderByFree`), and walked twice at most. `walk[r]` holds the locals of one
request; each answer a candidate may give is an action (`Replay`, `StoredAlive`,
`StoredDead`, `Linked`, `SlotBusy`, `MacRefused`, `SourceFailed`, `FreshAlive`,
`FreshDead`). Proxied pipes (`PipeStarts`, `PipeGone`), expiring leases and the
operator's `release_mac` and `release_mac_occupancy` act on the same ledger. A
remembered entry lapses in an action of its own (`Lapse`), so no clock is needed.

**StoredLinks** - when a stored link is played instead of a fresh one, and what a
probe remembers about the URL, its tokenless form and its host. **CommandForms** -
the ladder of forms `create_link` tries for a film, the client's one field for the
last repair, and the row that keeps what worked. **PlayedLinks** puts plays of both
kinds side by side and states `LessonsHold` of them.

**MacHealth** - sweep, portal test and a fetch job's login over the rows of one
portal: each reads, asks MAC by MAC, and commits the columns that differ from what
it read. **MacCompare** - the second half of the same file: which MACs answer
which lists, what is stored of a partial answer, the report, and the translations
saved from it until `plan_for` asks with them. A list comes, is `refused` or is
`broken`: of films and series the client turns a refusal into an empty list, of which
the report knows nothing (`hid`), and only a broken one is an error of its kind. `save`
skips a row, or one MAC of it, without a cmd, and takes a translation away where id and
cmd are the source's own; deletions come before writes.

**PortalClient** - one MAC of one portal. A task's code between two awaits is a
chain of operators on a record `s = [me, task, cl]` (the running task and its
client), the way the methods call each other: `Gate` (`_get`), `TakeLock`,
`Critical` (the body of `async with self._lock`), `Handshake`, `Token`,
`Profile`, `Shaken`, `Ended`. An action applies one such chain to the answer it
was waiting for. The panel issues bearers, may forget the earlier ones, may
answer 401 or 429, or nothing.

**FetchQueue** - `Submit` is `submit()`; the worker's stages follow
`_run_items_fetch` and its callees, each action one stage; `Season` is one
series of the season stage. The scheduler task and the janitor's `Prune` are
actors of their own. The queue is FIFO; a `cancelled` job that is still in the
queue is dropped by `Take` as in the code, although no path sets that status on
a queued job.

**CatalogScan** - one genre: `FirstPage`, `NextBatch` (concurrent pages of which
some fail), `SerialPage`, `StorePage` (`_bulk_upsert` with `record_changes`),
`SetBaseline`, the one-request path of live genres, cancellation, and the review
handler that reads in one step and writes in a later one, overlapping any scan.
A panel may list films and series together (`foreign`): the client drops the rows of
the other kind, so a walk sees `Kept(p)` of page p, and where it goes by the length of
what it kept a full page may look like the last one. `Measured` says that this cannot
be: the panel gave a total, or lists one kind. Three history variables (`steady`,
`known`, `unseen`) only serve the properties.

**LivePlaylist** - every handler holds the playlist-order lock for its whole
transaction, so each is one action. Tables are functions from channel ids to
rows, and the helpers (`Renumber`, `MoveToRank`, `Repair`, `Place`,
`NumberSync`) transform them as the functions of the same names do. `DeletePortal` repoints the
chains of a portal to sources of the same name (`ilike` is taken as equality of
names) or fails as a whole on the unique pair of channel and source.

**CatalogReview** - a scan refreshes a source row at once and records what
differed; the review handler reads the chosen change rows in one step and copies
into the playlist in a later one. A film's move between genres counts as a
difference of its group.

**TemplateFields** - a command is a record of what its options say. `Build`
renders fields, `Parse` reads a command back, and the editor's actions alternate
them. A chain of filters without a scaler or pixel format is handed back as an extra
flag and rejected; bitmap subtitles in Matroska read back as `keep`: both are
what the code does, and `SyncSettles` names them. **StreamCommand** extends it by
one start: the text's fix-ups, the remux and the subtitle gate with the caches of
their probes, and the spawned argv. The subtitle gate names the first `DvbCap` tracks
that MPEG-TS can carry and the first `MkvCap` that Matroska can (8 and 16 in the code).
**StreamOpening** is what follows: the walk of
identities at an origin, for ffmpeg, the byte proxy, a demo and a probe, with
refusals and cancellation at each await. Each rung spawns anew and so passes the two
gates again (`GateProbes`, `PassGate`); a gate's probe is a process of its own, which a
cancellation does not kill: it runs on as one of the `strays`.

**Guide** - the three workers that ingest under one lock, the flag that asks for a
rerun over cached files, the matching that decides in a thread, and the
operator's changes. **GuidePolicy** - the programmes a channel shows: layers
selected by its policy, merged by `FillGaps` (a fold that inserts the uncovered
spans of each programme, as the code does), corrected, and written under the id
`OutputId`. A source's own offset is left out, and every source lists every id.

**Delivery** - one user with one area. `Resolved` is the chain exception, area,
item, default, last resort; `AnswerTo` what a play answers, `BouquetLine` what a
line announces. Requests of the FFmpeg tab read in one step and write in another;
`Boot` reseeds the built-in templates and resets the format of an edited one.
Imports of templates are not modelled. A play reads its template when it opens
(`Open`) and, if that is a marker it was forced past, what stands in for it later, in a
session of its own (`StandIn`). An operator may save the redirect marker into the Copy
preset (`update_template`), which is what stands in: the history variable `spoilt`
remembers that it was done. Passed-through bytes and live
Matroska are outside `LineIsAnswered`, because nothing in the code says what they contain.

**Outputs** - the four selections side by side, the play gate, the categories of
an Xtream list, and the cached M3U of one account. A request is a chain of steps
(`Arrive`, `Verify`, `Touch`, `Lookup`, `Render`, `Store`) against an editor whose
statement advances the generation before its commit. Each season belongs to one
series row; a row may have two seasons of one number, of which the Xtream details keep
the one they read last (`Entries`).

**MCPortal**, **MCLibrary** and **MCFetchQueue** compose the modules into scenes: an
initial state chooses a scene, which moves its own variables. The modules are
extended, so that a property is checked as it is stated and proved; outside its scene a
module rests, in an initial state or in one of which its properties say nothing (no
play, no opening, no row). A scene narrows the constants of its module by an instance of
its own (`Editor`, `Zapping`, `TwoAtOnce`, `BesidePipe`, `Rendering`, `Merging`,
`Numbers`) or takes part of its next-state relation (`TroubleStep`, `CalmStep`,
`OneMac`, `OneFilm`). Assumptions that
are premises of theorems are ASSUMEd there, for the instances that are checked; the
others in the modules that declare the constants.

## 3. What is checked

| run | bounds | properties | shows |
|---|---|---|---|
| `linger` | two plays of one user on one item and one MAC, a second user's leases, lingering, a connection limit of 1, one midstream restart, reaper on | `TypeOK`, `LocksAccountedFor`, `ParkedIsDrained`, `RegisteredHasOwner` | slots, held pipes and registry entries always have somebody who gives them back |
| `failover` | two users on a chain of two MACs, no lingering, reaper on | `SlotsAreKept`, `OthersUntouched`, `NeverRevived` | the stream manager implements `PlaySlots`; failovers and takeovers leave other users alone and do not bring a killed stream back |
| `takeover` | two plays of a user, two sources on one MAC, one of them adopted through the Xtream side, guarded start, second pass | `PipeCounted`, `NoOrphanPipe` | a running pipe is counted against its MAC and always read by somebody |
| `release` | as `linger` without leases, limit and restart, one play answered before its first byte and one after it, fair tasks | `EventuallyReleased`, `WatchdogsEnd` | when everybody has hung up, everything is given back for good; no watchdog outlives the pump it watches |
| `portal` | ten scenes, below | see below | what a portal, its MACs and the plays through it do to each other |
| `playlist` | twelve scenes, below | see below | from a catalogue to what a player receives |
| `fetch` | `jobs`: two portals, one series, two jobs, history of one. `scan`: three items, pages of one, a budget of two pages, batches of two, two edits of the panel, one item of the other kind or none, reviews at any time | `TypeOK`, `NoDoubleWork`, `SeasonsNotSwallowed`, `EveryJobEnds`; `ChangesAreTrue` | the queue's promises under handlers, scheduler and janitor; of a genre's walk: no wall of new items where the walk is measured, nothing before the baseline, no difference lost but inside a review of the same item |

The scenes of `portal` (module MCPortal):

| scene | bounds | property |
|---|---|---|
| `zapping` | one user asks twice; two sources on two MACs, a breaker of two strikes that may cool down, two passes | `BusyIsBusy`: a walk without a link says "busy" exactly when no candidate was more than busy. `EveryRouteTried`: memory reorders and shortens, it never leaves a route untried. `OneStrikePerWalk`: a source has no more strikes than walks it failed in since it last worked |
| `two` | two users, one source, two MACs, one pass each, one rung of back-off, strikes that lapse | the same |
| `pipe` | one redirect beside a proxied play and the operator's release | the same |
| `trouble` | two tasks on a session, two external events (revocation, ageing, drop) | `SessionsHeal`: guard, lock and retry survive every failure and cancellation |
| `calm` | three tasks on a session, cancellations only | the same, with a waiter behind a waiter |
| `health` | one MAC, a sweep, a test, a login, a play, removal | `DisownedByPanel`: only the panel's account answer takes a MAC out of the chains |
| `genres` | two MACs, one with a list of each kind, the other with the same, others, a repeated key, names without ids, or no series of its own; two compares, with at most two MACs or lists failing in the first and one in the second | `PackagesAgree`: the report's two verdicts agree, and a stored count is that of a whole list, unless the client hid a refusal |
| `channels` | two MACs, two channels, renumbering of the first one: its id, only its cmd, or a blank cmd; saves and clears | `SavedRowsArePlayed`: after a save each MAC is asked with the cmd a saved row has for it, or as before where none has one |
| `links` | one source, one MAC, minted tokens, a stored URL of every shape and flag | `LessonsHold`: a URL is vetoed only by a probe of that URL |
| `forms` | two films through one client | `LessonsHold`: the catalogue's own form is not remembered |

The scenes of `playlist` (module MCLibrary):

| scene | bounds | property |
|---|---|---|
| `numbers` | three channels with numbers and locks, three positions | `PlaylistInOrder`, `LockedKeepNumber` |
| `chains` | two channels, two sources of one name, deletion of their portal | `PlaylistInOrder`: no two sources of a channel share a priority, none is twice in it |
| `editor` | every decode path, size, subtitle mode and container, an encoder and a preset of each shape | `FacesAgree`: fields and text come to rest and lose nothing |
| `command` | one start of every template and hand-stored text over every film or file, of up to three subtitle tracks, and a live source; caps of 1 | `OutputFits`: the argv copies nothing its container refuses, and maps what it carries up to the cap |
| `opening` | two openers of five kinds, two openings, gates on each rung, one change of the origin's mind | `OpeningsEndClean`: nothing stays open but the probe a cancelled opening was waiting for; a refusal is one of both identities |
| `guide` | two sources of which one lists both ids and the other one of them, one channel, three workers, two changes, one pull | `GuideKeepsUp`: an operator's choice arrives, the clock on record is the one used |
| `merging` | two sources, every pair of programmes of one and four shapes of the other, in a window of three | `FirstLayerShows`: at every moment the guide shows what the first layer with anything on has on |
| `minds` | two channels of one id, two policy changes, removal of a source | `OneIdOneGuide`, `FirstLayerShows` |
| `review` | two sources, two items, two scans, one edit, each kind | `OnlyWhatWasReported`: accepting copies only what was reported since the last decision |
| `delivery` | redirect preset, Copy preset and one template, a film and a file, two overlapping editors, two edits or restarts, the redirect marker saved into the Copy preset among them | `LineIsAnswered`: a line announces what its URL answers. `MarkerNeverRuns`: a forced play runs the redirect marker only if it was saved into the Copy preset |
| `rendering` | film, file and series with two seasons of one number, three spellings of two groups, two edits | `SameForEveryClient`: four clients select alike, but for the Xtream entry two seasons share; nothing is lost by category |
| `caching` | two requests, two edits, three generations | `FreshPlaylists`: no playlist older than what was committed when it was asked for |

Five runs show where the code does something else than it says; `findings` in
`PROJECT.json` quotes the lines.

* `v_limit` - two starts both find the last slot of a MAC free, because
  `lock_mac` comes several awaits after `is_mac_busy` (`WithinLimit`).
* `v_orphan` - with lingering on, a zap back during the teardown gives a handle
  two pumps; both respawn, and a process runs on that nobody reads
  (`NoOrphanPipe`; with lingering off it is proved).
* `v_selfwait` - an invalidation between the two profile shapes of a handshake
  makes the handshake wait for the lock its own task holds (`NoSelfWait`).
* `v_numbers` - a disabled channel created with a locked number collides with
  another when it is enabled (`DistinctNumbers`).
* `v_repair` - the form learned while one film is played is stored on the row of
  another that is played through the same client (`FormsOfOwnFilm`).

### Why these bounds are enough to be interesting

* Two plays are what every race of the stream manager needs: one being torn
  down and one starting. Both take part in zap backs, takeovers and lock races.
  One MAC makes them compete, two MACs make a failover, two sources of which one
  is adopted make a change between counted and uncounted candidates. The
  restart bound 1 and the attempt bound 2 reach every branch of the walk. The
  proofs lift the safety results to any number of everything.
* `OneEach` limits each user to one connection, so the 429 path is taken while
  a handle is parked, starting, and registered.
* Three tasks on a session give one holder of the lock, one waiter that may be
  cancelled, and one that refreshes concurrently (`calm`); two are enough where
  the panel and the pool interfere (`trouble`). `MaxClients = 1` leaves reuse
  after a drop to the tasks that still hold the old session.
* A walk needs two sources to fail over, two MACs to be busy on one and free on
  the other, and a second request of the same user to meet what the first one
  left in memory. `Lapsing` names the tables that may forget in a scene: the
  ones whose other entries the scene's question turns on.
* One MAC row is enough for three writers to overtake each other; `MacHealth`
  relates no two rows but by the all-or-nothing commit, and removal provides it.
* Three instants and three programmes give overlap, touch, containment and
  repetition; merging is pairwise by construction of the fold.
* Two edits with a restart between them reach a template that is default,
  disabled, edited by hand and reseeded.
* Two jobs are enough for one being joined while another is active; the third
  place in the queue adds no new condition since `submit` looks at pairs.
* Three items on pages of one, with a budget of two pages, give a walk that is
  complete, one cut by the budget, one with a failed page in a batch, and pages
  that shift while they are read.
* Three channels give a channel before, at and after a locked number; a
  channel sent to number 2 finds it free, held by a lock, or past the last free
  number. Three positions make every tie; moves permute the positions that are
  held, whichever they are, so a longer list adds none.

Every action of the scene modules, and every branch of it, is taken in some scene
(TLC's coverage report of the runs has no expression that is never evaluated, but for
`Take` finding a job that is cancelled already: the code has the branch, though only
the worker gives a job that status).

`CHECK_DEADLOCK FALSE` stands where the system may stop: all plays are over,
all tasks have made their request, the job bound is used up, every position of
the playlist is taken, every scene has used up its bound.

Each property has a mutant in `PROJECT.json`: a small plausible change of one
mapped definition under which TLC reports exactly that property violated. The
mutated forms stand beside the definitions they change, marked "Mutant of".

## 4. Fairness

`TaskFairness` (StreamManager) is weak fairness of each task on its own: the
event loop runs every ready task; `create_link`, the first byte and a read end
by their timeouts (`STREAM_START_TIMEOUT`, the stall window); a signalled
process dies; the reaper runs periodically. A connected player is not assumed to
take its chunks, so `FeedStep` is fair only once the socket is closed, when the
server discards what is written. `ServerFairness` says that the server cancels
the response of a player that is gone. `FairSpec` has both; `SilentSpec` leaves
the second out: the case the watchdog was written for. No run uses it.

`FetchQueue!FairSpec`, and `MCFairSpec` of its run, have weak fairness of the worker
only: its awaits are portal requests with timeouts and local queries. Nothing is
assumed of handlers or of the scheduler.

## 5. What is proved

The theorems hold for every value of the constants that satisfies the named
assumptions. Those that a theorem does not carry as a premise are ASSUMEd in the
module of the component: `UserAssumption` (user names, the anonymous caller and "no
lease" are distinct), `LimitAssumption` (every MAC allows at least one stream),
`ChainAssumption`, `BoundAssumption`, `NoneAssumption` (chains are sets of
candidates, bounds are numbers, markers are not plays), `HomeAssumption` (a series
belongs to a portal), `GuideAssumption`, `VerdictAssumption`, `CmdAssumption`,
`WordAssumption` (null values are not values), `PolicyAssumption` (the sources list no
id of the form the application gives to its own channels), `CompareAssumption` (the
MACs of a portal are a sequence, its lineups are sets of channels, its genres have
finitely many names, a blank is not a cmd), `CommandAssumption` (the reels are inputs,
the caps positive),
`DeliveryAssumption` (the built-in templates are templates, what the editor saves has a
command and a format, and the Copy preset is shipped as a command) and the bounds of `LivePlaylist`. Premises are
`RedirectAssumption` and `BreakerAssumption` (rows are sequences of sources, the breaker
trips after at least one strike), `ClientAssumption` and `TaskAssumption`,
`HealthAssumption`, `PageAssumption` (pages, budget and batches are not empty) and
`OutputAssumption`. The run of each
component evaluates them for the values it checks.

A safety theorem has one shape: an inductive invariant, a lemma that the initial
states have it, a lemma that every step keeps it with one case per action, and the
property as a consequence.

* **StreamManagerProofs** - `StreamTypeCorrect`, by way of `TypeInv`, which adds that
  a pump awaiting a link or a first byte has chosen a candidate. `SlotsAccountedFor`,
  `ParkedAlwaysDrained`, `RegisteredAlwaysOwned`, for every setting, lingering or
  not: none of the three is inductive alone. `Owned` adds what they lean on: a
  registered stream has had a process (otherwise a finally would skip `_finish`); what
  a pump registered stays registered until its handle is marked dead; a park that was
  asked for can fail only because the pipe ended or the stream was killed; and a
  request pumps a handle of its own user. `OthersAlwaysUntouched` follows from the
  last one and from the guards of `OwnPipes` and `DropParked`. With `Linger = FALSE`:
  `NoLingerKeepsSlots`, `NoLingerOneSlot`, `NoLingerCounted`, `NoLingerNoOrphan`,
  `NoLingerNeverRevived`. The
  invariant `NoLingerInv` says that nothing is held and each request pumps its own
  handle; that a pump holds at most the slot of its current candidate, and only between
  the link and its finally; that a running process is the one its pump reads and its
  handle names; and that a handle is dead before its pump closes only if it had
  registered. The run `v_orphan` shows why the premise is needed; `SPM_LINGER_S` is 8
  seconds by default, so it is a setting an operator chooses. `NoLingerKeepsSlots` is
  the refinement of PlaySlots: the initial states map to its initial state (`InitRefines`)
  and every step to a step or a stutter of one play (`StepRefines`, by `OneChange`).
  `PhaseInv` is what the mapping needs beside `NoLingerInv`: an open under way is one of
  the play's own chain; an entry that left the registry is marked dead, so that the walk
  picks no further candidate; and nobody is registered before or after its pump.
* **RedirectsProofs** - `RouteTypeCorrect`, `BusyAlwaysBusy`, `EveryRouteAlwaysTried`,
  `OneStrikeEachWalk`, for any number of requests, routes,
  sources, MACs and passes. `RouteInv` says of every walk where it stands in its chain
  (`Placed`), that every step before it, and of its own step every MAC that is no
  longer a candidate, was tried or its source refused (`Progress`), and that the
  verdict so far is what the outcomes add up to (`Reckoned`). The property of an
  answer is that of the last step, so it needs the whole walk. That reordering by
  memory loses no candidate rests on `BehindReorders`. Strikes outlive the walks that gave
  them: `Recalled` ties the history of who struck a source (`blamed`) to the sources each
  walk still remembers having struck, through all its passes.
* **SelectionProofs** - `BehindReorders`: a stable sort by a condition returns the
  elements it was given; `OnlySelects`: a comprehension those of the set. They are
  inductions over the length of a sequence. The library's induction theorems cannot be
  instantiated here, so they go by the least counterexample (`LeastNumber`, from the
  well-foundedness of the numbers).
* **PortalClientProofs** - `SessionTypeCorrect` and `SessionsAlwaysHeal`, for any number
  of tasks and sessions. `SessionInv` states guard and lock without counting: the guard
  is up exactly while one task shakes, the lock's holder shakes, the queue has each
  waiter once; and it carries what a task that was refused remembers of its bearer
  through the lock, the handshake and the nested profile, so that a retry has a newer
  one. One lemma per method of the client says what it keeps; the actions compose them.
* **PanelProofs** - what is learned of a panel.
  *MacHealth*: `HealthTypeCorrect` and `DisownedOnlyByPanel`: what a check holds and would
  write is as truthful as the rows (`Truthful`), at every await between its read and its
  commit. *PlayedLinks*: `LessonsStay`; `LessonInv` says that a probe that was not
  minted for is one of the stored URL, for the MAC the walk has come to. *MacCompare*:
  `VerdictsAndCounts` and `SavedIsPlayed`; `CompareInv` carries the answers of the MACs
  through the report's stages: a list that came without an error and without a
  hidden refusal is the panel's whole list (`GivenWhole`), every list is empty or one the
  panel has (`NothingInvented`), and the rows of a report name only ids and cmds of the
  catalogue, a cmd only beside its id (`RowsAreListed`).
* **JobsProofs** - *FetchQueue*: `QueueTypeCorrect`, `QueueNoDoubleWork`,
  `QueueSwallowsNothing`. `QueueInv` adds that the queue holds the latest jobs in order
  and these are the queued ones; that active jobs stay listed; that between its look and
  its submit the scheduler is the only one to start an automatic check; and that what a
  season job was asked for is done, refused, still to do, or asked again.
  *CatalogScan*: `ScanTypeCorrect`, `NoFalseNews` and `ChangesAlwaysTrue`, for
  any catalogue, mixed or not, page size, budget and batches, and however reviews and scans
  overlap. `Walked`
  follows the coverage of a walk: while the panel stands still, the first pages are
  stored or in hand, as far as the page counter says, unless a page failed; so a measured
  walk that calls itself complete has all (`PagesCover` and `PageOf` are the arithmetic of
  pages). `Based` says that nothing is recorded, read or tracked before the baseline
  and that what it stands for is stored and not new; `Apart`, that what waits for a
  review is not in the hands of one.
* **LibraryProofs** - from the catalogue to what is shown.
  *Outputs*: `OutputTypeCorrect`, `PlaylistsAreFresh`, `ClientsSelectAlike`,
  `ClientsAreShownTheSame`. `OutputInv` says that no key names a generation to come, and
  that a text of the current generation, stored or about to be, has seen every edit
  committed when a request that has already advanced the generation was made.
  *CatalogReview*: `ReviewsTakeWhatWasReported`; `ReviewInv` says that a pending
  change, and what a review that has read it would copy, was reported since the operator
  last decided. *LivePlaylist*: `LockedNumbersStay`, an action property of every handler;
  what each helper keeps is a lemma of its own (`KeepsLocked`, `Steady`, `SameBut`).
  *Guide*: `ChoicesReachTheGuide`. `GuideInv` says that one worker ingests at a time
  (`OneIngest`); that what it read of the file, the clock and the choices is still so,
  or a rerun that has not come by the source yet will read again (`FileIsRead`,
  `ClockIsRead`, `ChoicesAreRead`); that a source in use whose cached file is not wholly
  shown is being brought, or awaited by that rerun (`NoneForgotten`); and that the clock
  on record is that of the programmes. *GuidePolicy*: `OneIdShowsOneGuide`, from
  `PolicyInv`: a channel that has no rules of its own has the automatic ones.
* **DeliveryProofs** - from a template to bytes.
  *StreamOpening*: `OpeningsEnd`; `OpenInv` says of each opening that it holds its
  connection only while it waits for the answer or plays, that its probe runs only at a
  gate, and that every identity is on a rung still to try or was refused (`Orderly`,
  `RungsLeft`); that a learned identity was fed; and that there are no more strays than
  openings cut short. *StreamCommand*: `SpawnedCommandsFit`, for any reel and any two
  caps; the argv is followed from the text through the gates (`Prepared`, `SubsFit`,
  `CodecsFit`).
  *Delivery*: `LinesAreAnswered`, which needs only the types of the tables, since line and
  play resolve one template; and `MarkersNeverRun`, for which `MarkerInv` says that the Copy
  preset is a command until the marker has been saved into it.

Model-checked only:

* all liveness (`EventuallyReleased`, `WatchdogsEnd`, `EveryJobEnds`), which needs
  `ENABLED` and fairness;
* what counts, sorts by a key or folds: `PlaylistInOrder` (the numbers and moves of
  `LivePlaylist`), `FirstLayerShows` (the merge of `GuidePolicy`) and `FacesAgree` (the
  parser of `TemplateFields`). They need induction over the data. TLC compares them with
  a reference over every input within the bounds (`PriorityWins` compares the merge with
  "the first layer that has anything on", `SyncSettles` rendering with reading);
* `WellTyped` of the scenes: of its parts, the types of redirects, sessions, MAC rows and
  outputs are proved, those of the others are conjuncts of the invariants above where a
  proof needs them.

## 6. Limitations of the code that no run claims against

* `_ensure_slot` counts registered streams, and a stream registers with its
  first byte: two simultaneous starts pass a limit of one connection.
* The finally asks `can_park` and parks one task turn later; in between a second
  request may have adopted the handle, which is then parked while watched.
* `wait_for_mac` looks at a MAC again only after a takeover or when it comes to
  the next one: a slot that another user frees meanwhile is not noticed and the
  request ends in 503.
* Two redirects may both find a MAC free and lease it; the second overwrites
  the first one's lease.
* The operator's release drops the lock of a play that is still starting; the play
  goes on uncounted. A play under way re-locks a MAC that was deleted meanwhile.
* Two requests refused with the same bearer handshake one after the other, and
  on a panel with one session per MAC the second ends the first one's.
* `drop` and `reap` close a session that a play is using; the play reopens a client
  the pool no longer knows, and nobody closes it.
* The sweep reads the busy MACs once, at its start: a MAC that begins to stream
  during the sweep is asked all the same.
* `refetch_series` deletes episodes while a season job of the same series runs.
* Matching a guide decides in a thread and writes over an assignment an operator
  made meanwhile.
* An immediate answer that is cancelled before its generator runs leaves a handle that
  is neither registered nor dead, and its watchdog loops on that handle for ever
  (`output.py:405-408`, `stream_manager.py:1716-1731`). `WatchdogsEnd` speaks of plays
  whose pump has begun, and of zap backs.
* Of a panel that lists films and series together and reports no total, a full page looks
  short once its rows of the other kind are dropped. The walk ends as complete, sets the
  baseline, and what comes after that page is reported as new by a later scan
  (`fetch_jobs.py:443-445, 488, 507`; `portal/client.py:1245, 1265-1266`). `NoWallOfNew`
  is about walks that are `Measured`.
* A review reads its change rows, awaits other queries and writes their status with
  its commit. A difference that a scan records for the same item in between is pending
  only until that commit, which buries it unseen. `ChangesNotLost` is about all others.
* A play that is cancelled while a gate looks into its film leaves the probe's process and
  its connection behind; it ends by itself (`probe.py:310-322, 417-427`).
* The subtitle gate names 8 tracks at most for MPEG-TS and 16 for Matroska
  (`stream_manager.py:2098-2099, 2123`); the ones behind are left out.
* A film or series list that the panel refuses is an empty one to the report: its 0
  overwrites the count stored before, although partial results are stored "without
  erasing older partial results" (`mac_health.py:603`, `portal/client.py:1177-1192`).
* A genre key that a list repeats makes two packages of MACs whose differences are none
  (`mac_health.py:764-767`).
* A row of the report, or one MAC of it, that has no cmd is skipped by the save, and an
  older translation of that MAC stays (`channel_translations.py:165-170`).
* The redirect marker may be saved into the Copy preset; plays that are forced through
  that preset then hand the marker to ffmpeg (`api_ffmpeg.py:155-201`,
  `stream_manager.py:2994-3011`).
* A change that is still pending keeps only the differences of the latest scan; the
  earlier ones are not copied by its review.
* Two requests of the FFmpeg tab may make a template the default while another
  disables or deletes it: the resolver's last resort then answers for it.
* The exceptions of an area name playlist ids without a foreign key: a new item
  that gets the id of a deleted one inherits its exception.
* The spelling variants of a group share one Xtream category; a row of another
  spelling is filed under category "1".
* Two seasons of one number in a series overwrite each other's episodes in the
  Xtream series details, which do not ask whether the row is enabled either
  (`playlist_gen.py:842, 874`): `OneSelection` excepts the first, and takes the details
  of rows the list has named.
* The Enigma2 bundle and the playlist health report are stored under the
  generation read after they were built: a commit in between is not seen until the
  next one. The M3U cache reads its generation first and is right only because
  verifying the account writes `last_active`, which advances it: the mutant of
  `FreshPlaylists` takes that write away.
* Deleting a portal cascades to films and series whose first source was its own,
  although their fallbacks have just been repointed.

The model contains those of the modelled parts. One step of it needs more than the
two plays the runs have: a request that is handed a held pipe whose handle was already
marked dead (`ZapBackDead`, answered 404) takes a third play; the proofs cover it.

## 7. What is not modelled, and the plan

Left out on purpose: the text of URLs, ffmpeg options, XMLTV, M3U and HTML (what
it says is modelled, not its syntax), the score of a name match, time zone tables,
FTP transfer, image proxies, TMDB, backup and branding, statistics, the ffmpeg
advisor (advice for display), and the mock portal. The log queue and playback pacing
have no effect on the rest but time: `db_log` never suspends, and a sleep is a
step that may take long. Left out of StreamManager: the clock of the start
budget (any step of the walk may be its end, `WalkOver`), what reorders candidates
(every order is tried; the orders themselves are RouteMemory's), and local files,
which take no slot.

The component notes of `PROJECT.json` say for each part what is missing. What could
still be added to the model: a page of channels cut off by its budget, a rerun over a
cached guide file that fails (corrupt, without raw times, over the programme limit), discovery of a portal's address and login methods,
scans of local files, the rendered bundle and health-report caches, catch-up links.

What remains to be proved is what section 5 lists as model-checked only.

## 8. Files

| file | contents |
|---|---|
| `MacOccupancy.tla`, `StreamManager.tla`, `StreamProperties.tla`, `MCStreamManager.tla` | plays and MAC slots |
| `PlaySlots.tla` | what they promise, abstractly |
| `StreamManagerProofs.tla` | their proofs |
| `linger.cfg`, `failover.cfg`, `takeover.cfg`, `release.cfg`, `v_limit.cfg`, `v_orphan.cfg` | their runs |
| `RouteMemory.tla`, `Redirects.tla`, `StoredLinks.tla`, `CommandForms.tla`, `PlayedLinks.tla` | redirected plays, links and what is remembered of them |
| `PortalClient.tla`, `MacHealth.tla`, `MacCompare.tla` | session, and the upkeep of MACs |
| `RedirectsProofs.tla`, `PortalClientProofs.tla`, `PanelProofs.tla` | their proofs |
| `Selection.tla`, `SelectionProofs.tla` | selections and stable sorts of sequences, and what they return |
| `MCPortal.tla`, `portal.cfg`; `MCPortalClient.tla`, `v_selfwait.cfg`; `v_repair.cfg` | the runs of these |
| `FetchQueue.tla`, `JobsProofs.tla`, `MCFetchQueue.tla`, `fetch.cfg` | background jobs; proofs about jobs and scans, and their run |
| `LivePlaylist.tla`, `CatalogScan.tla`, `CatalogReview.tla` | the playlist, a scan and its review |
| `TemplateFields.tla`, `StreamCommand.tla`, `StreamOpening.tla`, `Delivery.tla` | templates, starts, openings, deliveries |
| `Guide.tla`, `GuidePolicy.tla`, `Outputs.tla` | the guide, and what an account sees |
| `LibraryProofs.tla`, `DeliveryProofs.tla` | proofs about playlist, reviews, guide and outputs; about templates, starts and openings |
| `MCLivePlaylist.tla`, `v_numbers.cfg`; `MCLibrary.tla`, `playlist.cfg` | the runs of these |
| `PROJECT.json` | components, runs, mutants, the map to source lines, findings, hazards, theorems |
