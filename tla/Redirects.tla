----------------------------- MODULE Redirects -----------------------------
(***************************************************************************)
(* Plays answered with a 302 to the panel's own server                     *)
(* (StreamManager.resolve).  The fallback chain of a route is built from    *)
(* its source rows, ordered by what RouteMemory knows, and walked twice at  *)
(* most; each candidate is a replayed link, a stored link, or one asked     *)
(* from the panel, and is probed before it is handed out.  A handed-out     *)
(* link leaves a lease on its MAC.  Pipes of proxied plays and the          *)
(* operator's release act on the same ledger.                               *)
(***************************************************************************)
EXTENDS RouteMemory

CONSTANTS
    Who,            \* [Requests -> Users \cup {Anon}]
    RouteAsked,     \* [Requests -> Routes]
    Portals,
    RowsOf,         \* [Routes -> Seq(Sources)], by priority
    PortalOf,       \* [Sources -> Portals]
    MacsOf,         \* [Portals -> Seq(Macs)], by order
    Stored,         \* sources whose stored link may be played as it is
    MacsFirst,      \* fallback_strategy is macs_first, else portal_first
    PreferFree,     \* prefer_free_mac
    Attempts,       \* 2 with ZAP_RETRY
    Backoff,        \* rungs of BUSY_BACKOFF
    Zaps            \* bound: how often each request is made

RedirectAssumption ==
    /\ \A r \in Requests : Who[r] \in Users \cup {Anon} /\ RouteAsked[r] \in Routes
    /\ RowsOf \in [Routes -> Seq(Sources)]
    /\ PortalOf \in [Sources -> Portals] /\ MacsOf \in [Portals -> Seq(Macs)]
    /\ Nothing \notin Candidates \cup Urls \cup Macs
    /\ Attempts \in 1 .. 2 /\ Backoff \in Nat /\ Zaps \in Nat

VARIABLES
    walk,       \* per request: the locals of resolve()
    usable,     \* MACs the panel does not call banned or expired
    cooling,    \* _released: MACs a pipe left within SLOT_COOLDOWN_S
    registered, \* plays in the registry
    release     \* the operator's release_mac_occupancy under way

redirectVars == <<walk, usable, cooling, registered, release, memory, occupancyVars>>

NoRelease == [mac |-> Nothing, todo |-> {}]
\* outcomes, avoid and tried are history: what the candidates answered, what the
\* opening demoted, and the candidates come by.
Idle == [at |-> "idle", pass |-> 1, chain |-> <<>>, step |-> 0, cands |-> <<>>, mac |-> Nothing,
         url |-> Nothing, patience |-> 0, deadStored |-> {}, struck |-> {}, allBusy |-> TRUE,
         answer |-> Nothing, outcomes |-> {}, avoid |-> Nothing, tried |-> {},
         zaps |-> 0]

Places == {"idle", "pass", "step", "pick", "replay", "stored", "session", "ask",
           "fresh", "done"}

TypeOK ==
    /\ OccupancyTypeOK /\ MemoryTypeOK
    /\ usable \subseteq Macs /\ cooling \subseteq Macs /\ registered \subseteq Plays
    /\ release.mac \in Macs \cup {Nothing} /\ release.todo \subseteq Plays
    /\ \A r \in Requests :
          /\ walk[r].at \in Places /\ walk[r].pass \in 1 .. Attempts
          /\ walk[r].step \in 0 .. Len(walk[r].chain) /\ walk[r].mac \in Macs \cup {Nothing}
          /\ {walk[r].url, walk[r].answer} \subseteq Urls \cup {Nothing} /\ walk[r].struck \subseteq Sources
          /\ walk[r].deadStored \cup walk[r].tried \subseteq Candidates

Init ==
    /\ OccupancyInit /\ MemoryInit
    /\ walk = [r \in Requests |-> Idle]
    /\ usable \in SUBSET Macs
    /\ cooling = {} /\ registered = {} /\ release = NoRelease
-----------------------------------------------------------------------------
\* _pick_macs: without the MACs the panel disowned; one per portal when the strategy
\* hops between portals.
PickMacs(src) ==
    LET macs == Only(MacsOf[PortalOf[src]], usable) IN
    IF MacsFirst \/ macs = <<>> THEN macs ELSE <<Head(macs)>>

\* _live_chain: the rows by priority, without those that have no MAC to try, and, when
\* the strategy hops, with the first row only of a portal (used_portals).
BuildChain(route) ==
    LET rows == RowsOf[route]
        Taken(i) == /\ PickMacs(rows[i]) # <<>>
                    /\ MacsFirst \/ \A j \in 1 .. i - 1 : PortalOf[rows[j]] # PortalOf[rows[i]]
        taken == Only([i \in DOMAIN rows |-> i], {i \in DOMAIN rows : Taken(i)}) IN
    [k \in DOMAIN taken |-> Step(rows[taken[k]], PickMacs(rows[taken[k]]))]

\* order_by_free: untouched MACs, then those cooling down or leased by this user.
OrderByFree(macs, user) ==
    LET rank == [m \in Macs |->
                   CASE macLocks[m] = {} /\ lease[m] = Free -> IF m \in cooling THEN 1 ELSE 0
                     [] macLocks[m] = {} /\ lease[m] = user /\ user # Anon -> 1
                     [] OTHER -> 2]
        Ranked(k) == Only(macs, {m \in Macs : rank[m] = k}) IN
    Ranked(0) \o Ranked(1) \o Ranked(2)

\* The MACs of a step in the order they are tried.
StepMacs(r, step) ==
    LET route == RouteAsked[r]
        known == OrderedMacs(memory, route, step.src, step.macs)
        demoted == DemoteMacs(memory, route, step.src, known) IN
    IF PreferFree THEN OrderByFree(demoted, Who[r]) ELSE demoted

Here(r) == <<walk[r].chain[walk[r].step].src, walk[r].mac>>

\* _has_alternative: a MAC later in this walk that our ledger does not hold.
HasAlternative(r) ==
    LET later == {walk[r].cands[i] : i \in DOMAIN walk[r].cands}
                   \cup UNION {Range(walk[r].chain[i].macs) :
                                 i \in walk[r].step + 1 .. Len(walk[r].chain)} IN
    \E m \in later : ~IsMacBusy(m, Who[r])

\* _plan: a stored link not found dead, in this walk or lately, is played.
PlaysStored(r, c) ==
    c[1] \in Stored /\ c \notin walk[r].deadStored /\ memory.verdict[c] # FALSE

Goto(r, place) == walk' = [walk EXCEPT ![r].at = place]
-----------------------------------------------------------------------------
\* The head of resolve(): build the chain and order it.
Open(r) ==
    LET route == RouteAsked[r]
        chain == DemoteHanded(memory, route, OrderedChain(memory, route, BuildChain(route))) IN
    /\ walk[r].at \in {"idle", "done"} /\ walk[r].zaps < Zaps
    /\ walk' = [walk EXCEPT ![r] = [Idle EXCEPT !.at = "pass", !.chain = chain,
                                                !.avoid = memory.handed[route],
                                                !.zaps = walk[r].zaps + 1]]
    /\ UNCHANGED <<usable, cooling, registered, release, memory, occupancyVars>>

\* Mutant of NextStep: the walk steps off the end of its chain.
NextStepBlindly(r) ==
    /\ walk[r].at = "step" /\ walk[r].step <= Len(walk[r].chain)
    /\ walk' = [walk EXCEPT ![r].at = "pick", ![r].step = @ + 1]
    /\ UNCHANGED <<usable, cooling, registered, release, memory, occupancyVars>>

\* Mutant of Pass: each pass forgets which sources the walk has struck.
PassForgets(r) ==
    /\ walk[r].at = "pass"
    /\ walk' = [walk EXCEPT ![r].at = "step", ![r].step = 0, ![r].struck = {},
                            ![r].chain = DemoteFailed(memory, RouteAsked[r], @)]
    /\ UNCHANGED <<usable, cooling, registered, release, memory, occupancyVars>>

\* The head of a pass, the second one after the zap retry's sleep.
Pass(r) ==
    /\ walk[r].at = "pass"
    /\ walk' = [walk EXCEPT ![r].at = "step", ![r].step = 0,
                            ![r].chain = DemoteFailed(memory, RouteAsked[r], @)]
    /\ UNCHANGED <<usable, cooling, registered, release, memory, occupancyVars>>

NextStep(r) ==
    /\ walk[r].at = "step" /\ walk[r].step < Len(walk[r].chain)
    /\ walk' = [walk EXCEPT ![r].at = "pick", ![r].step = @ + 1,
                            ![r].cands = StepMacs(r, walk[r].chain[walk[r].step + 1])]
    /\ UNCHANGED <<usable, cooling, registered, release, memory, occupancyVars>>

\* The chain is walked: again, or 503 when everything was busy and 502 otherwise.
WalkedAll(r) ==
    /\ walk[r].at = "step" /\ walk[r].step = Len(walk[r].chain)
    /\ IF walk[r].pass < Attempts /\ walk[r].chain # <<>>
       THEN walk' = [walk EXCEPT ![r].at = "pass", ![r].pass = @ + 1]
       ELSE walk' = [walk EXCEPT ![r].at = "done", ![r].allBusy = @ /\ walk[r].chain # <<>>]
    /\ UNCHANGED <<usable, cooling, registered, release, memory, occupancyVars>>

\* The next MAC of the step: replay a link of this user, skip a busy MAC, play the
\* stored link, or open a session to ask the panel.
Pick(r) ==
    LET m == Head(walk[r].cands)
        c == <<walk[r].chain[walk[r].step].src, m>>
        w == [walk[r] EXCEPT !.cands = Tail(@), !.mac = m, !.tried = @ \cup {c}]
        cached == memory.links[<<RouteAsked[r], m, Who[r]>>] IN
    /\ walk[r].at = "pick"
    /\ IF walk[r].cands = <<>> THEN Goto(r, "step")
       ELSE walk' = [walk EXCEPT ![r] =
              IF IsMacBusy(m, Who[r]) THEN [w EXCEPT !.outcomes = @ \cup {"busy"}]
              ELSE IF walk[r].pass = 1 /\ cached # Nothing
              THEN [w EXCEPT !.at = "replay", !.url = cached]
              ELSE [w EXCEPT !.at = IF PlaysStored(r, c) THEN "stored" ELSE "session"]]
    /\ UNCHANGED <<usable, cooling, registered, release, memory, occupancyVars>>

\* What every handed-out link leaves behind.
HandOut(r, url, mem) ==
    /\ walk' = [walk EXCEPT ![r].at = "done", ![r].answer = url]
    /\ memory' = Succeeded(mem, RouteAsked[r], Here(r))
    /\ lease' = [lease EXCEPT ![walk[r].mac] = Who[r]]
    /\ UNCHANGED <<usable, cooling, registered, release, macLocks>>

\* A link that was probed for this walk is remembered, and clears old failures.
HandOutNew(r, url, mem) ==
    LET route == RouteAsked[r] IN
    HandOut(r, url, ClearFailures(NoteLink(NoteHanded(mem, route, Here(r)),
                                           route, walk[r].mac, Who[r], url), route))

\* The probe of a replayed link; a dead one is forgotten and the walk asks on.
Replay(r) ==
    LET w == walk[r]
        key == <<RouteAsked[r], w.mac, Who[r]>> IN
    /\ walk[r].at = "replay"
    /\ \/ HandOut(r, walk[r].url, memory)
       \/ /\ memory' = [memory EXCEPT !.links[key] = Nothing]
          /\ walk' = [walk EXCEPT ![r] =
                IF IsMacBusy(w.mac, Who[r]) THEN [w EXCEPT !.at = "pick", !.outcomes = @ \cup {"busy"}]
                ELSE [w EXCEPT !.at = IF PlaysStored(r, Here(r)) THEN "stored" ELSE "session"]]
          /\ UNCHANGED <<usable, cooling, registered, release, occupancyVars>>

\* The probe of a stored link.  Only a verdict on this very link is learned.
StoredAlive(r) ==
    /\ walk[r].at = "stored"
    /\ \E proved \in BOOLEAN :
          HandOutNew(r, [src |-> Here(r)[1], mac |-> Here(r)[2], stored |-> TRUE],
                     IF proved THEN NoteVerdict(memory, Here(r), TRUE) ELSE memory)

\* A dead stored link: this candidate asks the panel after all.
StoredDead(r) ==
    /\ walk[r].at = "stored"
    /\ memory' = NoteFailure(NoteVerdict(memory, Here(r), FALSE), RouteAsked[r], Here(r))
    /\ walk' = [walk EXCEPT ![r].at = "session", ![r].deadStored = @ \cup {Here(r)},
                            ![r].allBusy = FALSE, ![r].outcomes = @ \cup {"dead"}]
    /\ UNCHANGED <<usable, cooling, registered, release, occupancyVars>>

\* The session stands; how patient to be is decided as the link is asked for.
Session(r) ==
    /\ walk[r].at = "session"
    /\ walk' = [walk EXCEPT ![r].at = "ask", ![r].patience = IF HasAlternative(r) THEN 0 ELSE Backoff]
    /\ UNCHANGED <<usable, cooling, registered, release, memory, occupancyVars>>

Linked(r) ==
    /\ walk[r].at = "ask"
    /\ Goto(r, "fresh")
    /\ UNCHANGED <<usable, cooling, registered, release, memory, occupancyVars>>

\* The panel still counts another connection: ask again, or leave the candidate,
\* which counts as busy.
SlotBusy(r) ==
    /\ walk[r].at \in {"session", "ask"}
    /\ \/ /\ walk[r].patience > 0
          /\ walk' = [walk EXCEPT ![r].patience = @ - 1]
          /\ UNCHANGED memory
       \/ /\ walk[r].patience = 0
          /\ memory' = NoteFailure(memory, RouteAsked[r], Here(r))
          /\ walk' = [walk EXCEPT ![r].at = "pick", ![r].outcomes = @ \cup {"busy"}, ![r].patience = 0]
    /\ UNCHANGED <<usable, cooling, registered, release, occupancyVars>>

\* The candidate is out, and its walk goes on at place.
OutAt(r, place, mem, struck) ==
    /\ memory' = NoteFailure(mem, RouteAsked[r], Here(r))
    /\ walk' = [walk EXCEPT ![r].at = place, ![r].allBusy = FALSE,
                            ![r].outcomes = @ \cup {"dead"}, ![r].struck = struck, ![r].patience = 0]
    /\ UNCHANGED <<usable, cooling, registered, release, occupancyVars>>

\* Mutant of MacRefused: a refused MAC takes the other MACs of its source with it.
MacRefusedLeavesStep(r) ==
    walk[r].at \in {"session", "ask"} /\ OutAt(r, "step", memory, walk[r].struck)

\* The panel refused the MAC (the next one may do), or gave no link at all.
MacRefused(r) == walk[r].at \in {"session", "ask"} /\ OutAt(r, "pick", memory, walk[r].struck)


\* The panel refused the source (its other MACs are left out), or the request
\* broke (they are not): one strike per walk.
SourceFailed(r) ==
    LET s == Here(r)[1] IN
    /\ walk[r].at \in {"session", "ask"}
    /\ \E place \in {"step", "pick"} :
          OutAt(r, place, Blamed(IF s \in walk[r].struck THEN memory ELSE Failed(memory, s),
                                 s, <<r, walk[r].zaps>>),
                walk[r].struck \cup {s})

FreshAlive(r) ==
    /\ walk[r].at = "fresh"
    /\ HandOutNew(r, [src |-> Here(r)[1], mac |-> Here(r)[2], stored |-> FALSE], memory)

\* Mutant of FreshDead: the answer still calls the chain busy.
FreshDeadBusy(r) ==
    /\ walk[r].at = "fresh"
    /\ Goto(r, "pick")
    /\ memory' = NoteFailure(memory, RouteAsked[r], Here(r))
    /\ UNCHANGED <<usable, cooling, registered, release, occupancyVars>>

FreshDead(r) ==
    /\ walk[r].at = "fresh"
    /\ OutAt(r, "pick", NoteLink(memory, RouteAsked[r], walk[r].mac, Who[r], Nothing),
             walk[r].struck)

WalkStep(r) ==
    \/ Open(r) \/ Pass(r) \/ NextStep(r) \/ WalkedAll(r) \/ Pick(r) \/ Replay(r)
    \/ StoredAlive(r) \/ StoredDead(r) \/ Session(r) \/ Linked(r) \/ SlotBusy(r)
    \/ MacRefused(r) \/ SourceFailed(r) \/ FreshAlive(r) \/ FreshDead(r)
-----------------------------------------------------------------------------
(* The others on the ledger: pipes of proxied plays, leases that end, and the *)
(* operator.                                                                  *)

WalksUnchanged == UNCHANGED <<walk, usable, memory>>

\* A proxied play takes a slot, registers with its first byte, and gives it back.
PipeStarts(p, m) ==
    /\ HeldBy(p) = {} /\ p \notin registered /\ ~IsMacBusy(m, UserOf[p])
    /\ macLocks' = LockMac(m, p)
    /\ UNCHANGED <<lease, cooling, registered, release>> /\ WalksUnchanged

PipeServes(p) ==
    /\ HeldBy(p) # {} /\ p \notin registered
    /\ registered' = registered \cup {p}
    /\ UNCHANGED <<occupancyVars, cooling, release>> /\ WalksUnchanged

PipeGone(p) ==
    /\ macLocks' = DropLocksOf(p)
    /\ cooling' = cooling \cup HeldBy(p)
    /\ registered' = registered \ {p}

PipeEnds(p) ==
    /\ HeldBy(p) # {} \/ p \in registered
    /\ PipeGone(p)
    /\ UNCHANGED <<lease, release>> /\ WalksUnchanged

\* A link is kept for a shorter time than the lease it left (LINK_CACHE_S).
LeaseEnds(m) ==
    /\ lease[m] # Free
    /\ lease' = [lease EXCEPT ![m] = Free]
    /\ memory' = [memory EXCEPT !.links = [k \in DOMAIN @ |-> IF k[2] = m THEN Nothing ELSE @[k]]]
    /\ UNCHANGED <<walk, usable, macLocks, cooling, registered, release>>

CooledDown(m) ==
    /\ cooling' = cooling \ {m} /\ m \in cooling
    /\ UNCHANGED <<occupancyVars, registered, release>> /\ WalksUnchanged

\* release_mac: the MAC's row is deleted or edited.
ReleaseMac(m) ==
    /\ macLocks' = [macLocks EXCEPT ![m] = {}]
    /\ lease' = [lease EXCEPT ![m] = Free]
    /\ UNCHANGED <<cooling, registered>>

\* release_mac_occupancy: kill what is registered of the holders just read, one
\* after the other, then drop every record of the MAC, whoever made it meanwhile.
ReleaseStarts(m) ==
    /\ release = NoRelease /\ m \in BusyMacIds
    /\ release' = [mac |-> m, todo |-> macLocks[m]]
    /\ UNCHANGED <<occupancyVars, cooling, registered>> /\ WalksUnchanged

ReleaseKills(p) ==
    /\ p \in release.todo
    /\ release' = [release EXCEPT !.todo = @ \ {p}]
    /\ IF p \in registered THEN PipeGone(p) ELSE UNCHANGED <<macLocks, cooling, registered>>
    /\ UNCHANGED lease /\ WalksUnchanged

ReleaseEnds ==
    /\ release # NoRelease /\ release.todo = {}
    /\ ReleaseMac(release.mac)
    /\ release' = NoRelease
    /\ WalksUnchanged

Environment ==
    \/ \E p \in Plays : PipeServes(p) \/ PipeEnds(p) \/ ReleaseKills(p)
                         \/ \E m \in Macs : PipeStarts(p, m)
    \/ \E m \in Macs : LeaseEnds(m) \/ CooledDown(m) \/ ReleaseStarts(m)
    \/ ReleaseEnds
    \/ \E table \in Lapsing : /\ Lapse(table)
                              /\ UNCHANGED <<walk, usable, cooling, registered, release, occupancyVars>>

Next == Environment \/ \E r \in Requests : WalkStep(r)

Spec == Init /\ [][Next]_redirectVars
-----------------------------------------------------------------------------
(* Properties *)

\* A walk that ends without a link says "busy, ask again" exactly when no candidate
\* was more than busy: a dead source must not look like a busy slot, nor a busy
\* slot like a dead source (the 503 and 502 of the route).
BusyIsBusy ==
    \A r \in Requests : walk[r].at = "done" /\ walk[r].answer = Nothing =>
        walk[r].allBusy <=> walk[r].outcomes = {"busy"}

\* Affinity, breaker and demotions reorder and shorten a chain, but a route that
\* has a MAC to try is always tried; a half-open breaker lets one source through.
NeverSilenced ==
    \A route \in Routes :
        BuildChain(route) # <<>> => OrderedChain(memory, route, BuildChain(route)) # <<>>

\* One bad zap must not open the breaker: a source carries no more strikes than walks it
\* has failed in since it last gave a link, however many of its MACs and passes fail and
\* whatever other walks strike and clear meanwhile.
OneStrikePerWalk ==
    \A s \in Sources : memory.strikes[s] <= Cardinality(memory.blamed[s])

\* When a walk gives up, it has come by every candidate of its chain, except MACs
\* of a source the panel refused.
NothingLeftUntried ==
    \A r \in Requests : walk[r].at = "done" /\ walk[r].answer = Nothing =>
        \A i \in DOMAIN walk[r].chain :
            \/ walk[r].chain[i].src \in walk[r].struck
            \/ \A m \in Range(walk[r].chain[i].macs) : <<walk[r].chain[i].src, m>> \in walk[r].tried

\* A route that has a MAC to try is tried, all of it.
EveryRouteTried == NothingLeftUntried /\ NeverSilenced
=============================================================================
