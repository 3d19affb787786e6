---------------------------- MODULE RouteMemory ----------------------------
(***************************************************************************)
(* What the stream manager remembers between two plays of a route: which   *)
(* source and MAC worked (_RouteHealth), which sources and candidates just  *)
(* failed, links that may be replayed, what was learned about stored links, *)
(* and what the last redirect pointed at (services/redirect_guard.py).      *)
(* Entries carry a time and lapse; here a lapse is an action of its own.    *)
(***************************************************************************)
EXTENDS MacOccupancy, Selection

CONSTANTS
    Requests,    \* redirect requests
    Routes,      \* (kind, item) keys
    Sources,
    Nothing,     \* no entry
    Breaker,     \* SOURCE_BREAKER_FAILURES
    MaxStrikes,  \* bound on the failure counter
    Lapsing      \* bound: the tables whose entries may lapse

BreakerAssumption == Breaker \in Nat \ {0} /\ MaxStrikes \in Nat /\ MaxStrikes >= Breaker

VARIABLE memory

Candidates == Sources \X Macs
\* A playable URL: whose stream it is, and whether it is the stored one.
Urls == [src : Sources, mac : Macs, stored : BOOLEAN]

MemoryTypeOK ==
    memory \in [success : [Routes -> Candidates \cup {Nothing}],
                strikes : [Sources -> 0 .. MaxStrikes],
                hot     : SUBSET Sources,
                failed  : SUBSET (Routes \X Candidates),
                links   : [Routes \X Macs \X (Users \cup {Anon}) -> Urls \cup {Nothing}],
                verdict : [Candidates -> BOOLEAN \cup {Nothing}],
                handed  : [Routes -> Candidates \cup {Nothing}],
                blamed  : [Sources -> SUBSET (Requests \X Nat)]]

\* blamed is history: the walks (a request and how often it had been made) a source has
\* failed in since it last gave a link, or was forgotten.
MemoryInit ==
    memory = [success |-> [route \in Routes |-> Nothing],
              strikes |-> [s \in Sources |-> 0],
              hot     |-> {},                   \* failed within the breaker's cooldown
              failed  |-> {},                   \* _CANDIDATE_FAILURES within FAILURE_DEMOTE_S
              links   |-> [k \in Routes \X Macs \X (Users \cup {Anon}) |-> Nothing],
              verdict |-> [c \in Candidates |-> Nothing],
              handed  |-> [route \in Routes |-> Nothing],
              blamed  |-> [s \in Sources |-> {}]]
-----------------------------------------------------------------------------
Step(src, macs) == [src |-> src, macs |-> macs]

Tripped(mem, s) == mem.strikes[s] >= Breaker /\ s \in mem.hot

\* Mutant of OrderedChain: an open breaker hides its source for good.
ChainWithoutOpen(mem, route, chain) == Only(chain, {step \in Range(chain) : ~Tripped(mem, step.src)})

\* _RouteHealth.ordered_chain: open breakers are left out unless nothing else is
\* there; the source that worked last goes first.
OrderedChain(mem, route, chain) ==
    LET healthy == Only(chain, {step \in Range(chain) : ~Tripped(mem, step.src)})
        kept == IF healthy # <<>> \/ chain = <<>> THEN healthy ELSE <<Head(chain)>> IN
    IF mem.success[route] = Nothing THEN kept
    ELSE Behind(kept, {step \in Range(kept) : step.src # mem.success[route][1]})

\* _RouteHealth.ordered_macs: affinity for the MAC, on the source that worked.
OrderedMacs(mem, route, src, macs) ==
    IF mem.success[route] = Nothing \/ mem.success[route][1] # src THEN macs
    ELSE Behind(macs, Range(macs) \ {mem.success[route][2]})

DemoteMacs(mem, route, src, macs) ==
    Behind(macs, {m \in Range(macs) : <<route, <<src, m>>>> \in mem.failed})

\* demote_failed_candidates: MACs first, then steps of which every MAC failed.
DemoteFailed(mem, route, chain) ==
    LET steps == [i \in DOMAIN chain |->
                    Step(chain[i].src, DemoteMacs(mem, route, chain[i].src, chain[i].macs))] IN
    Behind(steps, {step \in Range(steps) :
                     /\ step.macs # <<>>
                     /\ \A m \in Range(step.macs) : <<route, <<step.src, m>>>> \in mem.failed})

\* demote_recently_handed: the candidate of the last redirect goes last.
DemoteHanded(mem, route, chain) ==
    LET last == mem.handed[route] IN
    IF last = Nothing THEN chain
    ELSE LET behind == Behind(chain, {step \in Range(chain) : step.src = last[1]}) IN
         [i \in DOMAIN behind |->
            IF behind[i].src # last[1] THEN behind[i]
            ELSE Step(behind[i].src, Behind(behind[i].macs, {last[2]}))]
-----------------------------------------------------------------------------
Failed(mem, s) ==
    [mem EXCEPT !.strikes[s] = IF @ < MaxStrikes THEN @ + 1 ELSE @, !.hot = @ \cup {s}]

Blamed(mem, s, by) == [mem EXCEPT !.blamed[s] = @ \cup {by}]

Succeeded(mem, route, c) ==
    [mem EXCEPT !.strikes[c[1]] = 0, !.hot = @ \ {c[1]}, !.success[route] = c, !.blamed[c[1]] = {}]

NoteFailure(mem, route, c) == [mem EXCEPT !.failed = @ \cup {<<route, c>>}]

ClearFailures(mem, route) == [mem EXCEPT !.failed = {f \in @ : f[1] # route}]

NoteVerdict(mem, c, ok) == [mem EXCEPT !.verdict[c] = ok]

NoteHanded(mem, route, c) == [mem EXCEPT !.handed[route] = c]

\* note_link and drop_link: keyed by item, MAC and user, not by source.
NoteLink(mem, route, m, user, url) == [mem EXCEPT !.links[<<route, m, user>>] = url]
-----------------------------------------------------------------------------
\* An entry's time is up, or a full table evicts it.
Lapse(table) ==
    /\ table \in Lapsing
    /\ \/ /\ table \in {"success", "handed"}
          /\ \E route \in Routes : memory[table][route] # Nothing
                                   /\ memory' = [memory EXCEPT ![table][route] = Nothing]
       \/ /\ table = "hot"
          /\ \E s \in memory.hot : memory' = [memory EXCEPT !.hot = @ \ {s}]
       \/ /\ table = "strikes"          \* prune: only cooled-down breakers
          /\ \E s \in Sources \ memory.hot : /\ memory.strikes[s] > 0
                                             /\ memory' = [memory EXCEPT !.strikes[s] = 0, !.blamed[s] = {}]
       \/ /\ table = "failed"
          /\ \E f \in memory.failed : memory' = [memory EXCEPT !.failed = @ \ {f}]
       \/ /\ table \in {"links", "verdict"}
          /\ \E k \in DOMAIN memory[table] : memory[table][k] # Nothing
                                             /\ memory' = [memory EXCEPT ![table][k] = Nothing]
=============================================================================
