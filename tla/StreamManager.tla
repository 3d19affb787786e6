--------------------------- MODULE StreamManager ---------------------------
(***************************************************************************)
(* The life of a proxied play (app/services/stream_manager.py and the      *)
(* response side of it in app/routers/output.py): the request that opens   *)
(* it, the pump coroutine that walks MACs and feeds the player, the        *)
(* disconnect watchdog, the parker that holds a live pipe for a zap back,  *)
(* the reaper, and the kill every one of them may issue.                   *)
(*                                                                         *)
(* The program is one asyncio thread, so an action is the code between two *)
(* awaits.  A play r is one HTTP request; its StreamHandle, if it creates  *)
(* one, is named r as well.  A request that zaps back pumps the handle of  *)
(* an earlier play: handle[r] # r.  Process r is the last ffmpeg (or       *)
(* pass-through) pipe that pump r spawned.                                 *)
(***************************************************************************)
EXTENDS MacOccupancy

CONSTANTS
    Routes,     \* playlist items: route_key
    RouteOf,    \* [Plays -> Routes]
    Sources,    \* portal sources
    Chain,      \* [Routes -> SUBSET (Sources \X Macs)], the fallback chain
    Adopted,    \* sources played through the panel's Xtream side: no MAC slot
    Leasing,    \* callers whose redirects and probes lease MACs during a run
    MaxConn,    \* [Users \cup {Anon} -> Nat], 0 = unlimited
    Linger,     \* LINGER_S > 0: pipes are parked when their client leaves
    Reaper,     \* the reaper's grace is shorter than a failover
    PreferFree, \* the prefer_free_mac setting
    Immediate,  \* plays answered 200 before the first byte: STREAM_IMMEDIATE_START,
                \* or what the address asks with ?immediate=1 / ?guarded=1
    Attempts,   \* passes over the chain: 2 with ZAP_RETRY, else 1
    Restarts,   \* MIDSTREAM_RESTARTS
    None,       \* no process, no candidate
    Ended       \* an ffmpeg process of the past, whose return code is set

Candidates == Sources \X Macs

ASSUME ChainAssumption == /\ Chain \in [Routes -> SUBSET Candidates]
                          /\ RouteOf \in [Plays -> Routes]
                          /\ Adopted \subseteq Sources
                          /\ Leasing \subseteq Users \cup {Anon}
ASSUME BoundAssumption == /\ MaxConn \in [Users \cup {Anon} -> Nat]
                          /\ Attempts \in Nat \ {0}
                          /\ Restarts \in Nat
                          /\ {Linger, Reaper, PreferFree} \subseteq BOOLEAN
                          /\ Immediate \subseteq Plays
ASSUME NoneAssumption == /\ None \notin Plays \cup Candidates
                         /\ Ended \notin Plays \cup {None}

Processes == Plays \cup {None, Ended}

VARIABLES
    streams,    \* the registry: handles whose bytes flow
    dead,       \* handle.dead
    parked,     \* handle.parked
    parker,     \* handle.parker: [Plays -> {"none", "start", "drain"}]
    psrc,       \* the process each parker drains
    expiring,   \* <<handle, process>> of parkers past their loop
    fed,        \* handles with bytes_sent > 0
    hproc,      \* handle.proc: whose process, or None
    proc,       \* [Plays -> {"none", "run", "dying", "gone"}]
    pc,         \* where each request is
    handle,     \* the handle each request pumps
    regd,       \* pumps whose local `registered` is true
    src,        \* the process each pump reads
    loc,        \* the pump's other locals
    gone,       \* requests whose socket is closed
    watch       \* requests with a running watchdog

handleVars == <<streams, dead, parked, parker, psrc, expiring, fed, hproc>>
pumpVars == <<pc, handle, regd, src, loc>>
vars == <<occupancyVars, handleVars, proc, pumpVars, gone, watch>>

\* "new": not asked yet; "open" to "wait*": inside open(); "start"/"attach":
\* response returned, generator not started; "pass" to "reap": the pump;
\* "finish" to "tail": its finally; "end": over (or refused).
\* "drop", "took": a kill of another stream awaits the end of its teardown.
Opening == {"open", "drop", "wait", "took"}
Unstarted == {"start", "attach"}
Walking == {"pass", "passWait", "walk", "link", "first"}
Feeding == {"send", "read", "reap"}
Closing == {"finish", "parking", "closing", "tail"}
Pumping == Walking \cup Feeding \cup Closing

Locals == [cand : Candidates \cup {None}, tried : SUBSET Candidates,
           pass : 1..Attempts, restarts : 0..Restarts, yielded : BOOLEAN,
           served : BOOLEAN]

TypeOK ==
    /\ OccupancyTypeOK
    /\ streams \subseteq Plays
    /\ dead \subseteq Plays
    /\ parked \subseteq Plays
    /\ parker \in [Plays -> {"none", "start", "drain"}]
    /\ psrc \in [Plays -> Processes]
    /\ expiring \subseteq Plays \X Processes
    /\ fed \subseteq Plays
    /\ hproc \in [Plays -> Processes]
    /\ proc \in [Plays -> {"none", "run", "dying", "gone"}]
    /\ pc \in [Plays -> {"new", "end"} \cup Opening \cup Unstarted \cup Pumping]
    /\ handle \in [Plays -> Plays]
    /\ regd \subseteq Plays
    /\ src \in [Plays -> Processes]
    /\ loc \in [Plays -> Locals]
    /\ gone \subseteq Plays
    /\ watch \subseteq Plays

\* Mutant of FreshLocals: passes counted from zero.
FreshLocalsFromZero == [cand |-> None, tried |-> {}, pass |-> 0, restarts |-> 0,
                        yielded |-> FALSE, served |-> FALSE]

FreshLocals == [cand |-> None, tried |-> {}, pass |-> 1, restarts |-> 0,
                yielded |-> FALSE, served |-> FALSE]

Init ==
    /\ OccupancyInit
    /\ streams = {} /\ dead = {} /\ parked = {} /\ expiring = {} /\ fed = {}
    /\ parker = [h \in Plays |-> "none"]
    /\ psrc = [h \in Plays |-> None]
    /\ hproc = [h \in Plays |-> None]
    /\ proc = [r \in Plays |-> "none"]
    /\ pc = [r \in Plays |-> "new"]
    /\ handle = [r \in Plays |-> r]
    /\ regd = {} /\ gone = {} /\ watch = {}
    /\ src = [r \in Plays |-> None]
    /\ loc = [r \in Plays |-> FreshLocals]
-----------------------------------------------------------------------------
(* What the code asks.                                                     *)

\* proc.returncode is None: running, or signalled and not yet reaped.
Alive(p) == p \in Plays /\ proc[p] \in {"run", "dying"}

Mine(h, r) == UserOf[h] = UserOf[r]

Cands(r) == Chain[RouteOf[r]]

Spends(c) == c[1] \notin Adopted

Busy(m, r) == IsMacBusy(m, UserOf[r])

\* _any_free: a MAC of the chain that nothing holds.
AnyFree(r) == \E c \in Cands(r) : ~ Busy(c[2], r)

\* user_stream_count: the live registry, without what is only parked.
Slots(user) == Cardinality({h \in streams \ parked : UserOf[h] = user})

CanOpenFor(r) == \/ MaxConn[UserOf[r]] = 0
                 \/ Slots(UserOf[r]) < MaxConn[UserOf[r]]

CanPark(h) == /\ Linger
              /\ h \notin parked \cup dead
              /\ h \in fed
              /\ Alive(hproc[h])

\* _find_parked: a held pipe of the same user and item.
ZapBack(r) == {h \in streams \cap parked :
                  /\ Linger
                  /\ RouteOf[h] = RouteOf[r]
                  /\ Mine(h, r)
                  /\ Alive(hproc[h])}

\* Registered handles that hold a slot on a MAC of this play's chain.
InTheWay(r) == {h \in streams : \E c \in Cands(r) : h \in macLocks[c[2]]}

\* Mutant of OwnPipes: a zap takes over anybody's pipe.
PipesOfAnyone(r) == {h \in InTheWay(r) : UserOf[r] # Anon}

\* preempt_own: pipes of the same named user.
OwnPipes(r) == {h \in InTheWay(r) : UserOf[r] # Anon /\ Mine(h, r)}

\* Pumps waiting in read() on a process; a second reader of it gets a
\* RuntimeError from the stream reader.
Waiting(p) == {q \in Plays : pc[q] = "read" /\ src[q] = p}
DrainedByParker(p) == \E h \in Plays : parker[h] = "drain" /\ psrc[h] = p

\* No parker and no finally has anything to do right now.  What needs only turns
\* of the event loop and local database writes happens before a panel answers or a
\* pipe delivers.
Prompt == /\ \A q \in Plays : pc[q] \notin {"finish", "parking", "tail"}
          /\ \A q \in Plays : pc[q] = "closing" => Alive(src[q])
          /\ \A h \in Plays : parker[h] # "none" => parker[h] = "drain" /\ Alive(psrc[h])
          /\ \A e \in expiring : Alive(e[2])
-----------------------------------------------------------------------------
(* What the code does between two awaits.                                  *)

Goto(r, place) == pc' = [pc EXCEPT ![r] = place]

\* proc.kill(): a running pipe dies soon, its return code is set later.
Signal(p) == IF p \in Plays /\ proc[p] = "run" THEN [proc EXCEPT ![p] = "dying"] ELSE proc

\* Mutant of Deregister: the registry entry goes, the slot stays.
DeregisterKeepsSlot(h) ==
    /\ dead' = dead \cup {h}
    /\ streams' = streams \ {h}
    /\ UNCHANGED macLocks

\* _deregister up to its first await.
Deregister(h) ==
    /\ dead' = dead \cup {h}
    /\ streams' = streams \ {h}
    /\ macLocks' = DropLocksOf(h)

\* Mutant of KillStream: the parker is cancelled, `parked` stays set.
KillLeavesParked(h) ==
    /\ IF h \in streams \ dead
       THEN /\ Deregister(h)
            /\ proc' = Signal(hproc[h])
            /\ parker' = [parker EXCEPT ![h] = "none"]
       ELSE UNCHANGED <<dead, streams, macLocks, proc, parker>>
    /\ UNCHANGED <<parked, psrc, expiring, fed, hproc, lease>>

\* kill() up to its first await; a no-op for what is unknown or already dead.
KillStream(h) ==
    /\ IF h \in streams \ dead
       THEN /\ Deregister(h)
            /\ proc' = Signal(hproc[h])
            /\ parker' = [parker EXCEPT ![h] = "none"]
            /\ parked' = IF parker[h] = "none" THEN parked ELSE parked \ {h}
       ELSE UNCHANGED <<dead, streams, macLocks, proc, parker, parked>>
    /\ UNCHANGED <<psrc, expiring, fed, hproc, lease>>

\* _park up to its first await: the parker task exists but has not run.
Park(h) ==
    /\ parked' = parked \cup {h}
    /\ parker' = [parker EXCEPT ![h] = "start"]
    /\ psrc' = [psrc EXCEPT ![h] = hproc[h]]
    /\ UNCHANGED <<streams, dead, expiring, fed, hproc, proc, occupancyVars>>
-----------------------------------------------------------------------------
(* The request: the connection limit, and open().                          *)

\* _ensure_slot: the check reserves nothing.
EnsureSlot(r) ==
    /\ pc[r] = "new"
    /\ CanOpenFor(r)
    /\ Goto(r, "open")
    /\ UNCHANGED <<occupancyVars, handleVars, proc, handle, regd, src, loc, gone, watch>>

SlotRefused(r) ==
    /\ pc[r] = "new"
    /\ ~ CanOpenFor(r)
    /\ Goto(r, "end")
    /\ UNCHANGED <<occupancyVars, handleVars, proc, handle, regd, src, loc, gone, watch>>

\* _adopt: stop the parker, read the pipe; the player gets what the ring holds.
Adopt(r, h) ==
    /\ parked' = parked \ {h}
    /\ parker' = [parker EXCEPT ![h] = "none"]
    /\ src' = [src EXCEPT ![r] = hproc[h]]
    /\ \E buffered \in BOOLEAN : loc' = [loc EXCEPT ![r].served = buffered]
    /\ Goto(r, "send")

\* A zap back: the pump attaches, at once under the guard, else when the server
\* asks the response for its first chunk.
ZapBackTo(r, h) ==
    /\ pc[r] = "open"
    /\ h \in ZapBack(r) \ dead
    /\ handle' = [handle EXCEPT ![r] = h]
    /\ watch' = watch \cup {r}
    /\ IF r \in Immediate THEN Goto(r, "attach") /\ UNCHANGED <<parked, parker, src, loc>>
       ELSE Adopt(r, h)
    /\ UNCHANGED <<occupancyVars, streams, dead, psrc, expiring, fed, hproc, proc, regd, gone>>

\* The announced handle was marked dead by its other pump: 404.
ZapBackDead(r, h) ==
    /\ pc[r] = "open"
    /\ h \in ZapBack(r) \cap dead
    /\ handle' = [handle EXCEPT ![r] = h]
    /\ Goto(r, "end")
    /\ UNCHANGED <<occupancyVars, handleVars, proc, regd, src, loc, gone, watch>>

\* A held pipe of this user and item answers the request.  Only a third play can
\* meet a dead one: two pumps must share the handle first.
TakeHeld(r, h) ==
    /\ h \in ZapBack(r)
    /\ IF h \in dead THEN ZapBackDead(r, h) ELSE ZapBackTo(r, h)

\* A MAC may be used: answer 200 and watch the player.
Answer(r) ==
    /\ loc' = [loc EXCEPT ![r] = FreshLocals]
    /\ Goto(r, "start")
    /\ watch' = watch \cup {r}
    /\ UNCHANGED <<occupancyVars, handleVars, proc, handle, regd, src, gone>>

OpenFree(r) ==
    /\ \/ pc[r] = "open" /\ ZapBack(r) = {}
       \/ pc[r] = "drop"
    /\ AnyFree(r)
    /\ Answer(r)

Blocked(r) == pc[r] = "open" /\ ZapBack(r) = {} /\ ~ AnyFree(r)

\* _drop_parked: no parked pipe on the chain's MACs keeps this request waiting.
DropParked(r, h) ==
    /\ Blocked(r) \/ pc[r] = "drop"
    /\ h \in InTheWay(r) \cap parked
    /\ KillStream(h)
    /\ Goto(r, "drop")
    /\ UNCHANGED <<handle, regd, src, loc, gone, watch>>

NoneParked(r) == InTheWay(r) \cap parked = {}

\* _first_free_mac: the next MAC of the chain, looked at once; a busy one is
\* polled until its user's own pipe was taken over, or the budget is over.
WaitFor(r, c) ==
    /\ \/ Blocked(r) /\ NoneParked(r)
       \/ pc[r] = "drop" /\ ~ AnyFree(r)
       \/ pc[r] = "wait"
    /\ c \in Cands(r) \ loc[r].tried
    /\ Busy(c[2], r)
    /\ loc' = [loc EXCEPT ![r].cand = c, ![r].tried = @ \cup {c}]
    /\ Goto(r, "wait")
    /\ UNCHANGED <<occupancyVars, handleVars, proc, handle, regd, src, gone, watch>>

NextIsFree(r) ==
    /\ pc[r] = "wait"
    /\ \E c \in Cands(r) \ loc[r].tried : ~ Busy(c[2], r)
    /\ Answer(r)

\* preempt_own, while the MAC is polled.
WaitPreempt(r, h) ==
    /\ pc[r] = "wait"
    /\ h \in OwnPipes(r) \cap macLocks[loc[r].cand[2]]
    /\ KillStream(h)
    /\ Goto(r, "took")
    /\ UNCHANGED <<handle, regd, src, loc, gone, watch>>

\* Only after a takeover is the MAC looked at again.
TookOver(r) ==
    /\ pc[r] = "took" /\ ~ Busy(loc[r].cand[2], r)
    /\ Answer(r)

StillBusy(r) ==
    /\ pc[r] = "took" /\ Busy(loc[r].cand[2], r)
    /\ Goto(r, "wait")
    /\ UNCHANGED <<occupancyVars, handleVars, proc, handle, regd, src, loc, gone, watch>>

\* Every MAC was busy when it was looked at: 503, come back in a second.
OpenTimeout(r) ==
    /\ pc[r] = "wait"
    /\ Cands(r) \subseteq loc[r].tried
    /\ dead' = dead \cup {r}
    /\ loc' = [loc EXCEPT ![r] = FreshLocals]
    /\ Goto(r, "end")
    /\ UNCHANGED <<occupancyVars, streams, parked, parker, psrc, expiring, fed, hproc,
                   proc, handle, regd, src, gone, watch>>

OpenStep(r) ==
    \/ EnsureSlot(r) \/ SlotRefused(r) \/ OpenFree(r) \/ NextIsFree(r) \/ TookOver(r)
    \/ StillBusy(r) \/ OpenTimeout(r)
    \/ \E h \in Plays : TakeHeld(r, h) \/ DropParked(r, h) \/ WaitPreempt(r, h)
    \/ \E c \in Candidates : WaitFor(r, c)
-----------------------------------------------------------------------------
(* The pump: attach, the walk over the chain, the open of one candidate.   *)

Begin(r) ==
    /\ pc[r] = "start"
    /\ Goto(r, "pass")
    /\ UNCHANGED <<occupancyVars, handleVars, proc, handle, regd, src, loc, gone, watch>>

\* The pump attaches; if the pipe went away meanwhile it falls through to the
\* ordinary walk, on the old handle.
Attach(r) ==
    /\ pc[r] = "attach"
    /\ IF Alive(hproc[handle[r]]) THEN Adopt(r, handle[r])
       ELSE Goto(r, "pass") /\ UNCHANGED <<parked, parker, src, loc>>
    /\ UNCHANGED <<occupancyVars, streams, dead, psrc, expiring, fed, hproc, proc, handle,
                   regd, gone, watch>>

\* The head of a pass: go on when a MAC is free; wait (and take back our own
\* pipe) when none is, or when this pass does not ask for a free one first.
FreeFirst(r) == PreferFree /\ loc[r].pass = 1 /\ AnyFree(r)

PassGo(r) ==
    /\ pc[r] \in {"pass", "passWait"}
    /\ Goto(r, "walk")
    /\ UNCHANGED <<occupancyVars, handleVars, proc, handle, regd, src, loc, gone, watch>>

PassWait(r) ==
    /\ pc[r] = "pass"
    /\ ~ FreeFirst(r)
    /\ \E c \in Cands(r) : Busy(c[2], r)
    /\ Goto(r, "passWait")
    /\ UNCHANGED <<occupancyVars, handleVars, proc, handle, regd, src, loc, gone, watch>>

PassPreempt(r, h) ==
    /\ \/ pc[r] = "pass" /\ ~ FreeFirst(r)
       \/ pc[r] = "passWait"
    /\ h \in OwnPipes(r)
    /\ \E m \in HeldBy(h) : Busy(m, r)
    /\ KillStream(h)
    /\ Goto(r, "passWait")
    /\ UNCHANGED <<handle, regd, src, loc, gone, watch>>

\* A dead handle ends the walk.
WalkDead(r) ==
    /\ pc[r] = "walk"
    /\ handle[r] \in dead
    /\ Goto(r, "finish")
    /\ UNCHANGED <<occupancyVars, handleVars, proc, handle, regd, src, loc, gone, watch>>

\* The candidate's MAC is held: next one.
WalkBusy(r, c) ==
    /\ pc[r] = "walk"
    /\ handle[r] \notin dead
    /\ c \in Cands(r) \ loc[r].tried
    /\ Spends(c) /\ Busy(c[2], r)
    /\ loc' = [loc EXCEPT ![r].tried = @ \cup {c}]
    /\ UNCHANGED <<occupancyVars, handleVars, proc, pc, handle, regd, src, gone, watch>>

\* Mutant of WalkPick: a killed stream goes on to its next candidate.
WalkPickKilled(r, c) ==
    /\ pc[r] = "walk"
    /\ c \in Cands(r) \ loc[r].tried
    /\ Spends(c) => ~ Busy(c[2], r)
    /\ loc' = [loc EXCEPT ![r].cand = c]
    /\ Goto(r, "link")
    /\ UNCHANGED <<occupancyVars, handleVars, proc, handle, regd, src, gone, watch>>

\* The MAC is free now: everything up to the answer of create_link awaits.
WalkPick(r, c) ==
    /\ pc[r] = "walk"
    /\ handle[r] \notin dead
    /\ c \in Cands(r) \ loc[r].tried
    /\ Spends(c) => ~ Busy(c[2], r)
    /\ loc' = [loc EXCEPT ![r].cand = c]
    /\ Goto(r, "link")
    /\ UNCHANGED <<occupancyVars, handleVars, proc, handle, regd, src, gone, watch>>

WalkedAll(r) == pc[r] = "walk" /\ Cands(r) \subseteq loc[r].tried

\* Nothing played in this pass: one more, after ZAP_RETRY_DELAY.
WalkAgain(r) ==
    /\ WalkedAll(r)
    /\ ~ loc[r].yielded /\ loc[r].pass < Attempts
    /\ loc' = [loc EXCEPT ![r].pass = @ + 1, ![r].tried = {}]
    /\ Goto(r, "pass")
    /\ UNCHANGED <<occupancyVars, handleVars, proc, handle, regd, src, gone, watch>>

\* A stream that was playing ended and its chain is exhausted: re-resolve.
WalkRestart(r) ==
    /\ WalkedAll(r)
    /\ loc[r].yielded /\ handle[r] \notin dead
    /\ loc[r].restarts < Restarts
    /\ loc' = [loc EXCEPT ![r].restarts = @ + 1, ![r].tried = {}, ![r].pass = 1,
                          ![r].yielded = FALSE]
    /\ Goto(r, "pass")
    /\ UNCHANGED <<occupancyVars, handleVars, proc, handle, regd, src, gone, watch>>

\* Nothing is left to try, or the start budget is spent.
WalkOver(r) ==
    /\ pc[r] = "walk"
    /\ Goto(r, "finish")
    /\ UNCHANGED <<occupancyVars, handleVars, proc, handle, regd, src, loc, gone, watch>>

\* create_link failed in a way another MAC may repair ...
LinkFailed(r) ==
    /\ pc[r] = "link"
    /\ loc' = [loc EXCEPT ![r].tried = @ \cup {loc[r].cand}]
    /\ Goto(r, "walk")
    /\ UNCHANGED <<occupancyVars, handleVars, proc, handle, regd, src, gone, watch>>

\* ... or the source itself has nothing: skip its other MACs.
SourceFailed(r) ==
    /\ pc[r] = "link"
    /\ loc' = [loc EXCEPT ![r].tried = @ \cup {c \in Candidates : c[1] = loc[r].cand[1]}]
    /\ Goto(r, "walk")
    /\ UNCHANGED <<occupancyVars, handleVars, proc, handle, regd, src, gone, watch>>

\* A URL: take the MAC's slot, then start the pipe and wait for its first byte.
\* Who named the previous process of r still names that one, which has ended.
LinkReady(r) ==
    /\ pc[r] = "link"
    /\ Prompt
    /\ macLocks' = IF Spends(loc[r].cand) THEN LockMac(loc[r].cand[2], handle[r])
                                          ELSE macLocks
    /\ proc' = [proc EXCEPT ![r] = "run"]
    /\ src' = [q \in Plays |-> IF q = r THEN r ELSE IF src[q] = r THEN Ended ELSE src[q]]
    /\ psrc' = [h \in Plays |-> IF psrc[h] = r THEN Ended ELSE psrc[h]]
    /\ hproc' = [h \in Plays |-> IF hproc[h] = r THEN Ended ELSE hproc[h]]
    /\ Goto(r, "first")
    /\ UNCHANGED <<lease, streams, dead, parked, parker, expiring, fed, handle, regd, loc,
                   gone, watch>>

ReleaseCandidate(r) ==
    macLocks' = IF Spends(loc[r].cand) THEN UnlockMac(loc[r].cand[2], handle[r])
                                       ELSE macLocks

\* No byte in the window: the opener killed the pipe, the slot goes back.
NoData(r) ==
    /\ pc[r] = "first"
    /\ ReleaseCandidate(r)
    /\ proc' = [proc EXCEPT ![r] = "gone"]
    /\ loc' = [loc EXCEPT ![r].tried = @ \cup
                  IF Spends(loc[r].cand) THEN {loc[r].cand}
                  ELSE {c \in Candidates : c[1] = loc[r].cand[1]}]
    /\ Goto(r, "walk")
    /\ UNCHANGED <<lease, handleVars, handle, regd, src, gone, watch>>

\* The template cannot work for any candidate.
TemplateBroken(r) ==
    /\ pc[r] = "first"
    /\ ReleaseCandidate(r)
    /\ proc' = [proc EXCEPT ![r] = "gone"]
    /\ dead' = dead \cup {handle[r]}
    /\ Goto(r, "finish")
    /\ UNCHANGED <<lease, streams, parked, parker, psrc, expiring, fed, hproc, handle, regd,
                   src, loc, gone, watch>>

\* Mutant of FirstByte: every failover registers its handle again.
FirstByteRegisters(r) ==
    /\ pc[r] = "first"
    /\ Prompt
    /\ proc[r] = "run"
    /\ hproc' = [hproc EXCEPT ![handle[r]] = r]
    /\ streams' = streams \cup {handle[r]}
    /\ regd' = regd \cup {r}
    /\ loc' = [loc EXCEPT ![r].yielded = TRUE, ![r].served = TRUE]
    /\ Goto(r, "send")
    /\ UNCHANGED <<occupancyVars, dead, parked, parker, psrc, expiring, fed, proc, handle,
                   src, gone, watch>>

\* The first byte: only now the stream enters the registry.
FirstByte(r) ==
    /\ pc[r] = "first"
    /\ Prompt
    /\ proc[r] = "run"
    /\ hproc' = [hproc EXCEPT ![handle[r]] = r]
    /\ streams' = IF r \in regd THEN streams ELSE streams \cup {handle[r]}
    /\ regd' = regd \cup {r}
    /\ loc' = [loc EXCEPT ![r].yielded = TRUE, ![r].served = TRUE]
    /\ Goto(r, "send")
    /\ UNCHANGED <<occupancyVars, dead, parked, parker, psrc, expiring, fed, proc, handle,
                   src, gone, watch>>

WalkStep(r) ==
    \/ Begin(r) \/ Attach(r) \/ PassGo(r) \/ PassWait(r) \/ WalkDead(r) \/ WalkAgain(r)
    \/ WalkRestart(r) \/ WalkOver(r) \/ LinkFailed(r) \/ SourceFailed(r)
    \/ LinkReady(r) \/ NoData(r) \/ TemplateBroken(r) \/ FirstByte(r)
    \/ \E c \in Candidates : WalkBusy(r, c) \/ WalkPick(r, c)
    \/ \E h \in Plays : PassPreempt(r, h)
-----------------------------------------------------------------------------
(* The pump: feeding the player, and the end of a pipe.                    *)

\* Both ends of the loop: stall, EOF, or a handle found dead.  An attached pump
\* looks up which MAC its handle holds, any other releases its candidate's.
PipeEnded(r) ==
    /\ LET h == handle[r] IN
        IF loc[r].cand # None THEN ReleaseCandidate(r)
        ELSE \/ HeldBy(h) = {} /\ UNCHANGED macLocks
             \/ \E m \in HeldBy(h) : macLocks' = UnlockMac(m, h)
    /\ proc' = Signal(src[r])
    /\ Goto(r, "reap")
    /\ UNCHANGED <<lease, handleVars, handle, regd, src, loc, gone, watch>>

\* The player took a chunk: read the next one.
ReadMore(r) ==
    /\ pc[r] = "send"
    /\ handle[r] \notin dead
    /\ Alive(src[r])
    /\ Waiting(src[r]) = {} /\ ~ DrainedByParker(src[r])
    /\ Goto(r, "read")
    /\ UNCHANGED <<occupancyVars, handleVars, proc, handle, regd, src, loc, gone, watch>>

\* Somebody else is waiting on this pipe: the read raises, the pump unwinds.
ReadCrash(r) ==
    /\ pc[r] = "send"
    /\ handle[r] \notin dead
    /\ Alive(src[r])
    /\ Waiting(src[r]) # {} \/ DrainedByParker(src[r])
    /\ Goto(r, "finish")
    /\ UNCHANGED <<occupancyVars, handleVars, proc, handle, regd, src, loc, gone, watch>>

ReadNothing(r) ==
    /\ pc[r] = "send"
    /\ handle[r] \in dead \/ ~ Alive(src[r])
    /\ PipeEnded(r)

Chunk(r) ==
    /\ pc[r] = "read"
    /\ src[r] \in Plays /\ proc[src[r]] = "run"
    /\ fed' = fed \cup {handle[r]}
    /\ loc' = [loc EXCEPT ![r].served = TRUE]
    /\ Goto(r, "send")
    /\ UNCHANGED <<occupancyVars, streams, dead, parked, parker, psrc, expiring, hproc, proc,
                   handle, regd, src, gone, watch>>

\* EOF, or silence for the stall window.
ReadEnded(r) ==
    /\ pc[r] = "read"
    /\ PipeEnded(r)

\* The old pipe is reaped: the next candidate, in the same response.  What was
\* an attached pipe starts the walk from the head of the chain.
NextCandidate(r) ==
    /\ pc[r] = "reap"
    /\ ~ Alive(src[r])
    /\ IF loc[r].cand = None
       THEN Goto(r, "pass") /\ UNCHANGED loc
       ELSE Goto(r, "walk") /\ loc' = [loc EXCEPT ![r].tried = @ \cup {loc[r].cand}]
    /\ UNCHANGED <<occupancyVars, handleVars, proc, handle, regd, src, gone, watch>>

FeedStep(r) ==
    \/ ReadMore(r) \/ ReadCrash(r) \/ ReadNothing(r) \/ Chunk(r) \/ ReadEnded(r)
    \/ NextCandidate(r)
-----------------------------------------------------------------------------
(* The end of a pump: its finally, and what cuts it short.                 *)

\* The response task is cancelled (or its generator closed), once there is one:
\* the guarded start answers after its first chunk.  A generator that never started
\* has no finally; a pipe being opened is killed on the way out.
Cancel(r) ==
    /\ r \in gone
    /\ \/ r \in Immediate /\ pc[r] \in Unstarted /\ Goto(r, "end") /\ UNCHANGED proc
       \/ /\ r \in Immediate \/ loc[r].served
          /\ pc[r] \in Walking \cup Feeding
          /\ Goto(r, "finish")
          /\ proc' = IF pc[r] = "first" THEN [proc EXCEPT ![r] = "gone"] ELSE proc
    /\ UNCHANGED <<occupancyVars, handleVars, handle, regd, src, loc, gone, watch>>

\* Mutant of GuardTimeout: the guard gives up without closing the generator.
GuardLeavesPipe(r) ==
    /\ r \notin Immediate
    /\ pc[r] \in Walking \cup {"read", "reap"}
    /\ ~ loc[r].served
    /\ Goto(r, "end")
    /\ UNCHANGED <<occupancyVars, handleVars, proc, handle, regd, src, loc, gone, watch>>

\* _guarded: no first chunk within the start budget and its slack.
GuardTimeout(r) ==
    /\ r \notin Immediate
    /\ pc[r] \in Walking \cup {"read", "reap"}
    /\ ~ loc[r].served
    /\ Goto(r, "finish")
    /\ proc' = IF pc[r] = "first" THEN [proc EXCEPT ![r] = "gone"] ELSE proc
    /\ UNCHANGED <<occupancyVars, handleVars, handle, regd, src, loc, gone, watch>>

\* `if registered or h.proc`: the finally runs _finish.
MustFinish(r) == r \in regd \/ hproc[handle[r]] # None

FinishNothing(r) ==
    /\ pc[r] = "finish"
    /\ ~ MustFinish(r) \/ handle[r] \in parked
    /\ Goto(r, "tail")
    /\ UNCHANGED <<occupancyVars, handleVars, proc, handle, regd, src, loc, gone, watch>>

\* The park runs in a task of its own, and asks again.
FinishPark(r) ==
    /\ pc[r] = "finish"
    /\ MustFinish(r) /\ CanPark(handle[r])
    /\ Goto(r, "parking")
    /\ UNCHANGED <<occupancyVars, handleVars, proc, handle, regd, src, loc, gone, watch>>

Parked(r) ==
    /\ pc[r] = "parking"
    /\ IF CanPark(handle[r]) THEN Park(handle[r])
                             ELSE UNCHANGED <<occupancyVars, handleVars, proc>>
    /\ Goto(r, "tail")
    /\ UNCHANGED <<handle, regd, src, loc, gone, watch>>

FinishKill(r) ==
    /\ pc[r] = "finish"
    /\ MustFinish(r) /\ handle[r] \notin parked /\ ~ CanPark(handle[r])
    /\ proc' = Signal(hproc[handle[r]])
    /\ src' = [src EXCEPT ![r] = hproc[handle[r]]]
    /\ Goto(r, "closing")
    /\ UNCHANGED <<occupancyVars, handleVars, handle, regd, loc, gone, watch>>

FinishClosed(r) ==
    /\ pc[r] = "closing"
    /\ ~ Alive(src[r])
    /\ Deregister(handle[r])
    /\ Goto(r, "tail")
    /\ UNCHANGED <<lease, parked, parker, psrc, expiring, fed, hproc, proc, handle, regd, src,
                   loc, gone, watch>>

\* Mutants of Tail: a start that never played keeps its lock, or is never marked.
TailKeepsLock(r) ==
    /\ pc[r] = "tail"
    /\ dead' = IF r \notin regd /\ handle[r] \notin parked THEN dead \cup {handle[r]} ELSE dead
    /\ src' = [src EXCEPT ![r] = None]
    /\ loc' = [loc EXCEPT ![r] = [FreshLocals EXCEPT !.cand = loc[r].cand]]
    /\ Goto(r, "end")
    /\ UNCHANGED <<occupancyVars, streams, parked, parker, psrc, expiring, fed, hproc, proc,
                   handle, regd, gone, watch>>
TailNotDead(r) ==
    /\ pc[r] = "tail"
    /\ macLocks' = IF r \notin regd /\ handle[r] \notin parked THEN DropLocksOf(handle[r])
                                                             ELSE macLocks
    /\ src' = [src EXCEPT ![r] = None]
    /\ loc' = [loc EXCEPT ![r] = [FreshLocals EXCEPT !.cand = loc[r].cand]]
    /\ Goto(r, "end")
    /\ UNCHANGED <<lease, handleVars, proc, handle, regd, gone, watch>>

\* `if not registered and not h.parked`: a start that never played lets go of
\* its lock and marks its handle finished.
Tail(r) ==
    /\ pc[r] = "tail"
    /\ LET h == handle[r] IN
        IF r \notin regd /\ h \notin parked
        THEN macLocks' = DropLocksOf(h) /\ dead' = dead \cup {h}
        ELSE UNCHANGED <<macLocks, dead>>
    /\ src' = [src EXCEPT ![r] = None]
    /\ loc' = [loc EXCEPT ![r] = [FreshLocals EXCEPT !.cand = loc[r].cand]]
    /\ Goto(r, "end")
    /\ UNCHANGED <<lease, streams, parked, parker, psrc, expiring, fed, hproc, proc, handle,
                   regd, gone, watch>>

FinishStep(r) ==
    \/ FinishNothing(r) \/ FinishPark(r) \/ Parked(r) \/ FinishKill(r) \/ FinishClosed(r) \/ Tail(r)
-----------------------------------------------------------------------------
(* The tasks beside the request.                                           *)

\* The parker's first read raises when a pump is still waiting on the pipe.
ParkerStart(h) ==
    /\ parker[h] = "start"
    /\ IF Waiting(psrc[h]) = {} \/ ~ Alive(psrc[h])
       THEN /\ parker' = [parker EXCEPT ![h] = "drain"]
            /\ UNCHANGED <<parked, expiring, proc>>
       ELSE /\ parker' = [parker EXCEPT ![h] = "none"]
            /\ parked' = parked \ {h}
            /\ expiring' = expiring \cup {<<h, psrc[h]>>}
            /\ proc' = Signal(psrc[h])
    /\ UNCHANGED <<occupancyVars, streams, dead, psrc, fed, hproc, pumpVars, gone, watch>>

\* Mutant of ParkerExpire: the parker stops draining and leaves its pipe running.
ParkerLetsGo(h) ==
    /\ parker[h] = "drain"
    /\ parker' = [parker EXCEPT ![h] = "none"]
    /\ parked' = parked \ {h}
    /\ UNCHANGED <<occupancyVars, streams, dead, psrc, expiring, fed, hproc, proc, pumpVars,
                   gone, watch>>

\* LINGER_S is over, the pipe ended, or the handle died.
ParkerExpire(h) ==
    /\ parker[h] = "drain"
    /\ parker' = [parker EXCEPT ![h] = "none"]
    /\ parked' = parked \ {h}
    /\ expiring' = expiring \cup {<<h, psrc[h]>>}
    /\ proc' = Signal(psrc[h])
    /\ UNCHANGED <<occupancyVars, streams, dead, psrc, fed, hproc, pumpVars, gone, watch>>

ParkerClosed(h) ==
    \E e \in expiring :
        /\ e[1] = h /\ ~ Alive(e[2])
        /\ expiring' = expiring \ {e}
        /\ Deregister(h)
        /\ UNCHANGED <<lease, parked, parker, psrc, fed, hproc, proc, pumpVars, gone, watch>>

ParkerStep(h) == ParkerStart(h) \/ ParkerExpire(h) \/ ParkerClosed(h)

WatchEnds(r) ==
    /\ r \in watch
    /\ handle[r] \in dead
    /\ watch' = watch \ {r}
    /\ UNCHANGED <<occupancyVars, handleVars, proc, pumpVars, gone>>

\* The watchdog sees the disconnect of a registered stream: client_left.
ClientLeft(r) ==
    /\ r \in watch \cap gone
    /\ LET h == handle[r] IN
        /\ h \in streams \ dead
        /\ IF h \in parked THEN UNCHANGED <<occupancyVars, handleVars, proc>>
           ELSE IF CanPark(h) THEN Park(h)
           ELSE KillStream(h)
    /\ watch' = watch \ {r}
    /\ UNCHANGED <<pumpVars, gone>>

WatchStep(r) == WatchEnds(r) \/ ClientLeft(r)

\* reap_dead: a handle whose process has been gone for REAP_GRACE.
ReapDead(h) ==
    /\ Reaper
    /\ h \in streams
    /\ h \in dead \/ (hproc[h] # None /\ ~ Alive(hproc[h]))
    /\ Deregister(h)
    /\ UNCHANGED <<lease, parked, parker, psrc, expiring, fed, hproc, proc, pumpVars, gone,
                   watch>>

\* The dashboard's stop button.
StopStream(h) ==
    /\ h \in streams
    /\ KillStream(h)
    /\ UNCHANGED <<pumpVars, gone, watch>>

\* A redirect, an archive link or a probe leaves a lease on a MAC.  Its caller asked
\* is_mac_busy some awaits ago, so who holds the MAC by now makes no difference.
LeaseMac(m, user) ==
    /\ lease[m] # user
    /\ lease' = [lease EXCEPT ![m] = user]
    /\ UNCHANGED <<macLocks, handleVars, proc, pumpVars, gone, watch>>

\* _expire_lease: its window is over.
LeaseOver(m) ==
    /\ lease[m] # Free
    /\ lease' = [lease EXCEPT ![m] = Free]
    /\ UNCHANGED <<macLocks, handleVars, proc, pumpVars, gone, watch>>

\* The environment: a player hangs up, a process ends or is reaped.
Disconnect(r) ==
    /\ r \notin gone /\ pc[r] # "new"
    /\ gone' = gone \cup {r}
    /\ UNCHANGED <<occupancyVars, handleVars, proc, pumpVars, watch>>

ProcessGone(p) ==
    /\ Alive(p)
    /\ proc' = [proc EXCEPT ![p] = "gone"]
    /\ UNCHANGED <<occupancyVars, handleVars, pumpVars, gone, watch>>
-----------------------------------------------------------------------------
PlayStep(r) == OpenStep(r) \/ WalkStep(r) \/ FeedStep(r) \/ FinishStep(r)

LeaseStep == \E m \in Macs : LeaseOver(m) \/ \E user \in Leasing : LeaseMac(m, user)

Next ==
    \/ \E r \in Plays :
          \/ PlayStep(r) \/ Cancel(r) \/ GuardTimeout(r) \/ ParkerStep(r) \/ WatchStep(r)
          \/ ReapDead(r) \/ StopStream(r) \/ Disconnect(r) \/ ProcessGone(r)
    \/ LeaseStep

Spec == Init /\ [][Next]_vars

\* Tasks run, panels and pipes answer within their timeouts, a signalled process
\* dies.  A player that stays connected may stop reading for good; once its socket
\* is closed the server drops its chunks.
TaskFairness ==
    \A r \in Plays :
        /\ WF_vars(OpenStep(r))
        /\ WF_vars(WalkStep(r))
        /\ WF_vars(FinishStep(r))
        /\ WF_vars(Chunk(r) \/ ReadEnded(r))
        /\ WF_vars(NextCandidate(r))
        /\ WF_vars(r \in gone /\ FeedStep(r))
        /\ WF_vars(ParkerStep(r))
        /\ WF_vars(WatchStep(r))
        /\ WF_vars(ReapDead(r))
        /\ WF_vars(proc[r] = "dying" /\ ProcessGone(r))

\* The server cancels the response of a player that is gone.
ServerFairness == \A r \in Plays : WF_vars(Cancel(r))

FairSpec == Spec /\ TaskFairness /\ ServerFairness
\* What the watchdog was written for: the disconnect never reaches the response.
SilentSpec == Spec /\ TaskFairness
=============================================================================
