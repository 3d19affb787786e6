-------------------------- MODULE StreamProperties --------------------------
(***************************************************************************)
(* What the stream manager promises about MAC slots, held pipes and        *)
(* connection limits, stated over the steps of StreamManager.              *)
(***************************************************************************)
EXTENDS StreamManager

\* Every slot has somebody who will give it back: a registered stream, a parker,
\* or a pump that still runs its finally (the "lock would stay forever" comment
\* in _pump's finally).
LocksAccountedFor ==
    \A m \in Macs : \A h \in macLocks[m] :
        \/ h \in streams
        \/ h \in parked
        \/ \E e \in expiring : e[1] = h
        \/ \E r \in Plays : /\ handle[r] = h
                            /\ pc[r] \in Pumping
                            /\ pc[r] \in {"parking", "tail"} => r \notin regd

\* h.parked and the parker task agree after every await, whoever of watchdog,
\* finally, kill and zap back came last (client_left, _park, _adopt, kill): a
\* pipe marked as held is always being drained.
ParkedIsDrained == \A h \in Plays : h \in parked <=> parker[h] # "none"

\* A registry entry never outlives everybody who could remove it: it is held by a
\* parker, some pump on it has not finished (_deregister's callers), or it is one
\* of those the reaper looks for: marked dead, or its pipe has ended (reap_dead).
RegisteredHasOwner ==
    \A h \in streams :
        \/ h \in parked
        \/ h \in dead \/ ~ Alive(hproc[h])
        \/ \E e \in expiring : e[1] = h
        \/ \E r \in Plays : handle[r] = h /\ pc[r] \in Pumping \ {"tail"}

\* An ffmpeg process that runs is read by a pump or drained by a parker; nothing
\* that unwinds leaves it behind (the orphan of _open_with_identity's comment).
NoOrphanPipe ==
    \A p \in Plays : proc[p] = "run" =>
        \/ \E r \in Plays : src[r] = p /\ pc[r] \in Pumping
        \/ \E h \in Plays : psrc[h] = p /\ parker[h] # "none"

\* While its stream is not killed, a running pipe is counted against the MAC it
\* plays on, across failovers and restarts (lock_mac before the spawn, unlock_mac
\* after the end), so is_mac_busy never reports a streaming MAC as free.
PipeCounted ==
    \A r \in Plays :
        (proc[r] = "run" /\ handle[r] \notin dead /\ Spends(loc[r].cand))
            => handle[r] \in macLocks[loc[r].cand[2]]

\* One play holds a slot on at most one MAC, whatever failovers it went through.
OneSlotEach == \A h \in Plays : Cardinality(HeldBy(h)) <= 1

\* "a portal never sees more concurrent streams than allowed": the slots taken on
\* a MAC stay within the portal's limit (is_mac_busy, then lock_mac).
WithinLimit == \A m \in Macs : Cardinality(macLocks[m]) <= Limit[m]

\* A stream that was killed never comes back to the registry (`registered` in
\* _pump keeps a failover of a killed stream from registering it again).  With
\* lingering on, two pumps may share a handle and the property is not claimed.
NeverRevived == [][\A h \in dead : h \in streams' => h \in streams]_vars

\* Handles whose bytes reach a connected player right now.
Watched == {h \in streams \ (dead \cup parked) :
               \E q \in Plays : handle[q] = h /\ pc[q] \in Feeding /\ q \notin gone}

\* No request of one user ends a stream another user is watching: preempt_own takes
\* over pipes of the same user only, and _drop_parked only pipes nobody watches.
OthersUntouched ==
    [][\A h \in Watched : h \notin streams' \ dead' =>
            \A r \in Plays : PlayStep(r) => Mine(h, r)]_vars

\* The phase of a play, from the registry and from where its pump is.
Life(r) ==
    IF r \in streams THEN "live"
    ELSE IF pc[r] = "end" THEN "done"
    ELSE IF pc[r] \in Closing THEN "over"
    ELSE IF r \notin regd THEN "waiting"
    ELSE IF pc[r] = "link" THEN "ending" ELSE "over"

Promise == INSTANCE PlaySlots
    WITH slots <- [r \in Plays |-> HeldBy(r)],
         life <- [r \in Plays |-> Life(r)],
         Reach <- [r \in Plays |-> {c[2] : c \in {d \in Cands(r) : Spends(d)}}],
         Unmetered <- {r \in Plays : \E c \in Cands(r) : ~ Spends(c)}

\* The stream manager keeps the promise of PlaySlots when nothing lingers: through
\* failovers, passes, restarts, takeovers and kills a play holds one slot at a time,
\* is registered holding it, leaves the registry for good and empty-handed, takes at
\* most the one slot whose open was under way, and is done when all is given back.
SlotsAreKept == Promise!Spec

NoOneLeft == \A r \in Plays : pc[r] = "new" \/ r \in gone
Released == streams = {} /\ \A m \in Macs : macLocks[m] = {}

\* Once every player has hung up, all slots and registry entries are given back
\* for good (watchdog, finally, parker and reaper together).
EventuallyReleased == <>[]NoOneLeft => <>[]Released

\* Once the pump of a play whose player hung up has begun, or its zap back has a
\* registered handle to attach to, its disconnect watchdog ends too, whether the
\* answer waits for the first byte or not (_pump's finally, "one leaked task per
\* failed start").  Not claimed of "start": an immediate answer cancelled before
\* its generator runs leaves a handle neither registered nor dead, and
\* watch_disconnect waits on it for ever.
WatchdogsEnd ==
    \A r \in Plays : (r \in gone /\ pc[r] \in {"attach"} \cup Pumping) ~> (r \notin watch)
=============================================================================
