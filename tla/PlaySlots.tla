------------------------------ MODULE PlaySlots ------------------------------
(***************************************************************************)
(* What the stream manager promises of the MAC slots of a play, with no    *)
(* pump, pipe, registry, parker or reaper in it: a play holds at most one  *)
(* slot, enters the registry holding it, leaves the registry empty-handed, *)
(* may complete one open that was under way when it was killed, and is     *)
(* done only when everything is given back.                                *)
(***************************************************************************)
CONSTANTS
    Plays,      \* play requests
    Macs,       \* MAC addresses
    Reach,      \* [Plays -> SUBSET Macs], the metered MACs of a play's chain
    Unmetered   \* plays with a source in their chain that takes no slot

VARIABLES
    slots,      \* [Plays -> SUBSET Macs], the slots a play holds
    life        \* [Plays -> {"waiting", "live", "ending", "over", "done"}]: nothing
                \* played yet; registered; taken from the registry while an open is
                \* under way; giving back what it has; over for good

slotVars == <<slots, life>>

Init == slots = [p \in Plays |-> {}] /\ life = [p \in Plays |-> "waiting"]

Become(p, held, phase) == /\ slots' = [slots EXCEPT ![p] = held]
                          /\ life' = [life EXCEPT ![p] = phase]

\* A candidate's MAC, one at a time.  A play that was killed meanwhile takes the
\* one it was about to take, and no other.
Take(p, m) ==
    /\ slots[p] = {} /\ m \in Reach[p]
    /\ \/ life[p] \in {"waiting", "live"} /\ Become(p, {m}, life[p])
       \/ life[p] = "ending" /\ Become(p, {m}, "over")

\* A candidate ended: its slot goes back before the next one is tried.
Yield(p) == slots[p] # {} /\ Become(p, {}, life[p])

\* The first byte.
GoLive(p) ==
    /\ life[p] = "waiting" /\ (slots[p] # {} \/ p \in Unmetered)
    /\ Become(p, slots[p], "live")

\* Closed, killed, reaped or preempted: the slot goes back with the entry.
Leave(p) == life[p] = "live" /\ \E phase \in {"ending", "over"} : Become(p, {}, phase)

\* The open under way failed, or the play gives up before its first byte.
GiveUp(p) ==
    /\ life[p] \in {"waiting", "ending"}
    /\ \E held \in {slots[p], {}} : Become(p, held, "over")

\* The response is over, or the request was refused.
Finish(p) ==
    /\ \/ life[p] = "waiting" /\ slots[p] = {}
       \/ life[p] = "over"
    /\ Become(p, {}, "done")

PlayNext(p) ==
    \/ Yield(p) \/ GoLive(p) \/ Leave(p) \/ GiveUp(p) \/ Finish(p)
    \/ \E m \in Macs : Take(p, m)

Next == \E p \in Plays : PlayNext(p)

Spec == Init /\ [][Next]_slotVars
=============================================================================
