------------------------- MODULE StreamManagerProofs -------------------------
(***************************************************************************)
(* The stream manager, for any number of plays, MACs, users and sources.   *)
(* First type correctness.  Then, for every setting of the constants: no   *)
(* MAC slot, no parked flag and no registry entry is ever left without     *)
(* somebody who gives it back.  Last, with lingering switched off           *)
(* (SPM_LINGER_S = 0): no pipe is held for a zap back, and slots, pipes and *)
(* kills then keep every promise but the limits.                            *)
(***************************************************************************)
EXTENDS StreamProperties, FiniteSetTheorems, TLAPS

\* While create_link or the first byte is awaited, there is a candidate.
CandidateChosen ==
    \A r \in Plays : pc[r] \in {"link", "first"} => loc[r].cand \in Candidates

TypeInv == TypeOK /\ CandidateChosen
-----------------------------------------------------------------------------
(* The pump's locals.                                                      *)

\* The first pass and no restart are values the counters may have.
LEMMA FirstValues == 1 \in 1..Attempts /\ 0 \in 0..Restarts
BY BoundAssumption

\* Each single update of the pump's locals keeps their type.
LEMMA LocalsUpdate ==
    ASSUME NEW l \in Locals
    PROVE  /\ \A c \in Candidates : [l EXCEPT !.cand = c] \in Locals
           /\ \A t \in SUBSET Candidates : [l EXCEPT !.tried = @ \cup t] \in Locals
           /\ l.cand \in Candidates => [l EXCEPT !.tried = @ \cup {l.cand}] \in Locals
           /\ l.cand # None => l.cand \in Candidates
           /\ \A c \in Candidates : [l EXCEPT !.cand = c, !.tried = @ \cup {c}] \in Locals
           /\ \A b \in BOOLEAN : [l EXCEPT !.served = b] \in Locals
           /\ [l EXCEPT !.yielded = TRUE, !.served = TRUE] \in Locals
           /\ [FreshLocals EXCEPT !.cand = l.cand] \in Locals
BY FirstValues DEF Locals, FreshLocals

\* A fresh start has fresh locals.
LEMMA FreshTyped == FreshLocals \in Locals
BY FirstValues DEF Locals, FreshLocals

\* A further pass, and a restart, stay within their bounds.
LEMMA NextPass ==
    ASSUME NEW l \in Locals
    PROVE  /\ l.pass < Attempts => [l EXCEPT !.pass = @ + 1, !.tried = {}] \in Locals
           /\ l.restarts < Restarts =>
                 [l EXCEPT !.restarts = @ + 1, !.tried = {}, !.pass = 1, !.yielded = FALSE]
                     \in Locals
<1>1. l.pass < Attempts => l.pass + 1 \in 1..Attempts BY BoundAssumption DEF Locals
<1>2. l.restarts < Restarts => l.restarts + 1 \in 0..Restarts BY BoundAssumption DEF Locals
<1> QED BY <1>1, <1>2, FirstValues DEF Locals
-----------------------------------------------------------------------------
(* What the shared operations change, and that it stays typed.             *)

\* The ledger's operations keep its type.
LEMMA LedgerUpdate ==
    ASSUME macLocks \in [Macs -> SUBSET Plays], NEW h \in Plays
    PROVE  /\ \A m \in Macs : /\ LockMac(m, h) \in [Macs -> SUBSET Plays]
                              /\ UnlockMac(m, h) \in [Macs -> SUBSET Plays]
           /\ DropLocksOf(h) \in [Macs -> SUBSET Plays]
BY DEF LockMac, UnlockMac, DropLocksOf

\* So does a release of the candidate's slot.
LEMMA ReleaseTyped ==
    ASSUME TypeInv, NEW r \in Plays, loc[r].cand \in Candidates, ReleaseCandidate(r)
    PROVE  macLocks' \in [Macs -> SUBSET Plays]
<1>1. loc[r].cand[2] \in Macs /\ handle[r] \in Plays BY DEF TypeInv, TypeOK, Candidates
<1> QED BY <1>1, LedgerUpdate DEF ReleaseCandidate, TypeInv, TypeOK, OccupancyTypeOK

\* A signalled process is in one of the four states.
LEMMA SignalTyped ==
    ASSUME TypeInv, NEW p
    PROVE  Signal(p) \in [Plays -> {"none", "run", "dying", "gone"}]
BY DEF Signal, TypeInv, TypeOK

\* _deregister keeps the registry and the ledger typed.
LEMMA DeregisterTyped ==
    ASSUME TypeInv, NEW h \in Plays, Deregister(h)
    PROVE  /\ dead' \subseteq Plays /\ streams' \subseteq Plays
           /\ macLocks' \in [Macs -> SUBSET Plays]
BY LedgerUpdate DEF Deregister, TypeInv, TypeOK, OccupancyTypeOK

HandlesTyped ==
    /\ OccupancyTypeOK
    /\ streams \subseteq Plays /\ dead \subseteq Plays /\ parked \subseteq Plays
    /\ fed \subseteq Plays
    /\ parker \in [Plays -> {"none", "start", "drain"}]
    /\ psrc \in [Plays -> Processes]
    /\ expiring \subseteq Plays \X Processes
    /\ hproc \in [Plays -> Processes]
    /\ proc \in [Plays -> {"none", "run", "dying", "gone"}]

\* kill keeps handles, ledger and processes typed.
LEMMA KillTyped ==
    ASSUME TypeInv, NEW h, KillStream(h)
    PROVE  HandlesTyped'
<1>1. CASE h \in streams \ dead
    BY <1>1, DeregisterTyped, SignalTyped
    DEF KillStream, HandlesTyped, TypeInv, TypeOK, OccupancyTypeOK
<1>2. CASE h \notin streams \ dead
    BY <1>2 DEF KillStream, HandlesTyped, TypeInv, TypeOK, OccupancyTypeOK
<1> QED BY <1>1, <1>2

\* _park keeps handles, ledger and processes typed.
LEMMA ParkTyped ==
    ASSUME TypeInv, NEW h \in Plays, Park(h)
    PROVE  HandlesTyped'
BY DEF Park, HandlesTyped, TypeInv, TypeOK, OccupancyTypeOK, occupancyVars

\* The end of a pipe releases one slot, and signals the process.
LEMMA PipeEndedTyped == ASSUME TypeInv, NEW r \in Plays, PipeEnded(r) PROVE TypeInv'
<1>1. handle[r] \in Plays /\ macLocks \in [Macs -> SUBSET Plays]
    BY DEF TypeInv, TypeOK, OccupancyTypeOK
<1>2. proc' \in [Plays -> {"none", "run", "dying", "gone"}]
    BY SignalTyped DEF PipeEnded
<1>3. macLocks' \in [Macs -> SUBSET Plays]
  <2>1. CASE loc[r].cand # None
    <3>1. loc[r].cand \in Candidates BY <2>1 DEF TypeInv, TypeOK, Locals
    <3> QED BY <2>1, <3>1, ReleaseTyped DEF PipeEnded
  <2>2. CASE loc[r].cand = None
    BY <1>1, <2>2, LedgerUpdate DEF PipeEnded, HeldBy
  <2> QED BY <2>1, <2>2
<1>4. Goto(r, "reap") /\ UNCHANGED <<lease, handleVars, handle, regd, src, loc, gone, watch>>
    BY DEF PipeEnded
<1> QED
    BY <1>2, <1>3, <1>4
    DEF TypeInv, TypeOK, CandidateChosen, OccupancyTypeOK, handleVars, Goto, Pumping, Feeding
-----------------------------------------------------------------------------
(* Type correctness.                                                       *)

\* An attach keeps what it changes typed.
LEMMA AdoptTyped ==
    ASSUME TypeInv, NEW r \in Plays, NEW h \in Plays, Adopt(r, h)
    PROVE  /\ parked' \subseteq Plays
           /\ parker' \in [Plays -> {"none", "start", "drain"}]
           /\ src' \in [Plays -> Processes]
           /\ loc' \in [Plays -> Locals]
           /\ pc' = [pc EXCEPT ![r] = "send"]
           /\ CandidateChosen'
<1>1. PICK b \in BOOLEAN : loc' = [loc EXCEPT ![r].served = b] BY DEF Adopt
<1>2. [loc[r] EXCEPT !.served = b] \in Locals BY LocalsUpdate DEF TypeInv, TypeOK
<1>3. loc' \in [Plays -> Locals] BY <1>1, <1>2 DEF TypeInv, TypeOK
<1>4. pc' = [pc EXCEPT ![r] = "send"] BY DEF Adopt, Goto
<1>5. CandidateChosen' BY <1>1, <1>4 DEF TypeInv, TypeOK, CandidateChosen
<1> QED BY <1>3, <1>4, <1>5 DEF Adopt, TypeInv, TypeOK

\* An answer to the player gives its pump fresh locals.
LEMMA AnswerTyped == ASSUME TypeInv, NEW r \in Plays, Answer(r) PROVE TypeInv'
<1> USE NoneAssumption
    DEF TypeInv, TypeOK, CandidateChosen, OccupancyTypeOK, occupancyVars, handleVars, Goto,
        Opening, Unstarted, Pumping, Walking, Feeding, Closing
<1>1. loc' \in [Plays -> Locals] BY FreshTyped DEF Answer
<1> QED BY <1>1 DEF Answer

\* TypeInv is preserved by a request's steps up to its answer.
LEMMA OpenTyped ==
    ASSUME TypeInv, NEW r \in Plays, OpenStep(r) PROVE TypeInv'
<1> USE UserAssumption, LimitAssumption, ChainAssumption, BoundAssumption, NoneAssumption
    DEF TypeInv, TypeOK, HandlesTyped, CandidateChosen, OccupancyTypeOK, occupancyVars, handleVars,
        pumpVars, Goto, Processes, Opening, Unstarted, Pumping, Walking, Feeding, Closing
<1>1. CASE EnsureSlot(r)
    BY <1>1 DEF EnsureSlot
<1>2. CASE SlotRefused(r)
    BY <1>2 DEF SlotRefused
<1>3. CASE OpenFree(r)
    BY <1>3, AnswerTyped DEF OpenFree
<1>4. CASE NextIsFree(r)
    BY <1>4, AnswerTyped DEF NextIsFree
<1>5. CASE TookOver(r)
    BY <1>5, AnswerTyped DEF TookOver
<1>6. CASE StillBusy(r)
    BY <1>6 DEF StillBusy
<1>7. CASE OpenTimeout(r)
  <2>1. loc' \in [Plays -> Locals] BY <1>7, FreshTyped DEF OpenTimeout
  <2> QED BY <1>7, <2>1 DEF OpenTimeout
<1>8. ASSUME NEW h \in Plays, ZapBackTo(r, h) PROVE TypeInv'
  <2>1. CASE r \in Immediate BY <1>8, <2>1 DEF ZapBackTo
  <2>2. CASE r \notin Immediate
    <3>1. Adopt(r, h) BY <1>8, <2>2 DEF ZapBackTo
    <3>2. /\ handle' = [handle EXCEPT ![r] = h] /\ watch' = watch \cup {r}
          /\ UNCHANGED <<occupancyVars, streams, dead, psrc, expiring, fed, hproc, proc, regd,
                         gone>>
      BY <1>8 DEF ZapBackTo
    <3> HIDE DEF ZapBackTo
    <3> QED BY <3>1, <3>2, AdoptTyped
  <2> QED BY <2>1, <2>2
<1>9. ASSUME NEW h \in Plays, ZapBackDead(r, h) PROVE TypeInv'
    BY <1>9 DEF ZapBackDead
<1>10. ASSUME NEW h \in Plays, DropParked(r, h) PROVE TypeInv'
    BY <1>10, KillTyped DEF DropParked
<1>11. ASSUME NEW h \in Plays, WaitPreempt(r, h) PROVE TypeInv'
    BY <1>11, KillTyped DEF WaitPreempt
<1>12. ASSUME NEW c \in Candidates, WaitFor(r, c) PROVE TypeInv'
  <2> DEFINE l == [loc[r] EXCEPT !.cand = c, !.tried = @ \cup {c}]
  <2>1. l \in Locals BY LocalsUpdate
  <2>2. loc' = [loc EXCEPT ![r] = l] BY <1>12 DEF WaitFor
  <2>3. /\ Goto(r, "wait")
        /\ UNCHANGED <<occupancyVars, handleVars, proc, handle, regd, src, gone, watch>>
    BY <1>12 DEF WaitFor
  <2> HIDE DEF l
  <2> QED BY <2>1, <2>2, <2>3
<1> QED BY <1>1, <1>2, <1>3, <1>4, <1>5, <1>6, <1>7, <1>8, <1>9, <1>10, <1>11, <1>12 DEF OpenStep, TakeHeld

\* TypeInv is preserved by the walk over the chain.
LEMMA WalkTyped ==
    ASSUME TypeInv, NEW r \in Plays, WalkStep(r) PROVE TypeInv'
<1> USE UserAssumption, LimitAssumption, ChainAssumption, BoundAssumption, NoneAssumption
    DEF TypeInv, TypeOK, HandlesTyped, CandidateChosen, OccupancyTypeOK, occupancyVars, handleVars,
        pumpVars, Goto, Processes, Opening, Unstarted, Pumping, Walking, Feeding, Closing
<1>1. CASE Begin(r)
    BY <1>1 DEF Begin
<1>2. CASE Attach(r)
  <2>1. CASE Alive(hproc[handle[r]])
    <3>1. handle[r] \in Plays /\ Adopt(r, handle[r]) BY <1>2, <2>1 DEF Attach
    <3> QED BY <1>2, <3>1, AdoptTyped DEF Attach
  <2>2. CASE ~ Alive(hproc[handle[r]]) BY <1>2, <2>2 DEF Attach
  <2> QED BY <2>1, <2>2
<1>3. CASE PassGo(r)
    BY <1>3 DEF PassGo
<1>4. CASE WalkDead(r)
    BY <1>4 DEF WalkDead
<1>5. CASE WalkAgain(r)
  <2> DEFINE l == [loc[r] EXCEPT !.pass = @ + 1, !.tried = {}]
  <2>1. l \in Locals BY <1>5, LocalsUpdate, NextPass DEF WalkAgain
  <2>2. loc' = [loc EXCEPT ![r] = l] BY <1>5 DEF WalkAgain
  <2> QED BY <1>5, <2>1, <2>2 DEF WalkAgain, WalkedAll
<1>6. CASE WalkRestart(r)
  <2> DEFINE l == [loc[r] EXCEPT !.restarts = @ + 1, !.tried = {}, !.pass = 1, !.yielded = FALSE]
  <2>1. l \in Locals BY <1>6, LocalsUpdate, NextPass DEF WalkRestart
  <2>2. loc' = [loc EXCEPT ![r] = l] BY <1>6 DEF WalkRestart
  <2> QED BY <1>6, <2>1, <2>2 DEF WalkRestart, WalkedAll, FreshLocals
<1>7. CASE WalkOver(r)
    BY <1>7 DEF WalkOver
<1>8. CASE LinkFailed(r)
  <2> DEFINE l == [loc[r] EXCEPT !.tried = @ \cup {loc[r].cand}]
  <2>1. l \in Locals BY <1>8, LocalsUpdate, NextPass DEF LinkFailed
  <2>2. loc' = [loc EXCEPT ![r] = l] BY <1>8 DEF LinkFailed
  <2> QED BY <1>8, <2>1, <2>2 DEF LinkFailed
<1>9. CASE SourceFailed(r)
  <2> DEFINE t == {c \in Candidates : c[1] = loc[r].cand[1]}
             l == [loc[r] EXCEPT !.tried = @ \cup t]
  <2>1. t \in SUBSET Candidates OBVIOUS
  <2>2. l \in Locals BY <2>1, LocalsUpdate
  <2>3. loc' = [loc EXCEPT ![r] = l] BY <1>9 DEF SourceFailed
  <2>4. /\ Goto(r, "walk")
        /\ UNCHANGED <<occupancyVars, handleVars, proc, handle, regd, src, gone, watch>>
    BY <1>9 DEF SourceFailed
  <2> HIDE DEF t, l
  <2> QED BY <2>2, <2>3, <2>4
<1>10. CASE LinkReady(r)
  <2>1. loc[r].cand[2] \in Macs BY <1>10 DEF LinkReady, Candidates
  <2>2. macLocks' \in [Macs -> SUBSET Plays]
    BY <1>10, <2>1, LedgerUpdate DEF LinkReady
  <2>3. /\ src' \in [Plays -> Processes] /\ psrc' \in [Plays -> Processes]
        /\ hproc' \in [Plays -> Processes]
    BY <1>10 DEF LinkReady
  <2> QED BY <1>10, <2>2, <2>3 DEF LinkReady
<1>11. CASE NoData(r)
  <2> DEFINE t == IF Spends(loc[r].cand) THEN {loc[r].cand}
                  ELSE {c \in Candidates : c[1] = loc[r].cand[1]}
             l == [loc[r] EXCEPT !.tried = @ \cup t]
  <2>1. loc[r].cand \in Candidates BY <1>11 DEF NoData
  <2>2. t \in SUBSET Candidates BY <2>1
  <2>3. l \in Locals BY <2>2, LocalsUpdate
  <2>4. loc' = [loc EXCEPT ![r] = l] BY <1>11 DEF NoData
  <2>5. /\ ReleaseCandidate(r) /\ proc' = [proc EXCEPT ![r] = "gone"] /\ Goto(r, "walk")
        /\ UNCHANGED <<lease, handleVars, handle, regd, src, gone, watch>>
    BY <1>11 DEF NoData
  <2> HIDE DEF t, l
  <2> QED BY <2>1, <2>3, <2>4, <2>5, ReleaseTyped
<1>12. CASE TemplateBroken(r)
    BY <1>12, ReleaseTyped DEF TemplateBroken
<1>13. CASE FirstByte(r)
  <2> DEFINE l == [loc[r] EXCEPT !.yielded = TRUE, !.served = TRUE]
  <2>1. l \in Locals BY <1>13, LocalsUpdate, NextPass DEF FirstByte
  <2>2. loc' = [loc EXCEPT ![r] = l] BY <1>13 DEF FirstByte
  <2> QED BY <1>13, <2>1, <2>2 DEF FirstByte
<1>14. ASSUME NEW c \in Candidates, WalkBusy(r, c) PROVE TypeInv'
  <2> DEFINE l == [loc[r] EXCEPT !.tried = @ \cup {c}]
  <2>1. l \in Locals BY <1>14, LocalsUpdate, NextPass DEF WalkBusy
  <2>2. loc' = [loc EXCEPT ![r] = l] BY <1>14 DEF WalkBusy
  <2> QED BY <1>14, <2>1, <2>2 DEF WalkBusy, Cands
<1>15. ASSUME NEW c \in Candidates, WalkPick(r, c) PROVE TypeInv'
  <2> DEFINE l == [loc[r] EXCEPT !.cand = c]
  <2>1. l \in Locals BY <1>15, LocalsUpdate, NextPass DEF WalkPick
  <2>2. loc' = [loc EXCEPT ![r] = l] BY <1>15 DEF WalkPick
  <2> QED BY <1>15, <2>1, <2>2 DEF WalkPick, Cands
<1>16. ASSUME NEW h \in Plays, PassPreempt(r, h) PROVE TypeInv'
    BY <1>16, KillTyped DEF PassPreempt
<1>17. CASE PassWait(r)
    BY <1>17 DEF PassWait
<1> QED BY <1>1, <1>2, <1>3, <1>4, <1>5, <1>6, <1>7, <1>8, <1>9, <1>10, <1>11,
        <1>12, <1>13, <1>14, <1>15, <1>16, <1>17 DEF WalkStep, Cands

\* TypeInv is preserved by feeding the player.
LEMMA FeedTyped ==
    ASSUME TypeInv, NEW r \in Plays, FeedStep(r) PROVE TypeInv'
<1> USE UserAssumption, LimitAssumption, ChainAssumption, BoundAssumption, NoneAssumption
    DEF TypeInv, TypeOK, HandlesTyped, CandidateChosen, OccupancyTypeOK, occupancyVars, handleVars,
        pumpVars, Goto, Processes, Opening, Unstarted, Pumping, Walking, Feeding, Closing
<1>1. CASE ReadMore(r)
    BY <1>1 DEF ReadMore
<1>2. CASE ReadCrash(r)
    BY <1>2 DEF ReadCrash
<1>3. CASE ReadNothing(r)
    BY <1>3, PipeEndedTyped DEF ReadNothing
<1>4. CASE Chunk(r)
  <2>1. [loc[r] EXCEPT !.served = TRUE] \in Locals BY LocalsUpdate
  <2> QED BY <1>4, <2>1 DEF Chunk
<1>5. CASE ReadEnded(r)
    BY <1>5, PipeEndedTyped DEF ReadEnded
<1>6. CASE NextCandidate(r)
  <2>1. CASE loc[r].cand = None BY <1>6, <2>1 DEF NextCandidate
  <2>2. CASE loc[r].cand # None
    <3> DEFINE l == [loc[r] EXCEPT !.tried = @ \cup {loc[r].cand}]
    <3>1. l \in Locals BY <2>2, LocalsUpdate
    <3>2. loc' = [loc EXCEPT ![r] = l] BY <1>6, <2>2 DEF NextCandidate
    <3> HIDE DEF l
    <3> QED BY <1>6, <2>2, <3>1, <3>2 DEF NextCandidate
  <2> QED BY <2>1, <2>2
<1> QED BY <1>1, <1>2, <1>3, <1>4, <1>5, <1>6 DEF FeedStep

\* TypeInv is preserved by the finally.
LEMMA FinishTyped ==
    ASSUME TypeInv, NEW r \in Plays, FinishStep(r) PROVE TypeInv'
<1> USE UserAssumption, LimitAssumption, ChainAssumption, BoundAssumption, NoneAssumption
    DEF TypeInv, TypeOK, HandlesTyped, CandidateChosen, OccupancyTypeOK, occupancyVars, handleVars,
        pumpVars, Goto, Processes, Opening, Unstarted, Pumping, Walking, Feeding, Closing
<1>1. CASE FinishNothing(r)
    BY <1>1 DEF FinishNothing
<1>2. CASE FinishPark(r)
    BY <1>2 DEF FinishPark
<1>3. CASE FinishKill(r)
    BY <1>3, SignalTyped DEF FinishKill
<1>4. CASE FinishClosed(r)
    BY <1>4, DeregisterTyped DEF FinishClosed
<1>5. CASE Tail(r)
  <2> DEFINE l == [FreshLocals EXCEPT !.cand = loc[r].cand]
  <2>1. l \in Locals BY <1>5, LocalsUpdate, NextPass DEF Tail
  <2>2. loc' = [loc EXCEPT ![r] = l] BY <1>5 DEF Tail
  <2> QED BY <1>5, <2>1, <2>2 DEF Tail, DropLocksOf, FreshLocals
<1>6. CASE Parked(r)
  <2>1. CASE CanPark(handle[r]) BY <1>6, <2>1, ParkTyped DEF Parked
  <2>2. CASE ~ CanPark(handle[r]) BY <1>6, <2>2 DEF Parked
  <2> QED BY <2>1, <2>2
<1> QED BY <1>1, <1>2, <1>3, <1>4, <1>5, <1>6 DEF FinishStep

\* TypeInv is preserved by the tasks beside the request, and by the environment.
LEMMA OtherTyped ==
    ASSUME TypeInv, NEW r \in Plays,
           Cancel(r) \/ GuardTimeout(r) \/ ParkerStep(r) \/ WatchStep(r) \/ ReapDead(r)
             \/ StopStream(r) \/ Disconnect(r) \/ ProcessGone(r)
    PROVE  TypeInv'
<1> USE UserAssumption, LimitAssumption, ChainAssumption, BoundAssumption, NoneAssumption
    DEF TypeInv, TypeOK, HandlesTyped, CandidateChosen, OccupancyTypeOK, occupancyVars, handleVars,
        pumpVars, Goto, Processes, Opening, Unstarted, Pumping, Walking, Feeding, Closing
<1>1. CASE Cancel(r)
    BY <1>1 DEF Cancel
<1>2. CASE GuardTimeout(r)
    BY <1>2 DEF GuardTimeout
<1>3. CASE ParkerStart(r)
    BY <1>3, SignalTyped DEF ParkerStart
<1>4. CASE ParkerExpire(r)
    BY <1>4, SignalTyped DEF ParkerExpire
<1>5. CASE ParkerClosed(r)
    BY <1>5, DeregisterTyped DEF ParkerClosed
<1>6. CASE WatchEnds(r)
    BY <1>6 DEF WatchEnds
<1>7. CASE ClientLeft(r)
    BY <1>7, ParkTyped, KillTyped DEF ClientLeft
<1>8. CASE ReapDead(r)
    BY <1>8, DeregisterTyped DEF ReapDead
<1>9. CASE StopStream(r)
    BY <1>9, KillTyped DEF StopStream
<1>10. CASE Disconnect(r)
    BY <1>10 DEF Disconnect
<1>11. CASE ProcessGone(r)
    BY <1>11 DEF ProcessGone
<1> QED BY <1>1, <1>2, <1>3, <1>4, <1>5, <1>6, <1>7, <1>8, <1>9, <1>10, <1>11 DEF ParkerStep, WatchStep

\* The initial state is typed.
LEMMA InitTyped == Init => TypeInv
BY UserAssumption, FirstValues, NoneAssumption, ChainAssumption
   DEF Init, OccupancyInit, TypeInv, TypeOK, CandidateChosen, OccupancyTypeOK, Processes,
       FreshLocals, Locals

\* Every step preserves TypeInv.
LEMMA StepTyped == TypeInv /\ [Next]_vars => TypeInv'
<1> SUFFICES ASSUME TypeInv, [Next]_vars PROVE TypeInv' OBVIOUS
<1>1. CASE UNCHANGED vars
    BY <1>1 DEF TypeInv, TypeOK, CandidateChosen, OccupancyTypeOK, vars, occupancyVars,
        handleVars, pumpVars
<1>2. ASSUME NEW r \in Plays, PlayStep(r) PROVE TypeInv'
    BY <1>2, OpenTyped, WalkTyped, FeedTyped, FinishTyped DEF PlayStep
<1>3. CASE LeaseStep
  <2>1. lease' \in [Macs -> Users \cup {Anon, Free}]
    BY <1>3, UserAssumption, ChainAssumption
    DEF LeaseStep, LeaseMac, LeaseOver, TypeInv, TypeOK, OccupancyTypeOK
  <2>2. UNCHANGED <<macLocks, handleVars, proc, pumpVars, gone, watch>>
    BY <1>3 DEF LeaseStep, LeaseMac, LeaseOver
  <2> QED BY <2>1, <2>2 DEF TypeInv, TypeOK, OccupancyTypeOK, CandidateChosen, handleVars, pumpVars
<1> QED BY <1>1, <1>2, <1>3, OtherTyped DEF Next

\* Every variable of the stream manager keeps its type, and a pump that awaits a
\* link or a first byte has chosen a candidate (StreamManager, all handlers).
THEOREM TypeCorrect == Spec => []TypeInv
BY InitTyped, StepTyped, PTL DEF Spec

\* TypeOK, the invariant the runs check, holds of every behaviour.
THEOREM StreamTypeCorrect == Spec => []TypeOK
BY TypeCorrect, PTL DEF TypeInv

-----------------------------------------------------------------------------
(* Who gives back what.                                                    *)

\* What a finally relies on when it asks for h.proc: a registered stream had one.
RegisteredHasProcess == \A h \in streams : hproc[h] # None

\* Only a kill or a deregister takes a registered stream out, and both mark it.
RegisteredUntilDead ==
    \A r \in regd : handle[r] \in streams \cup dead /\ pc[r] \in Pumping \cup {"end"}

\* A park that was asked for may fail only because the pipe ended or was killed.
ParkingWasFed == \A r \in Plays : pc[r] = "parking" => Linger /\ handle[r] \in fed

\* A request pumps a handle of its own user.
OwnHandle == \A r \in Plays : Mine(handle[r], r)

\* The facts that are inductive together.
Owned == /\ LocksAccountedFor
         /\ ParkedIsDrained
         /\ RegisteredHasProcess
         /\ RegisteredUntilDead
         /\ ParkingWasFed
         /\ OwnHandle
         /\ RegisteredHasOwner

OtherStep(r) ==
    \/ Cancel(r) \/ GuardTimeout(r) \/ ParkerStep(r) \/ WatchStep(r)
    \/ ReapDead(r) \/ StopStream(r) \/ Disconnect(r) \/ ProcessGone(r)
-----------------------------------------------------------------------------
(* Every step keeps it.                                                      *)

\* A kill by a request that does not pump yet, or that goes on walking.
LEMMA OwnedKill ==
    ASSUME TypeOK, Owned, NEW r \in Plays, NEW h \in Plays, KillStream(h),
           NEW place \in Opening \cup Walking, Goto(r, place),
           pc[r] \in Opening \cup Walking, place \in Walking <=> pc[r] \in Walking,
           UNCHANGED <<handle, regd, src, loc, gone, watch>>
    PROVE  Owned'
<1> USE NoneAssumption
    DEF TypeOK, OccupancyTypeOK, Owned, Alive, LocksAccountedFor, ParkedIsDrained, RegisteredHasProcess,
        RegisteredUntilDead, ParkingWasFed, OwnHandle, RegisteredHasOwner, Goto, Opening,
        Unstarted, Pumping, Walking, Feeding, Closing, Processes
<1>1. CASE h \in streams \ dead
  <2> USE <1>1 DEF KillStream, Deregister, DropLocksOf, Signal, Alive
  <2>1. ParkedIsDrained' /\ RegisteredHasProcess' OBVIOUS
  <2>2. RegisteredUntilDead' OBVIOUS
  <2>3. ParkingWasFed' /\ OwnHandle' OBVIOUS
  <2>4. LocksAccountedFor' OBVIOUS
  <2>5. RegisteredHasOwner' OBVIOUS
  <2> QED BY <2>1, <2>2, <2>3, <2>4, <2>5
<1>2. CASE h \notin streams \ dead
    BY <1>2 DEF KillStream, Alive
<1> QED BY <1>1, <1>2

\* A pump that attaches owns what the parker held.
LEMMA AdoptOwned ==
    ASSUME TypeOK, RegisteredHasOwner, NEW r \in Plays, NEW h \in Plays, Adopt(r, h),
           handle' = [handle EXCEPT ![r] = h], pc[r] \in {"open", "attach"},
           UNCHANGED <<streams, dead, expiring, hproc, proc>>
    PROVE  RegisteredHasOwner'
<1>1. /\ handle'[r] = h /\ pc'[r] = "send" /\ parked' = parked \ {h}
      /\ \A q \in Plays : q # r => handle'[q] = handle[q] /\ pc'[q] = pc[q]
    BY DEF Adopt, Goto, TypeOK
<1>2. "send" \in Pumping \ {"tail"} /\ pc[r] \notin Pumping
    BY DEF Pumping, Walking, Feeding, Closing
<1>3. \A p : Alive(p)' <=> Alive(p) BY DEF Alive
<1> SUFFICES ASSUME NEW g \in streams, g \notin dead, Alive(hproc[g]), g \notin parked',
                    ~ \E e \in expiring : e[1] = g
             PROVE  \E q \in Plays : handle'[q] = g /\ pc'[q] \in Pumping \ {"tail"}
    BY <1>3 DEF RegisteredHasOwner
<1>4. CASE g = h BY <1>1, <1>2, <1>4
<1>5. CASE g # h BY <1>1, <1>2, <1>5 DEF RegisteredHasOwner
<1> QED BY <1>4, <1>5

\* Owned is preserved by a request's steps up to its answer.
LEMMA OwnedOpen ==
    ASSUME TypeOK, Owned, NEW r \in Plays, OpenStep(r) PROVE Owned'
<1> USE NoneAssumption
    DEF TypeOK, OccupancyTypeOK, Owned, Alive, LocksAccountedFor, ParkedIsDrained, RegisteredHasProcess,
        RegisteredUntilDead, ParkingWasFed, OwnHandle, RegisteredHasOwner, occupancyVars, handleVars, pumpVars, Goto, Opening, Unstarted,
        Pumping, Walking, Feeding, Closing, Processes
<1>1. CASE EnsureSlot(r) BY <1>1 DEF EnsureSlot
<1>2. CASE SlotRefused(r) BY <1>2 DEF SlotRefused
<1>3. CASE OpenFree(r) BY <1>3 DEF OpenFree, Answer
<1>4. CASE NextIsFree(r) BY <1>4 DEF NextIsFree, Answer
<1>5. CASE TookOver(r) BY <1>5 DEF TookOver, Answer
<1>6. CASE StillBusy(r) BY <1>6 DEF StillBusy
<1>7. CASE OpenTimeout(r)
  <2> USE <1>7 DEF OpenTimeout
  <2>1. ParkedIsDrained' /\ RegisteredHasProcess' OBVIOUS
  <2>2. RegisteredUntilDead' OBVIOUS
  <2>3. ParkingWasFed' /\ OwnHandle' OBVIOUS
  <2>4. LocksAccountedFor' OBVIOUS
  <2>5. RegisteredHasOwner' OBVIOUS
  <2> QED BY <2>1, <2>2, <2>3, <2>4, <2>5
<1>8. ASSUME NEW h \in Plays, ZapBackTo(r, h) PROVE Owned'
  <2> USE <1>8 DEF ZapBackTo, Adopt, ZapBack, Mine
  <2>1. ParkedIsDrained' /\ RegisteredHasProcess' OBVIOUS
  <2>2. RegisteredUntilDead' OBVIOUS
  <2>3. ParkingWasFed' /\ OwnHandle' OBVIOUS
  <2>4. LocksAccountedFor' OBVIOUS
  <2>5. RegisteredHasOwner'
    <3>1. CASE r \in Immediate BY <3>1
    <3>2. CASE r \notin Immediate BY <3>2, AdoptOwned
    <3> QED BY <3>1, <3>2
  <2> QED BY <2>1, <2>2, <2>3, <2>4, <2>5
<1>9. ASSUME NEW h \in Plays, ZapBackDead(r, h) PROVE Owned'
    BY <1>9 DEF ZapBackDead, ZapBack, Mine
<1>10. ASSUME NEW h \in Plays, DropParked(r, h) PROVE Owned'
  <2>1. KillStream(h) /\ Goto(r, "drop") /\ pc[r] \in Opening
    BY <1>10 DEF DropParked, Blocked
  <2>2. UNCHANGED <<handle, regd, src, loc, gone, watch>> BY <1>10 DEF DropParked
  <2> HIDE DEF Owned, TypeOK, Goto
  <2> QED BY <2>1, <2>2, OwnedKill
<1>11. ASSUME NEW h \in Plays, WaitPreempt(r, h) PROVE Owned'
  <2>1. KillStream(h) /\ Goto(r, "took") /\ pc[r] \in Opening BY <1>11 DEF WaitPreempt
  <2>2. UNCHANGED <<handle, regd, src, loc, gone, watch>> BY <1>11 DEF WaitPreempt
  <2> HIDE DEF Owned, TypeOK, Goto
  <2> QED BY <2>1, <2>2, OwnedKill
<1>12. ASSUME NEW c \in Candidates, WaitFor(r, c) PROVE Owned' BY <1>12 DEF WaitFor, Blocked
<1> QED BY <1>1, <1>2, <1>3, <1>4, <1>5, <1>6, <1>7, <1>8, <1>9, <1>10, <1>11, <1>12 DEF OpenStep, TakeHeld

\* Owned is preserved by the walk over the chain.
LEMMA OwnedWalk ==
    ASSUME TypeOK, Owned, NEW r \in Plays, WalkStep(r) PROVE Owned'
<1> USE NoneAssumption
    DEF TypeOK, OccupancyTypeOK, Owned, Alive, LocksAccountedFor, ParkedIsDrained, RegisteredHasProcess,
        RegisteredUntilDead, ParkingWasFed, OwnHandle, RegisteredHasOwner, occupancyVars, handleVars, pumpVars, Goto, Opening, Unstarted,
        Pumping, Walking, Feeding, Closing, Processes
<1>1. CASE Begin(r) BY <1>1 DEF Begin
<1>2. CASE Attach(r)
  <2> USE <1>2 DEF Attach, Adopt
  <2>1. ParkedIsDrained' /\ RegisteredHasProcess' OBVIOUS
  <2>2. RegisteredUntilDead' OBVIOUS
  <2>3. ParkingWasFed' /\ OwnHandle' OBVIOUS
  <2>4. LocksAccountedFor' OBVIOUS
  <2>5. RegisteredHasOwner'
    <3>1. CASE Alive(hproc[handle[r]])
      <4>1. handle[r] \in Plays /\ handle' = [handle EXCEPT ![r] = handle[r]] BY <3>1
      <4> QED BY <3>1, <4>1, AdoptOwned
    <3>2. CASE ~ Alive(hproc[handle[r]]) BY <3>2
    <3> QED BY <3>1, <3>2
  <2> QED BY <2>1, <2>2, <2>3, <2>4, <2>5
<1>3. CASE PassGo(r) BY <1>3 DEF PassGo
<1>4. CASE WalkDead(r) BY <1>4 DEF WalkDead
<1>5. CASE WalkAgain(r) BY <1>5 DEF WalkAgain, WalkedAll
<1>6. CASE WalkRestart(r) BY <1>6 DEF WalkRestart, WalkedAll
<1>7. CASE WalkOver(r) BY <1>7 DEF WalkOver
<1>8. CASE LinkFailed(r) BY <1>8 DEF LinkFailed
<1>9. CASE SourceFailed(r) BY <1>9 DEF SourceFailed, Candidates
<1>10. CASE LinkReady(r)
  <2> USE <1>10 DEF LinkReady, LockMac
  <2>1. ParkedIsDrained' /\ RegisteredHasProcess' OBVIOUS
  <2>2. RegisteredUntilDead' OBVIOUS
  <2>3. ParkingWasFed' /\ OwnHandle' OBVIOUS
  <2>4. LocksAccountedFor' OBVIOUS
  <2>5. RegisteredHasOwner' OBVIOUS
  <2> QED BY <2>1, <2>2, <2>3, <2>4, <2>5
<1>11. CASE NoData(r) BY <1>11 DEF NoData, ReleaseCandidate, UnlockMac
<1>12. CASE TemplateBroken(r) BY <1>12 DEF TemplateBroken, ReleaseCandidate, UnlockMac
<1>13. CASE FirstByte(r)
  <2> USE <1>13 DEF FirstByte
  <2>1. ParkedIsDrained' /\ RegisteredHasProcess' OBVIOUS
  <2>2. RegisteredUntilDead' OBVIOUS
  <2>3. ParkingWasFed' /\ OwnHandle' OBVIOUS
  <2>4. LocksAccountedFor' OBVIOUS
  <2>5. RegisteredHasOwner' OBVIOUS
  <2> QED BY <2>1, <2>2, <2>3, <2>4, <2>5
<1>14. ASSUME NEW c \in Candidates, WalkBusy(r, c) PROVE Owned' BY <1>14 DEF WalkBusy, Cands
<1>15. ASSUME NEW c \in Candidates, WalkPick(r, c) PROVE Owned' BY <1>15 DEF WalkPick, Cands
<1>16. ASSUME NEW h \in Plays, PassPreempt(r, h) PROVE Owned'
  <2>1. KillStream(h) /\ Goto(r, "passWait") /\ pc[r] \in Walking BY <1>16 DEF PassPreempt
  <2>2. UNCHANGED <<handle, regd, src, loc, gone, watch>> BY <1>16 DEF PassPreempt
  <2> HIDE DEF Owned, TypeOK, Goto
  <2> QED BY <2>1, <2>2, OwnedKill
<1>17. CASE PassWait(r) BY <1>17 DEF PassWait
<1> QED BY <1>1, <1>2, <1>3, <1>4, <1>5, <1>6, <1>7, <1>8, <1>9, <1>10, <1>11,
        <1>12, <1>13, <1>14, <1>15, <1>16, <1>17 DEF WalkStep, Cands

\* The end of a pipe takes no slot.
LEMMA PipeEndedFrees ==
    ASSUME TypeOK, NEW r \in Plays, PipeEnded(r)
    PROVE  \A m \in Macs : macLocks'[m] \subseteq macLocks[m]
<1> USE DEF PipeEnded, UnlockMac, TypeOK, OccupancyTypeOK
<1>1. CASE loc[r].cand # None BY <1>1 DEF ReleaseCandidate
<1>2. CASE loc[r].cand = None BY <1>2 DEF HeldBy
<1> QED BY <1>1, <1>2

\* Owned is preserved by feeding the player.
LEMMA OwnedFeed ==
    ASSUME TypeOK, Owned, NEW r \in Plays, FeedStep(r) PROVE Owned'
<1> USE NoneAssumption
    DEF TypeOK, OccupancyTypeOK, Owned, Alive, LocksAccountedFor, ParkedIsDrained, RegisteredHasProcess,
        RegisteredUntilDead, ParkingWasFed, OwnHandle, RegisteredHasOwner, occupancyVars, handleVars, pumpVars, Goto, Opening, Unstarted,
        Pumping, Walking, Feeding, Closing, Processes
<1>1. CASE ReadMore(r) BY <1>1 DEF ReadMore
<1>2. CASE ReadCrash(r) BY <1>2 DEF ReadCrash
<1>3. CASE ReadNothing(r)
  <2> USE <1>3 DEF ReadNothing, PipeEnded, ReleaseCandidate, UnlockMac, Signal, HeldBy
  <2>1. ParkedIsDrained' /\ RegisteredHasProcess' OBVIOUS
  <2>2. RegisteredUntilDead' OBVIOUS
  <2>3. ParkingWasFed' /\ OwnHandle' OBVIOUS
  <2>4. LocksAccountedFor'
    <3>1. \A m \in Macs : macLocks'[m] \subseteq macLocks[m] BY PipeEndedFrees
    <3>2. /\ pc'[r] = "reap" /\ \A q \in Plays : q # r => pc'[q] = pc[q]
          /\ UNCHANGED <<streams, parked, expiring, handle, regd>>
      OBVIOUS
    <3> QED BY <3>1, <3>2
  <2>5. RegisteredHasOwner' OBVIOUS
  <2> QED BY <2>1, <2>2, <2>3, <2>4, <2>5
<1>4. CASE Chunk(r) BY <1>4 DEF Chunk
<1>5. CASE ReadEnded(r)
  <2> USE <1>5 DEF ReadEnded, PipeEnded, ReleaseCandidate, UnlockMac, Signal, HeldBy
  <2>1. ParkedIsDrained' /\ RegisteredHasProcess' OBVIOUS
  <2>2. RegisteredUntilDead' OBVIOUS
  <2>3. ParkingWasFed' /\ OwnHandle' OBVIOUS
  <2>4. LocksAccountedFor'
    <3>1. \A m \in Macs : macLocks'[m] \subseteq macLocks[m] BY PipeEndedFrees
    <3>2. /\ pc'[r] = "reap" /\ \A q \in Plays : q # r => pc'[q] = pc[q]
          /\ UNCHANGED <<streams, parked, expiring, handle, regd>>
      OBVIOUS
    <3> QED BY <3>1, <3>2
  <2>5. RegisteredHasOwner' OBVIOUS
  <2> QED BY <2>1, <2>2, <2>3, <2>4, <2>5
<1>6. CASE NextCandidate(r) BY <1>6 DEF NextCandidate
<1> QED BY <1>1, <1>2, <1>3, <1>4, <1>5, <1>6 DEF FeedStep

\* Owned is preserved by the finally.
LEMMA OwnedFinish ==
    ASSUME TypeOK, Owned, NEW r \in Plays, FinishStep(r) PROVE Owned'
<1> USE NoneAssumption
    DEF TypeOK, OccupancyTypeOK, Owned, Alive, LocksAccountedFor, ParkedIsDrained, RegisteredHasProcess,
        RegisteredUntilDead, ParkingWasFed, OwnHandle, RegisteredHasOwner, occupancyVars, handleVars, pumpVars, Goto, Opening, Unstarted,
        Pumping, Walking, Feeding, Closing, Processes
<1>1. CASE FinishNothing(r) BY <1>1 DEF FinishNothing, MustFinish
<1>2. CASE FinishPark(r) BY <1>2 DEF FinishPark, CanPark
<1>3. CASE FinishKill(r) BY <1>3 DEF FinishKill, Signal, MustFinish, CanPark
<1>4. CASE FinishClosed(r) BY <1>4 DEF FinishClosed, Deregister, DropLocksOf
<1>5. CASE Tail(r)
  <2> USE <1>5 DEF Tail, DropLocksOf
  <2>1. ParkedIsDrained' /\ RegisteredHasProcess' OBVIOUS
  <2>2. RegisteredUntilDead' OBVIOUS
  <2>3. ParkingWasFed' /\ OwnHandle' OBVIOUS
  <2>4. LocksAccountedFor' OBVIOUS
  <2>5. RegisteredHasOwner' OBVIOUS
  <2> QED BY <2>1, <2>2, <2>3, <2>4, <2>5
<1>6. CASE Parked(r)
  <2>1. CASE CanPark(handle[r])
    <3> USE <1>6, <2>1 DEF Parked, CanPark, Park
    <3>1. ParkedIsDrained' /\ RegisteredHasProcess' OBVIOUS
    <3>2. RegisteredUntilDead' OBVIOUS
    <3>3. ParkingWasFed' /\ OwnHandle' OBVIOUS
    <3>4. LocksAccountedFor' OBVIOUS
    <3>5. RegisteredHasOwner' OBVIOUS
    <3> QED BY <3>1, <3>2, <3>3, <3>4, <3>5
  <2>2. CASE ~ CanPark(handle[r]) BY <1>6, <2>2 DEF Parked, CanPark, Alive
  <2> QED BY <2>1, <2>2
<1> QED BY <1>1, <1>2, <1>3, <1>4, <1>5, <1>6 DEF FinishStep

\* Owned is preserved by the tasks beside the request, and the environment.
LEMMA OwnedOther ==
    ASSUME TypeOK, Owned, NEW r \in Plays, OtherStep(r) PROVE Owned'
<1> USE NoneAssumption
    DEF TypeOK, OccupancyTypeOK, Owned, Alive, LocksAccountedFor, ParkedIsDrained, RegisteredHasProcess,
        RegisteredUntilDead, ParkingWasFed, OwnHandle, RegisteredHasOwner, occupancyVars, handleVars, pumpVars, Goto, Opening, Unstarted,
        Pumping, Walking, Feeding, Closing, Processes
<1>1. CASE Cancel(r) BY <1>1 DEF Cancel
<1>2. CASE GuardTimeout(r) BY <1>2 DEF GuardTimeout
<1>3. CASE ParkerStart(r)
  <2>1. <<r, psrc[r]>> \in expiring' \/ UNCHANGED <<expiring, parked>>
    BY <1>3 DEF ParkerStart
  <2>2. <<r, psrc[r]>>[1] = r OBVIOUS
  <2>3. UNCHANGED <<macLocks, streams, dead, pc, handle, regd, hproc, fed>> /\ parked \ {r} \subseteq parked'
          /\ expiring \subseteq expiring'
    BY <1>3 DEF ParkerStart, occupancyVars, pumpVars
  <2>4. ParkedIsDrained' BY <1>3 DEF ParkerStart, ParkedIsDrained
  <2>5. \A p \in Plays : Alive(p)' => Alive(p) BY <1>3 DEF ParkerStart, Signal
  <2>6. LocksAccountedFor' BY <2>1, <2>2, <2>3
  <2>7. RegisteredHasOwner'
    <3> SUFFICES ASSUME NEW h \in streams, h \notin dead, Alive(hproc[h])', h \notin parked',
                        \A e \in expiring' : e[1] # h
                 PROVE  \E q \in Plays : handle[q] = h /\ pc[q] \in Pumping \ {"tail"}
      BY <2>3
    <3>1. Alive(hproc[h]) BY <2>3, <2>5
    <3>2. h # r \/ h \notin parked BY <2>1, <2>2
    <3> QED BY <2>3, <3>1, <3>2
  <2>8. RegisteredHasProcess' /\ RegisteredUntilDead' /\ ParkingWasFed' /\ OwnHandle' BY <2>3
  <2> QED BY <2>4, <2>6, <2>7, <2>8
<1>4. CASE ParkerExpire(r)
  <2>1. <<r, psrc[r]>> \in expiring' \/ UNCHANGED <<expiring, parked>>
    BY <1>4 DEF ParkerExpire
  <2>2. <<r, psrc[r]>>[1] = r OBVIOUS
  <2>3. UNCHANGED <<macLocks, streams, dead, pc, handle, regd, hproc, fed>> /\ parked \ {r} \subseteq parked'
          /\ expiring \subseteq expiring'
    BY <1>4 DEF ParkerExpire, occupancyVars, pumpVars
  <2>4. ParkedIsDrained' BY <1>4 DEF ParkerExpire, ParkedIsDrained
  <2>5. \A p \in Plays : Alive(p)' => Alive(p) BY <1>4 DEF ParkerExpire, Signal
  <2>6. LocksAccountedFor' BY <2>1, <2>2, <2>3
  <2>7. RegisteredHasOwner'
    <3> SUFFICES ASSUME NEW h \in streams, h \notin dead, Alive(hproc[h])', h \notin parked',
                        \A e \in expiring' : e[1] # h
                 PROVE  \E q \in Plays : handle[q] = h /\ pc[q] \in Pumping \ {"tail"}
      BY <2>3
    <3>1. Alive(hproc[h]) BY <2>3, <2>5
    <3>2. h # r \/ h \notin parked BY <2>1, <2>2
    <3> QED BY <2>3, <3>1, <3>2
  <2>8. RegisteredHasProcess' /\ RegisteredUntilDead' /\ ParkingWasFed' /\ OwnHandle' BY <2>3
  <2> QED BY <2>4, <2>6, <2>7, <2>8
<1>5. CASE ParkerClosed(r) BY <1>5 DEF ParkerClosed, Deregister, DropLocksOf
<1>6. CASE WatchEnds(r) BY <1>6 DEF WatchEnds
<1>7. CASE ClientLeft(r)
    BY <1>7 DEF ClientLeft, Park, CanPark, Alive, KillStream, Deregister,
        DropLocksOf, Signal
<1>8. CASE ReapDead(r) BY <1>8 DEF ReapDead, Deregister, DropLocksOf
<1>9. CASE StopStream(r) BY <1>9 DEF StopStream, KillStream, Deregister, DropLocksOf, Signal
<1>10. CASE Disconnect(r) BY <1>10 DEF Disconnect
<1>11. CASE ProcessGone(r) BY <1>11 DEF ProcessGone
<1> QED BY <1>1, <1>2, <1>3, <1>4, <1>5, <1>6, <1>7, <1>8, <1>9, <1>10, <1>11 DEF OtherStep, ParkerStep, WatchStep

\* Every step preserves Owned.
LEMMA OwnedStep == TypeOK /\ Owned /\ [Next]_vars => Owned'
<1> SUFFICES ASSUME TypeOK, Owned, [Next]_vars PROVE Owned' OBVIOUS
<1>1. CASE UNCHANGED vars
    BY <1>1 DEF Owned, LocksAccountedFor, ParkedIsDrained, RegisteredHasProcess,
        RegisteredUntilDead, ParkingWasFed, OwnHandle, RegisteredHasOwner, Alive, vars, occupancyVars, handleVars, pumpVars
<1>2. ASSUME NEW r \in Plays, PlayStep(r) PROVE Owned'
    BY <1>2, OwnedOpen, OwnedWalk, OwnedFeed, OwnedFinish DEF PlayStep
<1>3. ASSUME NEW r \in Plays, OtherStep(r) PROVE Owned'
    BY <1>3, OwnedOther
<1>4. CASE LeaseStep
  <2>1. UNCHANGED <<macLocks, handleVars, proc, pumpVars>>
    BY <1>4 DEF LeaseStep, LeaseMac, LeaseOver
  <2> QED BY <2>1 DEF Owned, LocksAccountedFor, ParkedIsDrained, RegisteredHasProcess,
        RegisteredUntilDead, ParkingWasFed, OwnHandle, RegisteredHasOwner, Alive, handleVars, pumpVars
<1> QED BY <1>1, <1>2, <1>3, <1>4 DEF Next, OtherStep

\* Nothing is owned in the initial state.
LEMMA OwnedInit == Init => Owned
BY DEF Init, OccupancyInit, Owned, LocksAccountedFor, ParkedIsDrained, RegisteredHasProcess,
    RegisteredUntilDead, ParkingWasFed, OwnHandle, Mine, RegisteredHasOwner

\* The invariant of this module.
THEOREM StreamsOwned == Spec => []Owned
BY OwnedInit, OwnedStep, StreamTypeCorrect, PTL DEF Spec

\* For every setting of the constants, a slot taken on a MAC always has a registered
\* stream, a parker or a pump behind it that gives it back.
THEOREM SlotsAccountedFor == Spec => []LocksAccountedFor
BY StreamsOwned, PTL DEF Owned

\* A handle is marked as parked exactly while a parker drains it, whatever order the
\* watchdog, the finally, a kill and a zap back act in.
THEOREM ParkedAlwaysDrained == Spec => []ParkedIsDrained
BY StreamsOwned, PTL DEF Owned

\* A registry entry is always held by a parker or by a pump that has not finished.
THEOREM RegisteredAlwaysOwned == Spec => []RegisteredHasOwner
BY StreamsOwned, PTL DEF Owned

\* A step of a request takes out of the registry, or marks dead, only pipes of its own
\* user and pipes that are parked.
LEMMA StepOfOneUser ==
    ASSUME TypeOK, OwnHandle, NEW r \in Plays, PlayStep(r), NEW h \in streams \ (dead \cup parked)
    PROVE  Mine(h, r) \/ h \in streams' \ dead'
<1> USE DEF TypeOK
<1>1. \/ UNCHANGED <<streams, dead>>
      \/ OpenTimeout(r) \/ TemplateBroken(r) \/ FirstByte(r) \/ FinishClosed(r) \/ Tail(r)
      \/ \E g \in Plays : DropParked(r, g) \/ WaitPreempt(r, g) \/ PassPreempt(r, g)
  <2>1. CASE OpenStep(r)
    BY <2>1 DEF OpenStep, handleVars, Answer, EnsureSlot, SlotRefused, OpenFree, NextIsFree,
        TookOver, StillBusy, TakeHeld, ZapBackTo, ZapBackDead,
        WaitFor
  <2>2. CASE WalkStep(r)
    BY <2>2 DEF WalkStep, handleVars, Begin, Attach, PassGo, PassWait, WalkDead, WalkAgain,
        WalkRestart, WalkOver, LinkFailed, SourceFailed, LinkReady, NoData, WalkBusy, WalkPick
  <2>3. CASE FeedStep(r)
    BY <2>3 DEF FeedStep, handleVars, PipeEnded, ReadMore, ReadCrash, ReadNothing, Chunk,
        ReadEnded, NextCandidate
  <2>4. CASE FinishStep(r)
    BY <2>4 DEF FinishStep, handleVars, Park, FinishNothing, FinishPark, Parked, FinishKill
  <2> QED BY <2>1, <2>2, <2>3, <2>4 DEF PlayStep
<1>2. Mine(handle[r], r) /\ Mine(r, r) BY DEF OwnHandle, Mine
<1>3. CASE OpenTimeout(r) BY <1>2, <1>3 DEF OpenTimeout
<1>4. CASE TemplateBroken(r) BY <1>2, <1>4 DEF TemplateBroken
<1>5. CASE FirstByte(r) BY <1>2, <1>5 DEF FirstByte
<1>6. CASE FinishClosed(r) BY <1>2, <1>6 DEF FinishClosed, Deregister
<1>7. CASE Tail(r) BY <1>2, <1>7 DEF Tail
<1>8. ASSUME NEW g \in Plays, DropParked(r, g) PROVE h \in streams' \ dead'
  <2>1. g \in parked BY <1>8 DEF DropParked
  <2> QED BY <1>8, <2>1 DEF DropParked, KillStream, Deregister
<1>9. ASSUME NEW g \in Plays, WaitPreempt(r, g) \/ PassPreempt(r, g)
      PROVE  Mine(h, r) \/ h \in streams' \ dead'
  <2>1. Mine(g, r) /\ KillStream(g) BY <1>9 DEF WaitPreempt, PassPreempt, OwnPipes
  <2> QED BY <2>1 DEF KillStream, Deregister
<1> QED BY <1>1, <1>3, <1>4, <1>5, <1>6, <1>7, <1>8, <1>9

\* For every setting of the constants, lingering or not, no request of one user ends a
\* stream another user is watching (preempt_own, _drop_parked).
THEOREM OthersAlwaysUntouched == Spec => OthersUntouched
<1> DEFINE Untouched == \A h \in Watched : h \notin streams' \ dead' =>
                            \A r \in Plays : PlayStep(r) => Mine(h, r)
<1>1. TypeOK /\ Owned /\ [Next]_vars => [Untouched]_vars
    BY StepOfOneUser DEF Watched, Owned
<1> QED BY <1>1, StreamsOwned, StreamTypeCorrect, PTL DEF Spec, OthersUntouched

-----------------------------------------------------------------------------
(* Lingering switched off.                                                 *)

\* Nothing is ever parked, and a request pumps its own handle.
NothingHeld ==
    /\ parked = {} /\ expiring = {}
    /\ \A r \in Plays : /\ parker[r] = "none"
                        /\ handle[r] = r
                        /\ pc[r] \notin {"attach", "parking"}

\* A pump holds at most the slot of its candidate, from the link to its finally.
SlotOfCandidate ==
    \A m \in Macs : \A h \in macLocks[m] :
        /\ pc[h] \in {"first", "send", "read", "finish", "closing", "tail"}
        /\ pc[h] = "tail" => h \notin regd
        /\ loc[h].cand \in Candidates
        /\ Spends(loc[h].cand)
        /\ m = loc[h].cand[2]

\* A pump that feeds its player, or whose pipe runs, knows its candidate.
CandidatePlays ==
    \A r \in Plays : pc[r] \in {"send", "read", "reap"} \/ proc[r] = "run"
                        => loc[r].cand \in Candidates /\ loc[r].cand[2] \in Macs

\* A running pipe is the one its pump reads and its handle names.
PipeOfPump ==
    \A r \in Plays :
        /\ pc[r] \in {"first", "send", "read"} => src[r] = r
        /\ proc[r] = "run" =>
            \/ pc[r] = "first"
            \/ /\ pc[r] \in {"send", "read", "finish"}
               /\ src[r] = r /\ hproc[r] = r /\ r \in regd

\* Only a pump that has registered is killed before it is over.
DeadWasRegistered ==
    /\ streams \subseteq regd
    /\ \A r \in dead : r \in regd \/ pc[r] \in Closing \cup {"end"}

NoLingerInv == /\ NothingHeld /\ SlotOfCandidate /\ CandidatePlays /\ PipeOfPump
               /\ DeadWasRegistered /\ PipeCounted
-----------------------------------------------------------------------------
(* Every step keeps it.                                                      *)

\* A kill by a request that holds no slot and no pipe.
LEMMA NoLingerKill ==
    ASSUME TypeInv, NoLingerInv, NEW r \in Plays, NEW h \in Plays, KillStream(h),
           NEW place \in {"drop", "took", "passWait"}, Goto(r, place),
           pc[r] \in Opening \cup {"pass", "passWait"},
           UNCHANGED <<handle, regd, src, loc, gone, watch>>
    PROVE  NoLingerInv'
<1> USE NoneAssumption
    DEF TypeInv, TypeOK, OccupancyTypeOK, NoLingerInv, NothingHeld, SlotOfCandidate,
        CandidatePlays, PipeOfPump, DeadWasRegistered, PipeCounted, Goto, Opening, Closing,
        Processes, Spends, KillStream, Deregister, DropLocksOf, Signal
<1>1. DeadWasRegistered'
  <2>1. /\ dead' \subseteq dead \cup streams /\ streams' \subseteq streams
        /\ pc[r] \notin Closing \cup {"end"} /\ UNCHANGED regd
        /\ \A q \in Plays : q # r => pc'[q] = pc[q]
    OBVIOUS
  <2>2. ASSUME NEW q \in dead' PROVE q \in regd' \/ pc'[q] \in Closing \cup {"end"}
    BY <2>1, <2>2
  <2> QED BY <2>1, <2>2
<1>2. NothingHeld' /\ CandidatePlays' OBVIOUS
<1>3. SlotOfCandidate' OBVIOUS
<1>4. PipeOfPump' OBVIOUS
<1>5. PipeCounted' OBVIOUS
<1> QED BY <1>1, <1>2, <1>3, <1>4, <1>5

\* NoLingerInv is preserved by a request's steps up to its answer.
LEMMA NoLingerInvOpen ==
    ASSUME TypeInv, NoLingerInv, ~Linger, NEW r \in Plays, OpenStep(r) PROVE NoLingerInv'
<1> USE NoneAssumption
    DEF TypeInv, TypeOK, CandidateChosen, OccupancyTypeOK, NoLingerInv, NothingHeld, SlotOfCandidate,
        CandidatePlays, PipeOfPump, DeadWasRegistered, PipeCounted, occupancyVars,
        handleVars, pumpVars, Goto, Opening, Unstarted, Pumping, Walking, Feeding, Closing,
        Processes, Spends, Mine, Locals
<1>1. CASE EnsureSlot(r) BY <1>1 DEF EnsureSlot
<1>2. CASE SlotRefused(r) BY <1>2 DEF SlotRefused
<1>3. CASE OpenFree(r) BY <1>3 DEF OpenFree, Answer, FreshLocals
<1>4. CASE NextIsFree(r) BY <1>4 DEF NextIsFree, Answer, FreshLocals
<1>5. CASE TookOver(r) BY <1>5 DEF TookOver, Answer, FreshLocals
<1>6. CASE StillBusy(r) BY <1>6 DEF StillBusy
<1>7. CASE OpenTimeout(r) BY <1>7 DEF OpenTimeout, FreshLocals
<1>8. ASSUME NEW h \in Plays, ZapBackTo(r, h) PROVE NoLingerInv'
    BY <1>8 DEF ZapBackTo, ZapBack
<1>9. ASSUME NEW h \in Plays, ZapBackDead(r, h) PROVE NoLingerInv'
    BY <1>9 DEF ZapBackDead, ZapBack
<1>10. ASSUME NEW h \in Plays, DropParked(r, h) PROVE NoLingerInv' BY <1>10 DEF DropParked
<1>11. ASSUME NEW h \in Plays, WaitPreempt(r, h) PROVE NoLingerInv'
    BY <1>11, NoLingerKill DEF WaitPreempt
<1>12. ASSUME NEW c \in Candidates, WaitFor(r, c) PROVE NoLingerInv'
    BY <1>12 DEF WaitFor, Blocked
<1> QED BY <1>1, <1>2, <1>3, <1>4, <1>5, <1>6, <1>7, <1>8, <1>9, <1>10, <1>11, <1>12 DEF OpenStep, TakeHeld

\* NoLingerInv is preserved by the walk over the chain.
LEMMA NoLingerInvWalk ==
    ASSUME TypeInv, NoLingerInv, ~Linger, NEW r \in Plays, WalkStep(r) PROVE NoLingerInv'
<1> USE NoneAssumption
    DEF TypeInv, TypeOK, CandidateChosen, OccupancyTypeOK, NoLingerInv, NothingHeld, SlotOfCandidate,
        CandidatePlays, PipeOfPump, DeadWasRegistered, PipeCounted, occupancyVars,
        handleVars, pumpVars, Goto, Opening, Unstarted, Pumping, Walking, Feeding, Closing,
        Processes, Spends, Mine, Locals
<1>1. CASE Begin(r) BY <1>1 DEF Begin
<1>2. CASE Attach(r) BY <1>2 DEF Attach
<1>3. CASE PassGo(r) BY <1>3 DEF PassGo
<1>4. CASE WalkDead(r) BY <1>4 DEF WalkDead
<1>5. CASE WalkAgain(r) BY <1>5 DEF WalkAgain, WalkedAll
<1>6. CASE WalkRestart(r) BY <1>6 DEF WalkRestart, WalkedAll
<1>7. CASE WalkOver(r) BY <1>7 DEF WalkOver
<1>8. CASE LinkFailed(r) BY <1>8 DEF LinkFailed
<1>9. CASE SourceFailed(r) BY <1>9 DEF SourceFailed, Candidates
<1>10. CASE LinkReady(r)
  <2>1. loc[r].cand \in Candidates /\ loc[r].cand[2] \in Macs
    BY <1>10 DEF LinkReady, Candidates
  <2>2. \A m \in Macs : r \notin macLocks[m] BY <1>10 DEF LinkReady
  <2> USE <1>10, <2>1, <2>2 DEF LinkReady, LockMac
  <2>3. NothingHeld' /\ DeadWasRegistered' OBVIOUS
  <2>4. SlotOfCandidate' OBVIOUS
  <2>5. CandidatePlays'
    <3>1. UNCHANGED loc /\ Goto(r, "first") /\ proc' = [proc EXCEPT ![r] = "run"] OBVIOUS
    <3> QED BY <2>1, <3>1
  <2>6. PipeOfPump' OBVIOUS
  <2>7. PipeCounted'
    <3> SUFFICES ASSUME NEW q \in Plays, (proc[q] = "run")', q \notin dead', Spends(loc[q].cand)
                 PROVE  q \in macLocks'[loc[q].cand[2]]
        OBVIOUS
    <3>1. CASE q = r BY <3>1
    <3>2. CASE q # r BY <3>2
    <3> QED BY <3>1, <3>2
  <2> QED BY <2>3, <2>4, <2>5, <2>7
<1>11. CASE NoData(r) BY <1>11 DEF NoData, ReleaseCandidate, UnlockMac
<1>12. CASE TemplateBroken(r) BY <1>12 DEF TemplateBroken, ReleaseCandidate, UnlockMac
<1>13. CASE FirstByte(r) BY <1>13 DEF FirstByte
<1>14. ASSUME NEW c \in Candidates, WalkBusy(r, c) PROVE NoLingerInv'
    BY <1>14 DEF WalkBusy, Cands
<1>15. ASSUME NEW c \in Candidates, WalkPick(r, c) PROVE NoLingerInv'
    BY <1>15 DEF WalkPick, Cands
<1>16. ASSUME NEW h \in Plays, PassPreempt(r, h) PROVE NoLingerInv'
    BY <1>16, NoLingerKill DEF PassPreempt
<1>17. CASE PassWait(r) BY <1>17 DEF PassWait
<1> QED BY <1>1, <1>2, <1>3, <1>4, <1>5, <1>6, <1>7, <1>8, <1>9, <1>10, <1>11,
        <1>12, <1>13, <1>14, <1>15, <1>16, <1>17 DEF WalkStep, Cands

\* The end of a pipe gives the candidate's slot back before the next one is tried.
LEMMA PipeEndedSafe ==
    ASSUME TypeInv, NoLingerInv, ~Linger, NEW r \in Plays, pc[r] \in {"send", "read"},
           PipeEnded(r)
    PROVE  NoLingerInv'
<1> USE NoneAssumption
    DEF TypeInv, TypeOK, OccupancyTypeOK, NoLingerInv, NothingHeld, SlotOfCandidate,
        CandidatePlays, PipeOfPump, DeadWasRegistered, PipeCounted, Spends
<1>1. loc[r].cand \in Candidates /\ loc[r].cand # None /\ handle[r] = r /\ src[r] = r
    OBVIOUS
<1>2. /\ ReleaseCandidate(r) /\ proc' = Signal(r) /\ Goto(r, "reap")
      /\ UNCHANGED <<lease, handleVars, handle, regd, src, loc, gone, watch>>
    BY <1>1 DEF PipeEnded
<1>3. \A m \in Macs : macLocks'[m] = macLocks[m] \ {r}
    BY <1>1, <1>2 DEF ReleaseCandidate, UnlockMac
<1>4. proc'[r] # "run" /\ \A q \in Plays : q # r => proc'[q] = proc[q] /\ pc'[q] = pc[q]
    BY <1>2 DEF Signal, Goto
<1>5. pc'[r] = "reap" BY <1>2 DEF Goto
<1>6. NothingHeld' /\ CandidatePlays'
    BY <1>1, <1>2, <1>4, <1>5 DEF handleVars, Mine
<1>7. SlotOfCandidate' BY <1>2, <1>3, <1>4 DEF handleVars
<1>8. PipeOfPump' BY <1>2, <1>4, <1>5 DEF handleVars
<1>9. DeadWasRegistered' BY <1>2, <1>4, <1>5 DEF handleVars, Closing
<1>10. PipeCounted' BY <1>2, <1>3, <1>4 DEF handleVars
<1> QED BY <1>6, <1>7, <1>8, <1>9, <1>10

\* NoLingerInv is preserved by feeding the player.
LEMMA NoLingerInvFeed ==
    ASSUME TypeInv, NoLingerInv, ~Linger, NEW r \in Plays, FeedStep(r) PROVE NoLingerInv'
<1> USE NoneAssumption
    DEF TypeInv, TypeOK, CandidateChosen, OccupancyTypeOK, NoLingerInv, NothingHeld, SlotOfCandidate,
        CandidatePlays, PipeOfPump, DeadWasRegistered, PipeCounted, occupancyVars,
        handleVars, pumpVars, Goto, Opening, Unstarted, Pumping, Walking, Feeding, Closing,
        Processes, Spends, Mine, Locals
<1>1. CASE ReadMore(r) BY <1>1 DEF ReadMore
<1>2. CASE ReadCrash(r) BY <1>2 DEF ReadCrash
<1>3. CASE ReadNothing(r) BY <1>3, PipeEndedSafe DEF ReadNothing
<1>4. CASE Chunk(r) BY <1>4 DEF Chunk
<1>5. CASE ReadEnded(r) BY <1>5, PipeEndedSafe DEF ReadEnded
<1>6. CASE NextCandidate(r)
  <2>1. pc[r] = "reap" /\ loc[r].cand \in Candidates /\ \A m \in Macs : r \notin macLocks[m]
    BY <1>6 DEF NextCandidate
  <2>2. proc[r] # "run" BY <2>1
  <2>3. /\ Goto(r, "walk")
        /\ UNCHANGED <<occupancyVars, handleVars, proc, handle, regd, src, gone, watch>>
        /\ loc' = [loc EXCEPT ![r].tried = @ \cup {loc[r].cand}]
    BY <1>6, <2>1 DEF NextCandidate
  <2>4. \A q \in Plays : loc'[q].cand = loc[q].cand
    BY <2>3
  <2>5. NothingHeld' /\ CandidatePlays' BY <2>2, <2>3, <2>4
  <2>6. PipeOfPump' BY <2>2, <2>3
  <2>7. DeadWasRegistered' BY <2>1, <2>3
  <2>8. SlotOfCandidate' BY <2>1, <2>3, <2>4
  <2>10. PipeCounted' BY <2>2, <2>3, <2>4
  <2> QED BY <2>5, <2>6, <2>7, <2>8, <2>10
<1> QED BY <1>1, <1>2, <1>3, <1>4, <1>5, <1>6 DEF FeedStep

\* NoLingerInv is preserved by the finally.
LEMMA NoLingerInvFinish ==
    ASSUME TypeInv, NoLingerInv, ~Linger, NEW r \in Plays, FinishStep(r) PROVE NoLingerInv'
<1> USE NoneAssumption
    DEF TypeInv, TypeOK, CandidateChosen, OccupancyTypeOK, NoLingerInv, NothingHeld, SlotOfCandidate,
        CandidatePlays, PipeOfPump, DeadWasRegistered, PipeCounted, occupancyVars,
        handleVars, pumpVars, Goto, Opening, Unstarted, Pumping, Walking, Feeding, Closing,
        Processes, Spends, Mine, Locals
<1>1. CASE FinishNothing(r) BY <1>1 DEF FinishNothing, MustFinish
<1>2. CASE FinishPark(r) BY <1>2 DEF FinishPark, CanPark
<1>3. CASE FinishKill(r)
  <2> USE <1>3 DEF FinishKill, Signal, MustFinish, CanPark
  <2>1. NothingHeld' OBVIOUS
  <2>2. SlotOfCandidate' OBVIOUS
  <2>3. CandidatePlays' OBVIOUS
  <2>4. PipeOfPump' OBVIOUS
  <2>5. DeadWasRegistered' OBVIOUS
  <2>7. PipeCounted' OBVIOUS
  <2> QED BY <2>1, <2>2, <2>3, <2>4, <2>5, <2>7
<1>4. CASE FinishClosed(r)
  <2> USE <1>4 DEF FinishClosed, Deregister, DropLocksOf
  <2>1. NothingHeld' OBVIOUS
  <2>2. SlotOfCandidate' OBVIOUS
  <2>3. CandidatePlays' OBVIOUS
  <2>4. PipeOfPump' OBVIOUS
  <2>5. DeadWasRegistered' OBVIOUS
  <2>7. PipeCounted' OBVIOUS
  <2> QED BY <2>1, <2>2, <2>3, <2>4, <2>5, <2>7
<1>5. CASE Tail(r)
  <2> USE <1>5 DEF Tail, DropLocksOf
  <2>1. NothingHeld' OBVIOUS
  <2>2. SlotOfCandidate' OBVIOUS
  <2>3. CandidatePlays' OBVIOUS
  <2>4. PipeOfPump' OBVIOUS
  <2>5. DeadWasRegistered' OBVIOUS
  <2>7. PipeCounted' OBVIOUS
  <2> QED BY <2>1, <2>2, <2>3, <2>4, <2>5, <2>7
<1>6. CASE Parked(r) BY <1>6 DEF Parked
<1> QED BY <1>1, <1>2, <1>3, <1>4, <1>5, <1>6 DEF FinishStep

\* NoLingerInv is preserved by the tasks beside the request, and the environment.
LEMMA NoLingerInvOther ==
    ASSUME TypeInv, NoLingerInv, ~Linger, NEW r \in Plays, OtherStep(r) PROVE NoLingerInv'
<1> USE NoneAssumption
    DEF TypeInv, TypeOK, CandidateChosen, OccupancyTypeOK, NoLingerInv, NothingHeld, SlotOfCandidate,
        CandidatePlays, PipeOfPump, DeadWasRegistered, PipeCounted, occupancyVars,
        handleVars, pumpVars, Goto, Opening, Unstarted, Pumping, Walking, Feeding, Closing,
        Processes, Spends, Mine, Locals
<1>1. CASE Cancel(r)
  <2> USE <1>1 DEF Cancel
  <2>1. NothingHeld' /\ CandidatePlays' /\ SlotOfCandidate' OBVIOUS
  <2>2. PipeOfPump' OBVIOUS
  <2>3. DeadWasRegistered' OBVIOUS
  <2>4. PipeCounted' OBVIOUS
  <2> QED BY <2>1, <2>2, <2>3, <2>4
<1>2. CASE GuardTimeout(r) BY <1>2 DEF GuardTimeout
<1>3. CASE ParkerStart(r) BY <1>3 DEF ParkerStart, Signal
<1>4. CASE ParkerExpire(r) BY <1>4 DEF ParkerExpire, Signal
<1>5. CASE ParkerClosed(r) BY <1>5 DEF ParkerClosed, Deregister, DropLocksOf
<1>6. CASE WatchEnds(r) BY <1>6 DEF WatchEnds
<1>7. CASE ClientLeft(r)
  <2> USE <1>7 DEF ClientLeft, Park, CanPark, Alive, KillStream, Deregister, DropLocksOf, Signal
  <2>1. NothingHeld' OBVIOUS
  <2>2. SlotOfCandidate' OBVIOUS
  <2>3. CandidatePlays' OBVIOUS
  <2>4. PipeOfPump' OBVIOUS
  <2>5. DeadWasRegistered' OBVIOUS
  <2>7. PipeCounted' OBVIOUS
  <2> QED BY <2>1, <2>2, <2>3, <2>4, <2>5, <2>7
<1>8. CASE ReapDead(r)
  <2> USE <1>8 DEF ReapDead, Deregister, DropLocksOf
  <2>1. NothingHeld' OBVIOUS
  <2>2. SlotOfCandidate' OBVIOUS
  <2>3. CandidatePlays' OBVIOUS
  <2>4. PipeOfPump' OBVIOUS
  <2>5. DeadWasRegistered' OBVIOUS
  <2>7. PipeCounted' OBVIOUS
  <2> QED BY <2>1, <2>2, <2>3, <2>4, <2>5, <2>7
<1>9. CASE StopStream(r)
  <2> USE <1>9 DEF StopStream, KillStream, Deregister, DropLocksOf, Signal
  <2>1. NothingHeld' OBVIOUS
  <2>2. SlotOfCandidate' OBVIOUS
  <2>3. CandidatePlays' OBVIOUS
  <2>4. PipeOfPump' OBVIOUS
  <2>5. DeadWasRegistered' OBVIOUS
  <2>7. PipeCounted' OBVIOUS
  <2> QED BY <2>1, <2>2, <2>3, <2>4, <2>5, <2>7
<1>10. CASE Disconnect(r) BY <1>10 DEF Disconnect
<1>11. CASE ProcessGone(r) BY <1>11 DEF ProcessGone
<1> QED BY <1>1, <1>2, <1>3, <1>4, <1>5, <1>6, <1>7, <1>8, <1>9, <1>10, <1>11 DEF OtherStep, ParkerStep, WatchStep

\* Nothing is held or taken in the initial state.
LEMMA NoLingerInit == Init => NoLingerInv
BY NoneAssumption
DEF Init, OccupancyInit, NoLingerInv, NothingHeld, SlotOfCandidate, CandidatePlays, PipeOfPump,
    DeadWasRegistered, PipeCounted

\* Every step preserves NoLingerInv.
LEMMA NoLingerStep == ~Linger /\ TypeInv /\ NoLingerInv /\ [Next]_vars => NoLingerInv'
<1> SUFFICES ASSUME ~Linger, TypeInv, NoLingerInv, [Next]_vars PROVE NoLingerInv' OBVIOUS
<1>1. CASE UNCHANGED vars
    BY <1>1 DEF NoLingerInv, NothingHeld, SlotOfCandidate, CandidatePlays, PipeOfPump,
        DeadWasRegistered, PipeCounted, vars, occupancyVars, handleVars, pumpVars
<1>2. ASSUME NEW r \in Plays, PlayStep(r) PROVE NoLingerInv'
    BY <1>2, NoLingerInvOpen, NoLingerInvWalk, NoLingerInvFeed, NoLingerInvFinish DEF PlayStep
<1>3. ASSUME NEW r \in Plays, OtherStep(r) PROVE NoLingerInv'
    BY <1>3, NoLingerInvOther
<1>4. CASE LeaseStep
  <2>1. UNCHANGED <<macLocks, handleVars, proc, pumpVars>>
    BY <1>4 DEF LeaseStep, LeaseMac, LeaseOver
  <2> QED BY <2>1 DEF NoLingerInv, NothingHeld, SlotOfCandidate, CandidatePlays, PipeOfPump,
        DeadWasRegistered, PipeCounted, handleVars, pumpVars
<1> QED BY <1>1, <1>2, <1>3, <1>4 DEF Next, OtherStep

\* The invariant of this module.
THEOREM NoLingerInvariant == ~Linger => (Spec => []NoLingerInv)
<1> SUFFICES ASSUME ~Linger PROVE Spec => []NoLingerInv OBVIOUS
<1>1. Init => NoLingerInv BY NoLingerInit
<1>2. TypeInv /\ NoLingerInv /\ [Next]_vars => NoLingerInv' BY NoLingerStep
<1> QED BY <1>1, <1>2, TypeCorrect, PTL DEF Spec

\* Without lingering a play never holds slots on two MACs, whatever failovers, second
\* passes and restarts it goes through.
THEOREM NoLingerOneSlot == ~Linger => (Spec => []OneSlotEach)
<1> SUFFICES ASSUME ~Linger PROVE Spec => []OneSlotEach OBVIOUS
<1>1. NoLingerInv => OneSlotEach
  <2> SUFFICES ASSUME NoLingerInv, NEW h \in Plays PROVE Cardinality(HeldBy(h)) <= 1
    BY DEF OneSlotEach
  <2>1. HeldBy(h) \subseteq {loc[h].cand[2]} BY DEF NoLingerInv, SlotOfCandidate, HeldBy
  <2>2. IsFiniteSet({loc[h].cand[2]}) /\ Cardinality({loc[h].cand[2]}) = 1 BY FS_Singleton
  <2>3. Cardinality(HeldBy(h)) <= Cardinality({loc[h].cand[2]}) BY <2>1, <2>2, FS_Subset
  <2> QED BY <2>2, <2>3
<1> QED BY <1>1, NoLingerInvariant, PTL

\* Without lingering a running pipe is always counted against the MAC it plays on.
THEOREM NoLingerCounted == ~Linger => (Spec => []PipeCounted)
<1> SUFFICES ASSUME ~Linger PROVE Spec => []PipeCounted OBVIOUS
<1>1. NoLingerInv => PipeCounted BY DEF NoLingerInv
<1> QED BY <1>1, NoLingerInvariant, PTL

\* Without lingering no process runs that no pump reads.
THEOREM NoLingerNoOrphan == ~Linger => (Spec => []NoOrphanPipe)
<1> SUFFICES ASSUME ~Linger PROVE Spec => []NoOrphanPipe OBVIOUS
<1>1. NoLingerInv => NoOrphanPipe
    BY DEF NoLingerInv, PipeOfPump, NoOrphanPipe, Pumping, Walking, Feeding, Closing
<1> QED BY <1>1, NoLingerInvariant, PTL

\* Without lingering a stream that was killed never comes back to the registry.
THEOREM NoLingerNeverRevived == ~Linger => (Spec => NeverRevived)
<1> SUFFICES ASSUME ~Linger PROVE Spec => NeverRevived OBVIOUS
<1>1. NoLingerInv /\ [Next]_vars => [\A h \in dead : h \in streams' => h \in streams]_vars
  <2> SUFFICES ASSUME NoLingerInv, Next PROVE \A h \in dead : h \in streams' => h \in streams
    OBVIOUS
  <2>1. ASSUME NEW r \in Plays, PlayStep(r) PROVE streams' \subseteq streams \/ FirstByte(r)
    <3>1. CASE OpenStep(r)
      BY <3>1 DEF OpenStep, handleVars, Answer, EnsureSlot, SlotRefused, OpenFree, NextIsFree,
          TookOver, StillBusy, TakeHeld, ZapBackTo, ZapBackDead, WaitFor, OpenTimeout,
          DropParked, WaitPreempt, KillStream, Deregister
    <3>2. CASE WalkStep(r)
      BY <3>2 DEF WalkStep, handleVars, Begin, Attach, PassGo, PassWait, WalkDead, WalkAgain,
          WalkRestart, WalkOver, LinkFailed, SourceFailed, LinkReady, NoData, WalkBusy,
          WalkPick, TemplateBroken, PassPreempt, KillStream, Deregister
    <3>3. CASE FeedStep(r)
      BY <3>3 DEF FeedStep, handleVars, PipeEnded, ReadMore, ReadCrash, ReadNothing, Chunk,
          ReadEnded, NextCandidate
    <3>4. CASE FinishStep(r)
      BY <3>4 DEF FinishStep, handleVars, Park, FinishNothing, FinishPark, Parked, FinishKill,
          FinishClosed, Deregister, Tail
    <3> QED BY <2>1, <3>1, <3>2, <3>3, <3>4 DEF PlayStep
  <2>3. ASSUME NEW r \in Plays, OtherStep(r) PROVE streams' \subseteq streams
    BY <2>3 DEF OtherStep, handleVars, Cancel, GuardTimeout, ParkerStep, ParkerStart,
        ParkerExpire, ParkerClosed, WatchStep, WatchEnds, ClientLeft, ReapDead, StopStream,
        Disconnect, ProcessGone, Park, KillStream, Deregister
  <2>2. ASSUME NEW r \in Plays, FirstByte(r), NEW h \in dead, h \in streams' PROVE h \in streams
    BY <2>2 DEF FirstByte, NoLingerInv, NothingHeld, DeadWasRegistered, Closing
  <2>4. LeaseStep => UNCHANGED streams BY DEF LeaseStep, LeaseMac, LeaseOver, handleVars
  <2> QED BY <2>1, <2>2, <2>3, <2>4 DEF Next, OtherStep
<1> QED BY <1>1, NoLingerInvariant, PTL DEF Spec, NeverRevived

-----------------------------------------------------------------------------
(* Without lingering, a play keeps the promise of PlaySlots.                 *)

\* What the mapping needs beside NoLingerInv: an open is one of the play's own chain,
\* an entry that left the registry is marked dead, and nobody is registered before
\* or after its pump.
PhaseInv ==
    /\ \A r \in Plays : pc[r] \in {"link", "first"} => loc[r].cand \in Cands(r)
    /\ \A r \in regd : /\ r \in streams \/ r \in dead
                       /\ pc[r] \in Pumping \cup {"end"}
                       /\ r \in streams => pc[r] \notin {"tail", "end"}

\* The changes of one play that PlaySlots allows.
Allowed(p, held, phase, held2, phase2) ==
    \/ held2 = held /\ phase2 = phase
    \/ held # {} /\ held2 = {} /\ phase2 = phase
    \/ \E c \in Cands(p) :
          /\ Spends(c) /\ held = {} /\ held2 = {c[2]}
          /\ \/ phase \in {"waiting", "live"} /\ phase2 = phase
             \/ phase = "ending" /\ phase2 = "over"
    \/ /\ held # {} \/ \E c \in Cands(p) : ~ Spends(c)
       /\ held2 = held /\ phase = "waiting" /\ phase2 = "live"
    \/ held2 = {} /\ phase = "live" /\ phase2 \in {"ending", "over"}
    \/ held2 \in {held, {}} /\ phase \in {"waiting", "ending"} /\ phase2 = "over"
    \/ held2 = {} /\ phase = "waiting" /\ held = {} /\ phase2 = "done"
    \/ held2 = {} /\ phase = "over" /\ phase2 = "done"

\* A step that changes one play in an allowed way is a step of PlaySlots.
LEMMA OneChange ==
    ASSUME NEW p \in Plays,
           \A q \in Plays : q # p => HeldBy(q)' = HeldBy(q) /\ Life(q)' = Life(q),
           Allowed(p, HeldBy(p), Life(p), HeldBy(p)', Life(p)')
    PROVE  [Promise!Next]_(Promise!slotVars)
<1> DEFINE slots == [r \in Plays |-> HeldBy(r)]
           life == [r \in Plays |-> Life(r)]
<1>1. slots' = [slots EXCEPT ![p] = HeldBy(p)'] /\ life' = [life EXCEPT ![p] = Life(p)']
  OBVIOUS
<1>2. Promise!Become(p, HeldBy(p)', Life(p)')
  BY <1>1 DEF Promise!Become
<1>3. ASSUME NEW c \in Cands(p), Spends(c)
      PROVE  c[2] \in Macs /\ c[2] \in [r \in Plays |-> {d[2] : d \in {e \in Cands(r) : Spends(e)}}][p]
  BY <1>3, ChainAssumption DEF Cands, Candidates
<1>4. slots[p] = HeldBy(p) /\ life[p] = Life(p)
  OBVIOUS
<1> HIDE DEF slots, life
<1>5. CASE HeldBy(p)' = HeldBy(p) /\ Life(p)' = Life(p)
  BY <1>1, <1>4, <1>5 DEF slots, life, Promise!slotVars
<1> SUFFICES ASSUME ~ (HeldBy(p)' = HeldBy(p) /\ Life(p)' = Life(p)) PROVE Promise!PlayNext(p)
  BY <1>5 DEF Promise!Next
<1> USE <1>2, <1>4 DEF slots, life
<1>6. ASSUME HeldBy(p) # {}, HeldBy(p)' = {}, Life(p)' = Life(p) PROVE Promise!PlayNext(p)
  BY <1>6 DEF Promise!PlayNext, Promise!Yield
<1>7. ASSUME NEW c \in Cands(p), Spends(c), HeldBy(p) = {}, HeldBy(p)' = {c[2]},
             \/ Life(p) \in {"waiting", "live"} /\ Life(p)' = Life(p)
             \/ Life(p) = "ending" /\ Life(p)' = "over"
      PROVE  Promise!PlayNext(p)
  <2>1. Promise!Take(p, c[2]) BY <1>3, <1>7 DEF Promise!Take
  <2> QED BY <1>3, <1>7, <2>1 DEF Promise!PlayNext
<1>8. ASSUME HeldBy(p) # {} \/ \E c \in Cands(p) : ~ Spends(c), HeldBy(p)' = HeldBy(p),
             Life(p) = "waiting", Life(p)' = "live"
      PROVE  Promise!PlayNext(p)
  BY <1>8 DEF Promise!PlayNext, Promise!GoLive
<1>9. ASSUME HeldBy(p)' = {}, Life(p) = "live", Life(p)' \in {"ending", "over"}
      PROVE  Promise!PlayNext(p)
  BY <1>9 DEF Promise!PlayNext, Promise!Leave
<1>10. ASSUME HeldBy(p)' \in {HeldBy(p), {}}, Life(p) \in {"waiting", "ending"}, Life(p)' = "over"
       PROVE  Promise!PlayNext(p)
  BY <1>10 DEF Promise!PlayNext, Promise!GiveUp
<1>11. ASSUME HeldBy(p)' = {}, Life(p)' = "done",
              (Life(p) = "waiting" /\ HeldBy(p) = {}) \/ Life(p) = "over"
       PROVE  Promise!PlayNext(p)
  BY <1>11 DEF Promise!PlayNext, Promise!Finish
<1> QED BY <1>6, <1>7, <1>8, <1>9, <1>10, <1>11 DEF Allowed

\* What the steps of one request touch: the pc, registration and slots of itself.
Only(p) ==
    \A q \in Plays : q # p =>
        /\ pc'[q] = pc[q] /\ (q \in streams' <=> q \in streams) /\ (q \in regd' <=> q \in regd)
        /\ \A m \in Macs : q \in macLocks'[m] <=> q \in macLocks[m]

Changes(p) == Allowed(p, HeldBy(p), Life(p), HeldBy(p)', Life(p)')
Refines == [Promise!Next]_(Promise!slotVars)

LEMMA OnlyOne == ASSUME NEW p \in Plays, Only(p), Changes(p) PROVE Refines
<1>1. ASSUME NEW q \in Plays, q # p PROVE HeldBy(q)' = HeldBy(q) /\ Life(q)' = Life(q)
  <2>1. HeldBy(q)' = HeldBy(q) BY <1>1 DEF Only, HeldBy
  <2>2. Life(q)' = Life(q) BY <1>1 DEF Only, Life
  <2> QED BY <2>1, <2>2
<1> QED BY <1>1, OneChange DEF Changes, Refines

\* A step that only moves the pc of its request.
LEMMA OnlyPc ==
    ASSUME TypeInv, NoLingerInv, NEW r \in Plays, NEW place, Goto(r, place),
           UNCHANGED <<macLocks, streams, regd>>,
           \/ Life(r)' = Life(r)
           \/ Life(r) \in {"waiting", "ending"} /\ Life(r)' = "over"
           \/ Life(r) \in {"waiting", "over"} /\ Life(r)' = "done" /\ HeldBy(r) = {}
    PROVE  Refines
<1>1. Only(r) BY DEF Only, Goto, TypeInv, TypeOK
<1>2. HeldBy(r)' = HeldBy(r) BY DEF HeldBy
<1>3. Changes(r) BY <1>2 DEF Changes, Allowed
<1> QED BY <1>1, <1>3, OnlyOne

\* A registered play that is taken over, stopped or reaped leaves empty-handed.
LEMMA LeavesEmpty ==
    ASSUME TypeInv, NoLingerInv, PhaseInv, NEW h \in Plays, h \in streams, Deregister(h),
           UNCHANGED regd,
           \A q \in Plays : pc'[q] = pc[q] \/ {pc[q], pc'[q]} \cap (Closing \cup {"link", "end"}) = {}
    PROVE  Refines
<1>1. ASSUME NEW q \in Plays, q # h PROVE HeldBy(q)' = HeldBy(q) /\ Life(q)' = Life(q)
  <2>1. \A m \in Macs : q \in macLocks'[m] <=> q \in macLocks[m]
    BY <1>1 DEF Deregister, DropLocksOf
  <2>2. HeldBy(q)' = HeldBy(q) BY <2>1 DEF HeldBy
  <2>3. q \in streams' <=> q \in streams BY <1>1 DEF Deregister
  <2>4. Life(q)' = Life(q) BY <2>3 DEF Life
  <2> QED BY <2>2, <2>4
<1>2. HeldBy(h)' = {} BY DEF Deregister, DropLocksOf, HeldBy
<1>3. h \in regd /\ pc[h] \notin {"tail", "end"} /\ h \notin streams'
  BY DEF NoLingerInv, DeadWasRegistered, PhaseInv, Deregister
<1>4. pc'[h] # "end" BY <1>3 
<1>5. Life(h) = "live" /\ Life(h)' \in {"ending", "over"} BY <1>3, <1>4 DEF Life
<1>6. Changes(h) BY <1>2, <1>5 DEF Changes, Allowed
<1> QED BY <1>1, <1>6, OneChange DEF Changes, Refines

\* kill() by a request on its way in, or by the stop button.
LEMMA KillRefines ==
    ASSUME TypeInv, NoLingerInv, PhaseInv, NEW h \in Plays, KillStream(h), UNCHANGED regd,
           \A q \in Plays : pc'[q] = pc[q] \/ {pc[q], pc'[q]} \cap (Closing \cup {"link", "end"}) = {}
    PROVE  Refines
<1>1. CASE h \in streams \ dead BY <1>1, LeavesEmpty DEF KillStream
<1>2. CASE h \notin streams \ dead
  <2>1. UNCHANGED <<streams, macLocks>> BY <1>2 DEF KillStream
  <2>2. ASSUME NEW q \in Plays PROVE HeldBy(q)' = HeldBy(q) /\ Life(q)' = Life(q)
    <3>1. HeldBy(q)' = HeldBy(q) BY <2>1 DEF HeldBy
    <3>2. Life(q)' = Life(q) BY <2>1 DEF Life
    <3> QED BY <3>1, <3>2
  <2>3. Changes(h) BY <2>2 DEF Changes, Allowed
  <2> QED BY <2>2, <2>3, OneChange DEF Changes, Refines
<1> QED BY <1>1, <1>2

\* A step of one request that is before or after its pump, or moves on in it.
LEMMA PhaseKept ==
    ASSUME TypeInv, PhaseInv, NEW r \in Plays, NEW place, Goto(r, place),
           UNCHANGED <<streams, regd>>, dead \subseteq dead',
           \A q \in Plays : q # r => loc'[q] = loc[q],
           place \in {"link", "first"} => loc'[r].cand \in Cands(r),
           r \in regd => place \in Pumping \cup {"end"},
           r \in streams => place \notin {"tail", "end"}
    PROVE  PhaseInv'
<1>1. \A q \in Plays : q # r => pc'[q] = pc[q]
  BY DEF Goto, TypeInv, TypeOK
<1>2. pc'[r] = place BY DEF Goto, TypeInv, TypeOK
<1>3. ASSUME NEW q \in Plays, pc'[q] \in {"link", "first"} PROVE loc'[q].cand \in Cands(q)
  BY <1>1, <1>2, <1>3 DEF PhaseInv
<1>4. ASSUME NEW q \in regd
      PROVE  /\ q \in streams \/ q \in dead'
             /\ pc'[q] \in Pumping \cup {"end"}
             /\ q \in streams => pc'[q] \notin {"tail", "end"}
  BY <1>1, <1>2, <1>4 DEF PhaseInv, TypeInv, TypeOK
<1> QED BY <1>3, <1>4 DEF PhaseInv, Cands

\* A kill by a request that goes on where no open is under way.
LEMMA PhaseKeptByKill ==
    ASSUME TypeInv, PhaseInv, NEW h \in Plays, KillStream(h), UNCHANGED <<regd, loc>>,
           \A q \in Plays : \/ pc'[q] = pc[q]
                          \/ (q \notin regd /\ pc'[q] \notin {"link", "first"})
                          \/ pc'[q] = "passWait"
    PROVE  PhaseInv'
<1>1. streams' \subseteq streams /\ streams \ streams' \subseteq dead' /\ dead \subseteq dead'
  BY DEF KillStream, Deregister
<1>2. regd \subseteq Plays BY DEF TypeInv, TypeOK
<1> QED BY <1>1, <1>2 DEF PhaseInv, Cands, Pumping, Walking

\* A request up to its answer.
LEMMA OpenRefines ==
    ASSUME TypeInv, NoLingerInv, PhaseInv, ~Linger, NEW r \in Plays, OpenStep(r)
    PROVE  Refines /\ PhaseInv'
<1>1. pc[r] \in {"new"} \cup Opening
  BY DEF OpenStep, EnsureSlot, SlotRefused, OpenFree, NextIsFree, TookOver, StillBusy, OpenTimeout,
      TakeHeld, ZapBackTo, ZapBackDead, DropParked, WaitPreempt, WaitFor, Blocked, Opening
<1>2. r \notin regd /\ r \notin streams /\ Life(r) = "waiting"
  BY <1>1 DEF NoLingerInv, DeadWasRegistered, PhaseInv, Life, Pumping, Walking, Feeding, Closing, Opening
<1>3. HeldBy(r) = {}
  BY <1>1 DEF NoLingerInv, SlotOfCandidate, HeldBy, Opening
<1>4. ASSUME NEW place \in {"end", "start"} \cup Opening, Goto(r, place),
             UNCHANGED <<macLocks, streams, regd>>, dead \subseteq dead',
             \A q \in Plays : q # r => loc'[q] = loc[q]
      PROVE  Refines /\ PhaseInv'
  <2>1. pc'[r] = place BY <1>4 DEF Goto, TypeInv, TypeOK
  <2>2. Life(r)' = Life(r) \/ Life(r)' = "done"
    BY <1>2, <1>4, <2>1 DEF Life, Opening, Closing
  <2>3. Refines BY <1>2, <1>3, <1>4, <2>2, OnlyPc
  <2>4. PhaseInv' BY <1>2, <1>4, PhaseKept DEF Opening
  <2> QED BY <2>3, <2>4
<1> USE DEF TypeInv, TypeOK, occupancyVars, handleVars
<1>5. CASE EnsureSlot(r) BY <1>4, <1>5 DEF EnsureSlot, Opening
<1>6. CASE SlotRefused(r) BY <1>4, <1>6 DEF SlotRefused
<1>7. CASE OpenFree(r) BY <1>4, <1>7 DEF OpenFree, Answer
<1>8. CASE NextIsFree(r) BY <1>4, <1>8 DEF NextIsFree, Answer
<1>9. CASE TookOver(r) BY <1>4, <1>9 DEF TookOver, Answer
<1>10. CASE StillBusy(r) BY <1>4, <1>10 DEF StillBusy, Opening
<1>11. CASE OpenTimeout(r) BY <1>4, <1>11 DEF OpenTimeout
<1>12. ASSUME NEW c \in Candidates, WaitFor(r, c) PROVE Refines /\ PhaseInv'
  BY <1>4, <1>12 DEF WaitFor, Opening
<1>13. ASSUME NEW h \in Plays, TakeHeld(r, h) \/ DropParked(r, h) PROVE FALSE
  BY <1>13 DEF TakeHeld, ZapBack, DropParked, NoLingerInv, NothingHeld
<1>14. ASSUME NEW h \in Plays, WaitPreempt(r, h) PROVE Refines /\ PhaseInv'
  <2>1. KillStream(h) /\ Goto(r, "took") /\ pc[r] = "wait" /\ UNCHANGED <<regd, loc>>
    BY <1>14 DEF WaitPreempt
  <2>2. \A q \in Plays : pc'[q] = pc[q] \/ (q = r /\ pc'[q] = "took")
    BY <2>1 DEF Goto
  <2>3. Refines BY <2>1, <2>2, KillRefines DEF Closing
  <2>4. PhaseInv' BY <1>2, <2>1, <2>2, PhaseKeptByKill
  <2> QED BY <2>3, <2>4
<1> QED BY <1>5, <1>6, <1>7, <1>8, <1>9, <1>10, <1>11, <1>12, <1>13, <1>14 DEF OpenStep

\* A pump that moves on without touching a slot or the registry: what it had begun
\* to open is given up, or nothing changes.
LEMMA MovesOn ==
    ASSUME TypeInv, NoLingerInv, PhaseInv, NEW r \in Plays,
           pc[r] \in {"start"} \cup Walking \cup Feeding,
           NEW place \in {"pass", "passWait", "walk", "send", "read", "reap", "finish"},
           Goto(r, place), UNCHANGED <<macLocks, streams, regd>>, dead \subseteq dead',
           \A q \in Plays : q # r => loc'[q] = loc[q]
    PROVE  Refines /\ PhaseInv'
<1>1. pc'[r] = place BY DEF Goto, TypeInv, TypeOK
<1>2. \/ Life(r)' = Life(r)
      \/ Life(r) \in {"waiting", "ending"} /\ Life(r)' = "over"
  BY <1>1 DEF Life, Walking, Feeding, Closing
<1>3. Refines BY <1>2, OnlyPc
<1>4. PhaseInv' BY PhaseKept DEF Pumping, Walking, Feeding, Closing
<1> QED BY <1>3, <1>4

\* Where a candidate is given up, its slot goes back.
LEMMA GivesBack ==
    ASSUME TypeInv, NoLingerInv, NEW r \in Plays, ReleaseCandidate(r)
    PROVE  /\ HeldBy(r)' = {}
           /\ \A q \in Plays : q # r => \A m \in Macs : q \in macLocks'[m] <=> q \in macLocks[m]
<1>1. handle[r] = r BY DEF NoLingerInv, NothingHeld
<1>2. \A m \in Macs : r \in macLocks[m] => Spends(loc[r].cand) /\ m = loc[r].cand[2]
  BY DEF NoLingerInv, SlotOfCandidate
<1>3. macLocks \in [Macs -> SUBSET Plays] BY DEF TypeInv, TypeOK, OccupancyTypeOK
<1>4. \A m \in Macs : r \notin macLocks'[m]
  BY <1>1, <1>2, <1>3 DEF ReleaseCandidate, UnlockMac
<1>5. \A q \in Plays : q # r => \A m \in Macs : q \in macLocks'[m] <=> q \in macLocks[m]
  BY <1>1, <1>3 DEF ReleaseCandidate, UnlockMac
<1> QED BY <1>4, <1>5 DEF HeldBy

\* A pump that gives its candidate up and moves on, or unwinds.
LEMMA YieldRefines ==
    ASSUME TypeInv, NoLingerInv, PhaseInv, NEW r \in Plays, ReleaseCandidate(r),
           pc[r] \in {"first", "send", "read"}, NEW place \in {"walk", "reap", "finish"},
           Goto(r, place), UNCHANGED <<streams, regd>>, dead \subseteq dead',
           \A q \in Plays : q # r => loc'[q] = loc[q]
    PROVE  Refines /\ PhaseInv'
<1>1. Only(r) BY GivesBack DEF Only, Goto, TypeInv, TypeOK
<1>2. pc'[r] = place BY DEF Goto, TypeInv, TypeOK
<1>3. Life(r)' = Life(r) \/ (Life(r) = "waiting" /\ Life(r)' = "over")
  BY <1>2 DEF Life, Closing
<1>4. Changes(r) BY <1>3, GivesBack DEF Changes, Allowed
<1>5. Refines BY <1>1, <1>4, OnlyOne
<1>6. PhaseInv' BY PhaseKept DEF Pumping, Walking, Feeding, Closing
<1> QED BY <1>5, <1>6

\* The slot is taken for a candidate of the chain, by a play that holds none.
LEMMA LinkRefines ==
    ASSUME TypeInv, NoLingerInv, PhaseInv, NEW r \in Plays, LinkReady(r)
    PROVE  Refines /\ PhaseInv'
<1> USE DEF TypeInv, TypeOK, OccupancyTypeOK
<1>1. /\ pc[r] = "link" /\ handle[r] = r /\ HeldBy(r) = {} /\ Goto(r, "first")
      /\ UNCHANGED <<streams, regd, dead, loc>>
  BY DEF LinkReady, NoLingerInv, NothingHeld, SlotOfCandidate, HeldBy
<1>2. pc'[r] = "first" BY <1>1 DEF Goto
<1>3. PICK c \in Cands(r) : c = loc[r].cand BY <1>1 DEF PhaseInv
<1>4. c[2] \in Macs BY <1>3, ChainAssumption DEF Cands, Candidates
<1>5. macLocks' = IF Spends(c) THEN LockMac(c[2], r) ELSE macLocks
  BY <1>1, <1>3 DEF LinkReady
<1>6. HeldBy(r)' = IF Spends(c) THEN {c[2]} ELSE {}
  BY <1>1, <1>4, <1>5 DEF LockMac, HeldBy
<1>7. Only(r) BY <1>1, <1>5 DEF Only, LockMac, Goto
<1>8. \/ Life(r) \in {"waiting", "live"} /\ Life(r)' = Life(r)
      \/ Life(r) = "ending" /\ Life(r)' = "over"
  BY <1>1, <1>2 DEF Life, Closing
<1>9. Changes(r)
  <2>1. CASE Spends(c) BY <1>1, <1>3, <1>6, <1>8, <2>1 DEF Changes, Allowed
  <2>2. CASE ~ Spends(c) BY <1>1, <1>6, <1>8, <2>2 DEF Changes, Allowed
  <2> QED BY <2>1, <2>2
<1>10. Refines BY <1>7, <1>9, OnlyOne
<1>11. PhaseInv'
  BY <1>1, <1>3, PhaseKept DEF Pumping, Walking
<1> QED BY <1>10, <1>11

\* The first byte: into the registry with the slot in hand, or on an unmetered source.
LEMMA FirstByteRefines ==
    ASSUME TypeInv, NoLingerInv, PhaseInv, NEW r \in Plays, FirstByte(r)
    PROVE  Refines /\ PhaseInv'
<1> USE DEF TypeInv, TypeOK, OccupancyTypeOK
<1>1. /\ pc[r] = "first" /\ handle[r] = r /\ proc[r] = "run" /\ Goto(r, "send")
      /\ UNCHANGED <<macLocks, dead>> /\ regd' = regd \cup {r}
      /\ streams' = IF r \in regd THEN streams ELSE streams \cup {r}
      /\ loc' = [loc EXCEPT ![r].yielded = TRUE, ![r].served = TRUE]
  BY DEF FirstByte, occupancyVars, NoLingerInv, NothingHeld
<1>2. pc'[r] = "send" /\ \A q \in Plays : q # r => pc'[q] = pc[q] BY <1>1 DEF Goto
<1>3. Only(r) BY <1>1, <1>2 DEF Only
<1>4. HeldBy(r)' = HeldBy(r) BY <1>1 DEF HeldBy
<1>5. ASSUME r \in regd PROVE Changes(r)
  <2>1. Life(r)' = Life(r) BY <1>1, <1>2, <1>5 DEF Life, Closing
  <2> QED BY <1>4, <2>1 DEF Changes, Allowed
<1>6. ASSUME r \notin regd PROVE Changes(r)
  <2>1. r \notin streams /\ r \notin dead
    BY <1>1, <1>6 DEF NoLingerInv, DeadWasRegistered, Closing
  <2>2. Life(r) = "waiting" /\ Life(r)' = "live"
    BY <1>1, <1>6, <2>1 DEF Life, Closing
  <2>3. PICK c \in Cands(r) : c = loc[r].cand BY <1>1 DEF PhaseInv
  <2>4. c[2] \in Macs BY <2>3, ChainAssumption DEF Cands, Candidates
  <2>5. Spends(c) => c[2] \in HeldBy(r)
    BY <1>1, <2>1, <2>3, <2>4 DEF NoLingerInv, PipeCounted, HeldBy
  <2> QED BY <1>4, <2>2, <2>3, <2>5 DEF Changes, Allowed
<1>7. Refines BY <1>3, <1>5, <1>6, OnlyOne
<1>8. \A q \in Plays : loc'[q].cand = loc[q].cand
  BY <1>1 DEF Locals
<1>9. PhaseInv' BY <1>1, <1>2, <1>8 DEF PhaseInv, Cands, Pumping, Feeding
<1> QED BY <1>7, <1>9

\* The walk over the chain.
LEMMA WalkRefines ==
    ASSUME TypeInv, NoLingerInv, PhaseInv, ~Linger, NEW r \in Plays, WalkStep(r)
    PROVE  Refines /\ PhaseInv'
<1> USE DEF TypeInv, TypeOK, occupancyVars, handleVars
<1>1. handle[r] = r /\ pc[r] # "attach" BY DEF NoLingerInv, NothingHeld
<1>2. ASSUME pc[r] \in {"start"} \cup Walking, NEW place \in {"pass", "passWait", "walk", "finish"},
             Goto(r, place), UNCHANGED <<macLocks, streams, regd, dead>>,
             \A q \in Plays : q # r => loc'[q] = loc[q]
      PROVE  Refines /\ PhaseInv'
  BY <1>2, MovesOn
<1>3. CASE Begin(r) BY <1>2, <1>3 DEF Begin
<1>4. CASE Attach(r) BY <1>1, <1>4 DEF Attach
<1>5. CASE PassGo(r) BY <1>2, <1>5 DEF PassGo, Walking
<1>6. CASE PassWait(r) BY <1>2, <1>6 DEF PassWait, Walking
<1>7. CASE WalkDead(r) BY <1>2, <1>7 DEF WalkDead, Walking
<1>8. CASE WalkAgain(r) BY <1>2, <1>8 DEF WalkAgain, WalkedAll, Walking
<1>9. CASE WalkRestart(r) BY <1>2, <1>9 DEF WalkRestart, WalkedAll, Walking
<1>10. CASE WalkOver(r) BY <1>2, <1>10 DEF WalkOver, Walking
<1>11. CASE LinkFailed(r) BY <1>2, <1>11 DEF LinkFailed, Walking
<1>12. CASE SourceFailed(r) BY <1>2, <1>12 DEF SourceFailed, Walking
<1>13. CASE LinkReady(r) BY <1>13, LinkRefines
<1>14. CASE FirstByte(r) BY <1>14, FirstByteRefines
<1>15. CASE NoData(r) BY <1>15, YieldRefines DEF NoData
<1>16. CASE TemplateBroken(r) BY <1>16, YieldRefines DEF TemplateBroken
<1>17. ASSUME NEW c \in Candidates, WalkBusy(r, c) PROVE Refines /\ PhaseInv'
  <2>1. Goto(r, "walk") BY <1>17 DEF WalkBusy, Goto
  <2> QED BY <1>2, <1>17, <2>1 DEF WalkBusy, Walking
<1>18. ASSUME NEW c \in Candidates, WalkPick(r, c) PROVE Refines /\ PhaseInv'
  <2>1. /\ pc[r] = "walk" /\ r \notin dead /\ c \in Cands(r) /\ Goto(r, "link")
        /\ UNCHANGED <<macLocks, streams, regd, dead>>
    BY <1>1, <1>18 DEF WalkPick
  <2>2. loc' = [loc EXCEPT ![r].cand = c] BY <1>18 DEF WalkPick
  <2>3. loc'[r].cand = c /\ \A q \in Plays : q # r => loc'[q] = loc[q] BY <2>2 DEF Locals
  <2>4. pc'[r] = "link" BY <2>1 DEF Goto
  <2>5. r \in regd => r \in streams BY <2>1 DEF PhaseInv
  <2>6. Life(r)' = Life(r) BY <2>1, <2>4, <2>5 DEF Life, Closing
  <2>7. Refines BY <2>1, <2>6, OnlyPc
  <2>8. PhaseInv' BY <2>1, <2>3, PhaseKept DEF Pumping, Walking
  <2> QED BY <2>7, <2>8
<1>19. ASSUME NEW h \in Plays, PassPreempt(r, h) PROVE Refines /\ PhaseInv'
  <2>1. KillStream(h) /\ Goto(r, "passWait") /\ pc[r] \in {"pass", "passWait"} /\ UNCHANGED <<regd, loc>>
    BY <1>19 DEF PassPreempt
  <2>2. \A q \in Plays : pc'[q] = pc[q] \/ (q = r /\ pc'[q] = "passWait")
    BY <2>1 DEF Goto
  <2>3. Refines BY <2>1, <2>2, KillRefines DEF Closing
  <2>4. PhaseInv' BY <2>1, <2>2, PhaseKeptByKill
  <2> QED BY <2>3, <2>4
<1> QED BY <1>3, <1>4, <1>5, <1>6, <1>7, <1>8, <1>9, <1>10, <1>11, <1>12, <1>13, <1>14, <1>15,
        <1>16, <1>17, <1>18, <1>19 DEF WalkStep

\* Feeding the player.
LEMMA FeedRefines ==
    ASSUME TypeInv, NoLingerInv, PhaseInv, NEW r \in Plays, FeedStep(r)
    PROVE  Refines /\ PhaseInv'
<1> USE DEF TypeInv, TypeOK, occupancyVars, handleVars
<1>1. ASSUME pc[r] \in Feeding, NEW place \in {"pass", "walk", "send", "read", "reap", "finish"},
             Goto(r, place), UNCHANGED <<macLocks, streams, regd, dead>>,
             \A q \in Plays : q # r => loc'[q] = loc[q]
      PROVE  Refines /\ PhaseInv'
  BY <1>1, MovesOn
<1>2. CASE ReadMore(r) BY <1>1, <1>2 DEF ReadMore, Feeding
<1>3. CASE ReadCrash(r) BY <1>1, <1>3 DEF ReadCrash, Feeding
<1>4. CASE Chunk(r) BY <1>1, <1>4 DEF Chunk, Feeding
<1>5. CASE NextCandidate(r)
  <2>1. loc[r].cand # None BY <1>5, NoneAssumption DEF NextCandidate, NoLingerInv, CandidatePlays
  <2> QED BY <1>1, <1>5, <2>1 DEF NextCandidate, Feeding
<1>6. ASSUME PipeEnded(r), pc[r] \in {"send", "read"} PROVE Refines /\ PhaseInv'
  <2>1. loc[r].cand # None BY <1>6, NoneAssumption DEF NoLingerInv, CandidatePlays
  <2> QED BY <1>6, <2>1, YieldRefines DEF PipeEnded
<1> QED BY <1>2, <1>3, <1>4, <1>5, <1>6 DEF FeedStep, ReadNothing, ReadEnded

\* The finally: what is left goes back, and the play is done.
LEMMA FinishRefines ==
    ASSUME TypeInv, NoLingerInv, PhaseInv, ~Linger, NEW r \in Plays, FinishStep(r)
    PROVE  Refines /\ PhaseInv'
<1> USE DEF TypeInv, TypeOK, occupancyVars, handleVars
<1>1. handle[r] = r /\ pc[r] # "parking" /\ parked = {} BY DEF NoLingerInv, NothingHeld
<1>2. CASE FinishNothing(r)
  <2>1. /\ r \notin regd /\ pc[r] = "finish" /\ Goto(r, "tail")
        /\ UNCHANGED <<macLocks, streams, regd, dead, loc>>
    BY <1>1, <1>2 DEF FinishNothing, MustFinish
  <2>2. r \notin streams /\ pc'[r] = "tail"
    BY <2>1 DEF NoLingerInv, DeadWasRegistered, Goto
  <2>3. Life(r)' = Life(r) BY <2>1, <2>2 DEF Life, Closing
  <2>4. Refines BY <2>1, <2>3, OnlyPc
  <2>5. PhaseInv' BY <2>1, <2>2, PhaseKept
  <2> QED BY <2>4, <2>5
<1>3. CASE FinishPark(r) BY <1>3 DEF FinishPark, CanPark
<1>4. CASE Parked(r) BY <1>1, <1>4 DEF Parked
<1>5. CASE FinishKill(r)
  <2>1. /\ pc[r] = "finish" /\ Goto(r, "closing")
        /\ UNCHANGED <<macLocks, streams, regd, dead, loc>>
    BY <1>5 DEF FinishKill
  <2>2. pc'[r] = "closing" BY <2>1 DEF Goto
  <2>3. Life(r)' = Life(r) BY <2>1, <2>2 DEF Life, Closing
  <2>4. Refines BY <2>1, <2>3, OnlyPc
  <2>5. PhaseInv' BY <2>1, PhaseKept DEF Pumping, Closing
  <2> QED BY <2>4, <2>5
<1>6. CASE FinishClosed(r)
  <2>1. /\ pc[r] = "closing" /\ Goto(r, "tail") /\ Deregister(r) /\ UNCHANGED <<regd, loc>>
    BY <1>1, <1>6 DEF FinishClosed
  <2>2. pc'[r] = "tail" /\ r \notin streams' BY <2>1 DEF Goto, Deregister
  <2>3. HeldBy(r)' = {} BY <2>1 DEF Deregister, DropLocksOf, HeldBy
  <2>4. Only(r) BY <2>1 DEF Only, Goto, Deregister, DropLocksOf
  <2>5. Life(r)' = "over" /\ Life(r) \in {"live", "over"}
    BY <2>1, <2>2 DEF Life, Closing
  <2>6. Changes(r) BY <2>3, <2>5 DEF Changes, Allowed
  <2>7. PhaseInv'
    BY <2>1, <2>2 DEF PhaseInv, Cands, Deregister, Goto, Pumping, Closing
  <2> QED BY <2>4, <2>6, <2>7, OnlyOne
<1>7. CASE Tail(r)
  <2>1. /\ pc[r] = "tail" /\ Goto(r, "end") /\ UNCHANGED <<streams, regd>>
        /\ macLocks' = (IF r \notin regd THEN DropLocksOf(r) ELSE macLocks)
        /\ dead \subseteq dead' /\ \A q \in Plays : q # r => loc'[q] = loc[q]
    BY <1>1, <1>7 DEF Tail
  <2>2. pc'[r] = "end" /\ r \notin streams
    BY <2>1 DEF Goto, PhaseInv, NoLingerInv, DeadWasRegistered
  <2>3. HeldBy(r)' = {}
    BY <2>1 DEF DropLocksOf, HeldBy, NoLingerInv, SlotOfCandidate
  <2>4. Only(r) BY <2>1 DEF Only, Goto, DropLocksOf
  <2>5. Life(r)' = "done" /\ Life(r) = "over" BY <2>1, <2>2 DEF Life, Closing
  <2>6. Changes(r) BY <2>3, <2>5 DEF Changes, Allowed
  <2>7. PhaseInv' BY <2>1, <2>2, PhaseKept
  <2> QED BY <2>4, <2>6, <2>7, OnlyOne
<1> QED BY <1>2, <1>3, <1>4, <1>5, <1>6, <1>7 DEF FinishStep

\* The tasks beside the requests.
LEMMA OtherRefines ==
    ASSUME TypeInv, NoLingerInv, PhaseInv, ~Linger, NEW r \in Plays, OtherStep(r)
    PROVE  Refines /\ PhaseInv'
<1> USE DEF TypeInv, TypeOK, occupancyVars, handleVars, pumpVars
<1>1. ASSUME UNCHANGED <<macLocks, streams, regd, pc, dead, loc>> PROVE Refines /\ PhaseInv'
  <2>1. \A q \in Plays : HeldBy(q)' = HeldBy(q) /\ Life(q)' = Life(q)
    BY <1>1 DEF HeldBy, Life
  <2>2. Refines BY <2>1, OneChange DEF Allowed, Refines
  <2> QED BY <1>1, <2>2 DEF PhaseInv, Cands
<1>2. ASSUME pc[r] \in Walking \cup Feeding, Goto(r, "finish"),
             UNCHANGED <<macLocks, streams, regd, dead, loc>>
      PROVE  Refines /\ PhaseInv'
  BY <1>2, MovesOn
<1>3. CASE Cancel(r)
  <2>1. CASE pc[r] \in Unstarted /\ Goto(r, "end")
    <3>1. r \notin regd /\ r \notin streams /\ HeldBy(r) = {}
      BY <2>1 DEF PhaseInv, NoLingerInv, DeadWasRegistered, SlotOfCandidate, HeldBy, Unstarted,
          Pumping, Walking, Feeding, Closing
    <3>2. UNCHANGED <<macLocks, streams, regd, dead, loc>> BY <1>3 DEF Cancel
    <3>3. pc'[r] = "end" BY <2>1 DEF Goto
    <3>4. Life(r) = "waiting" /\ Life(r)' = "done" BY <2>1, <3>1, <3>2, <3>3 DEF Life, Unstarted, Closing
    <3>5. Refines BY <2>1, <3>1, <3>2, <3>4, OnlyPc
    <3>6. PhaseInv' BY <2>1, <3>1, <3>2, PhaseKept
    <3> QED BY <3>5, <3>6
  <2>2. CASE pc[r] \in Walking \cup Feeding /\ Goto(r, "finish")
    BY <1>2, <1>3, <2>2 DEF Cancel
  <2> QED BY <1>3, <2>1, <2>2 DEF Cancel
<1>4. CASE GuardTimeout(r) BY <1>2, <1>4 DEF GuardTimeout, Walking, Feeding
<1>5. CASE ParkerStep(r)
  BY <1>5 DEF ParkerStep, ParkerStart, ParkerExpire, ParkerClosed, NoLingerInv, NothingHeld
<1>6. CASE WatchEnds(r) BY <1>1, <1>6 DEF WatchEnds
<1>7. ASSUME NEW h \in Plays, KillStream(h), UNCHANGED <<pc, regd, loc>> PROVE Refines /\ PhaseInv'
  BY <1>7, KillRefines, PhaseKeptByKill
<1>8. CASE ClientLeft(r) BY <1>7, <1>8 DEF ClientLeft, CanPark, NoLingerInv, NothingHeld
<1>9. CASE ReapDead(r)
  <2>1. r \in streams /\ Deregister(r) /\ UNCHANGED <<pc, regd, loc>> BY <1>9 DEF ReapDead
  <2>2. Refines BY <2>1, LeavesEmpty
  <2>3. PhaseInv' BY <2>1 DEF PhaseInv, Cands, Deregister
  <2> QED BY <2>2, <2>3
<1>10. CASE StopStream(r) BY <1>7, <1>10 DEF StopStream
<1>11. CASE Disconnect(r) BY <1>1, <1>11 DEF Disconnect
<1>12. CASE ProcessGone(r) BY <1>1, <1>12 DEF ProcessGone
<1> QED BY <1>3, <1>4, <1>5, <1>6, <1>8, <1>9, <1>10, <1>11, <1>12 DEF OtherStep, WatchStep

\* Nothing held and nobody registered is where PlaySlots starts.
LEMMA InitRefines == Init => Promise!Init /\ PhaseInv
<1> SUFFICES ASSUME Init PROVE Promise!Init /\ PhaseInv OBVIOUS
<1>1. \A p \in Plays : HeldBy(p) = {} /\ Life(p) = "waiting"
  BY DEF Init, OccupancyInit, HeldBy, Life, Closing
<1>2. PhaseInv BY DEF Init, PhaseInv
<1> QED BY <1>1, <1>2 DEF Promise!Init

\* Every step keeps PhaseInv and is a step or a stutter of PlaySlots.
LEMMA StepRefines ==
    ASSUME TypeInv, NoLingerInv, PhaseInv, ~Linger, [Next]_vars PROVE Refines /\ PhaseInv'
<1>1. ASSUME UNCHANGED <<macLocks, handleVars, pumpVars>> PROVE Refines /\ PhaseInv'
  <2>1. \A q \in Plays : HeldBy(q)' = HeldBy(q) /\ Life(q)' = Life(q)
    BY <1>1 DEF HeldBy, Life, handleVars, pumpVars
  <2>2. Refines BY <2>1 DEF Refines, Promise!slotVars
  <2> QED BY <1>1, <2>2 DEF PhaseInv, Cands, handleVars, pumpVars
<1>2. CASE UNCHANGED vars BY <1>1, <1>2 DEF vars, occupancyVars
<1>3. CASE LeaseStep BY <1>1, <1>3 DEF LeaseStep, LeaseMac, LeaseOver
<1>4. ASSUME NEW r \in Plays, PlayStep(r) PROVE Refines /\ PhaseInv'
  BY <1>4, OpenRefines, WalkRefines, FeedRefines, FinishRefines DEF PlayStep
<1>5. ASSUME NEW r \in Plays, OtherStep(r) PROVE Refines /\ PhaseInv'
  BY <1>5, OtherRefines
<1> QED BY <1>2, <1>3, <1>4, <1>5 DEF Next, OtherStep

\* Without lingering the stream manager implements PlaySlots: whatever failovers, passes,
\* restarts, takeovers, kills and reaps it goes through, a play holds one slot at a
\* time, leaves the registry for good, and is done only when all is given back.
THEOREM NoLingerKeepsSlots == ~Linger => (Spec => SlotsAreKept)
<1> SUFFICES ASSUME ~Linger PROVE Spec => SlotsAreKept OBVIOUS
<1>1. Init => Promise!Init /\ PhaseInv BY InitRefines
<1>2. TypeInv /\ NoLingerInv /\ PhaseInv /\ [Next]_vars
          => [Promise!Next]_(Promise!slotVars) /\ PhaseInv'
  BY StepRefines DEF Refines
<1> QED BY <1>1, <1>2, TypeCorrect, NoLingerInvariant, PTL DEF Spec, SlotsAreKept, Promise!Spec
=============================================================================
