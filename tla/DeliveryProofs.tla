--------------------------- MODULE DeliveryProofs ---------------------------
(***************************************************************************)
(* What a play opens, what it spawns and what it is promised, for any number of*)
(* openers, templates, sources, items and edits.                           *)
(***************************************************************************)
EXTENDS StreamOpening, StreamCommand, Delivery, SelectionProofs, FiniteSetTheorems
-----------------------------------------------------------------------------
(* Openings at a full portal (StreamOpening) *)

USE DEF Gates

Full == {<<"player", "browser">>, <<"browser", "player">>}
Ladders == Full \cup {<<"player">>, <<"browser">>, <<Nobody>>}
Opening ==
    [kind : OpenerKinds, at : Gates \cup {"idle", "next", "waiting", "playing", "failed", "gone"},
     todo : Ladders \cup {<<>>}, held : BOOLEAN, probe : BOOLEAN, refused : SUBSET (Identities \cup {Nobody}),
     last : {"none", "unreachable", "refused", "slow", "eof", "stalled", "template"}]

\* Openers whose every refusal counts: the other two have one rung, or skip rungs.
Stubborn == OpenerKinds \ {"pinned", "raw"}

\* Every identity is on a rung still to try, or has been refused.
RungsLeft(p) ==
    \/ p.todo \in Full
    \/ (p.todo = <<"player">>) /\ ("browser" \in p.refused)
    \/ (p.todo = <<"browser">>) /\ ("player" \in p.refused)

\* What every opening satisfies by itself: a connection is held while its answer is waited
\* for and while it plays, a gate's probe runs at the gate.
Orderly(p) ==
    /\ p \in Opening /\ (p.kind \in Stubborn => p.refused \subseteq Identities)
    /\ p.held => p.at \in {"waiting", "playing"}
    /\ p.probe => p.at \in Gates
    /\ p.at \in Gates \cup {"next", "waiting"} => p.todo \in Ladders /\ (p.kind \in Stubborn => RungsLeft(p))
    /\ p.at = "failed" /\ p.last = "refused" /\ p.kind \in Stubborn => p.refused = Identities

OpenInv ==
    /\ open = [o \in Openers |-> open[o]] /\ \A o \in Openers : Orderly(open[o])
    /\ learned \in Identities \cup {Nobody} /\ welcome \subseteq Identities /\ fed \subseteq Identities
    /\ learned # Nobody => learned \in fed
    /\ strays \in Nat /\ cutShort \in Nat /\ strays <= cutShort

\* A ladder has two rungs or one.
LEMMA RungsOfLadders ==
    /\ \A l \in Full : Len(l) = 2 /\ Head(l) \in Identities
    /\ Tail(<<"player", "browser">>) = <<"browser">> /\ Head(<<"player", "browser">>) = "player"
    /\ Tail(<<"browser", "player">>) = <<"player">> /\ Head(<<"browser", "player">>) = "browser"
    /\ \A u : Len(<<u>>) = 1 /\ Head(<<u>>) = u /\ Tail(<<u>>) = <<>>
BY DEF Full, Identities
LEMMA LaddersShrink ==
    ASSUME NEW l \in Ladders
    PROVE  /\ Head(l) \in Identities \cup {Nobody} /\ Tail(l) \in Ladders \cup {<<>>}
           /\ Len(l) > 1 => l \in Full /\ Tail(l) \in Ladders
<1>1. CASE l = <<"player", "browser">> BY <1>1, RungsOfLadders DEF Full, Ladders, Identities
<1>2. CASE l = <<"browser", "player">> BY <1>2, RungsOfLadders DEF Full, Ladders, Identities
<1>3. CASE l \in {<<"player">>, <<"browser">>, <<Nobody>>}
    <2>1. PICK u \in Identities \cup {Nobody} : l = <<u>> BY <1>3 DEF Identities
    <2>2. Len(l) = 1 /\ Head(l) = u /\ Tail(l) = <<>> BY <2>1, RungsOfLadders
    <2> QED BY <2>2
<1> QED BY <1>1, <1>2, <1>3 DEF Full, Ladders

\* A new opening climbs the whole ladder.
LEMMA BeginIsOrderly ==
    ASSUME NEW kind \in OpenerKinds, NEW known \in Identities \cup {Nobody}, NEW at \in Gates \cup {"next"}
    PROVE  Orderly([Closed EXCEPT !.kind = kind, !.todo = Ladder(kind, known), !.at = at])
<1> DEFINE p == [Closed EXCEPT !.kind = kind, !.todo = Ladder(kind, known), !.at = at]
<1>1. Ladder(kind, known) \in Ladders /\ (kind \in Stubborn => Ladder(kind, known) \in Full)
    BY DEF Ladder, Ladders, Full, Stubborn
<1>2. Closed \in Opening BY DEF Closed, Opening, OpenerKinds
<1>3. /\ p.kind = kind /\ p.at = at /\ p.todo = Ladder(kind, known)
      /\ p.held = Closed.held /\ p.probe = Closed.probe /\ p.refused = Closed.refused /\ p.last = Closed.last
    BY <1>2 DEF Opening
<1>4. p \in Opening BY <1>1, <1>2 DEF Opening
<1>5. ~Closed.held /\ ~Closed.probe /\ Closed.refused = {} /\ Closed.last = "none" BY DEF Closed
<1> HIDE DEF p
<1>6. Orderly(p) BY <1>1, <1>3, <1>5, <1>4 DEF Orderly, RungsLeft
<1> QED BY <1>6 DEF p

\* One refused, and none left that has not been: the opening may fail.
LEMMA UnservedIsOrderly ==
    ASSUME NEW o \in Openers, Orderly(open[o]), open[o].at = "waiting",
           NEW answer \in {"refused", "slow", "eof", "stalled", "template"}
    PROVE  Orderly(Unserved(o, answer))
<1> DEFINE b == open[o]
           refused == IF answer = "refused" THEN b.refused \cup {Head(b.todo)} ELSE b.refused
           q == [b EXCEPT !.held = FALSE, !.last = answer, !.refused = refused]
           next == [q EXCEPT !.at = FirstStep(b.kind), !.todo = Tail(@)]
           failed == [q EXCEPT !.at = "failed"]
<1>1. b \in Opening /\ b.todo \in Ladders /\ ~b.probe /\ (b.kind \in Stubborn => RungsLeft(b))
    BY DEF Orderly
<1>2. b.kind \notin {"pinned", "raw"} <=> b.kind \in Stubborn BY <1>1 DEF Opening, Stubborn
<1>3. Unserved(o, answer) = IF GoesOn(b.kind, answer) /\ Len(b.todo) > 1 THEN next ELSE failed
    BY <1>1 DEF Unserved, Opening
<1>4. Head(b.todo) \in Identities \cup {Nobody} /\ Tail(b.todo) \in Ladders \cup {<<>>}
    BY <1>1, LaddersShrink
<1>5. refused \subseteq Identities \cup {Nobody} BY <1>1, <1>4 DEF Opening
<1>6. q \in Opening BY <1>1, <1>5 DEF Opening
<1>7. next \in Opening /\ failed \in Opening
    <2>1. FirstStep(b.kind) \in {"remux", "next"} BY DEF FirstStep
    <2>2. q.todo = b.todo BY <1>1, <1>5 DEF Opening
    <2> HIDE DEF q
    <2> QED BY <1>4, <1>6, <2>1, <2>2 DEF Opening
<1>8. /\ next.kind = b.kind /\ next.at = FirstStep(b.kind) /\ next.todo = Tail(b.todo) /\ ~next.held
      /\ next.probe = b.probe /\ next.refused = refused /\ next.last = answer
    BY <1>1, <1>6 DEF Opening
<1>9. /\ failed.kind = b.kind /\ failed.at = "failed" /\ failed.todo = b.todo /\ ~failed.held
      /\ failed.probe = b.probe /\ failed.refused = refused /\ failed.last = answer
    BY <1>1, <1>6 DEF Opening
<1>10. b.kind \in Stubborn => refused \subseteq Identities
    <2>1. b.kind \in Stubborn => b.refused \subseteq Identities BY DEF Orderly
    <2>2. b.kind \in Stubborn => Head(b.todo) \in Identities
        <3>1. b.todo \in Full => Head(b.todo) \in Identities BY RungsOfLadders
        <3>2. b.todo = <<"player">> => Head(b.todo) = "player" BY RungsOfLadders
        <3>3. b.todo = <<"browser">> => Head(b.todo) = "browser" BY RungsOfLadders
        <3> QED BY <1>1, <3>1, <3>2, <3>3 DEF RungsLeft, Identities
    <2> QED BY <2>1, <2>2
<1>11. ASSUME b.kind \in Stubborn, Len(b.todo) > 1, answer = "refused" PROVE RungsLeft(next)
    <2>1. b.todo \in Full BY <1>1, <1>11, LaddersShrink
    <2>2. refused = b.refused \cup {Head(b.todo)} BY <1>11
    <2> HIDE DEF refused, next, b
    <2>3. CASE b.todo = <<"player", "browser">>
        BY <2>2, <2>3, <1>8, RungsOfLadders DEF RungsLeft
    <2>4. CASE b.todo = <<"browser", "player">>
        BY <2>2, <2>4, <1>8, RungsOfLadders DEF RungsLeft
    <2> QED BY <2>1, <2>3, <2>4 DEF Full
<1>12. ASSUME b.kind \in Stubborn, ~ (Len(b.todo) > 1), answer = "refused" PROVE refused = Identities
    <2>1. refused = b.refused \cup {Head(b.todo)} BY <1>12
    <2> HIDE DEF refused, next, b
    <2>2. ~ (b.todo \in Full) BY <1>12, RungsOfLadders
    <2>3. CASE b.todo = <<"player">> /\ "browser" \in b.refused
        BY <2>1, <2>3, <1>10, <1>12, RungsOfLadders DEF Identities
    <2>4. CASE b.todo = <<"browser">> /\ "player" \in b.refused
        BY <2>1, <2>4, <1>10, <1>12, RungsOfLadders DEF Identities
    <2> QED BY <1>1, <1>12, <2>2, <2>3, <2>4 DEF RungsLeft
<1> HIDE DEF b, refused, q, next, failed
<1>13. ASSUME GoesOn(b.kind, answer), Len(b.todo) > 1 PROVE Orderly(next)
    <2>1. Tail(b.todo) \in Ladders
        BY <1>1, <1>13, LaddersShrink
    <2>2. b.kind \in Stubborn => answer = "refused" BY <1>2, <1>13 DEF GoesOn
    <2> QED BY <2>1, <2>2, <1>1, <1>7, <1>8, <1>10, <1>11, <1>13 DEF Orderly, FirstStep
<1>14. ASSUME ~ (GoesOn(b.kind, answer) /\ Len(b.todo) > 1) PROVE Orderly(failed)
    <2>1. answer = "refused" => ~ (Len(b.todo) > 1) BY <1>14 DEF GoesOn
    <2> QED BY <2>1, <1>1, <1>7, <1>9, <1>10, <1>12 DEF Orderly
<1> QED BY <1>3, <1>13, <1>14

-----------------------------------------------------------------------------
(* Every step keeps the order                                               *)

LEMMA OpenInitInv == OpenInit => OpenInv
<1> SUFFICES ASSUME OpenInit PROVE OpenInv OBVIOUS
<1>1. Orderly(Closed)
    <2>1. Closed \in Opening BY DEF Closed, Opening, OpenerKinds
    <2> QED BY <2>1 DEF Closed, Orderly
<1> QED BY <1>1 DEF OpenInit, OpenInv, Identities

\* A step that leaves one opening in order, and what is learned alone, keeps the invariant.
LEMMA OneOpening ==
    ASSUME OpenInv, NEW o \in Openers, NEW p, Orderly(p), open' = [open EXCEPT ![o] = p],
           UNCHANGED <<welcome, learned, strays, fed, cutShort>>
    PROVE  OpenInv'
<1>1. \A q \in Openers : open'[q] = IF q = o THEN p ELSE open[q] BY DEF OpenInv
<1>2. open' = [q \in Openers |-> open'[q]] BY DEF OpenInv
<1> QED BY <1>1, <1>2 DEF OpenInv

LEMMA BeginKeeps == ASSUME OpenInv, NEW o \in Openers, NEW kind \in OpenerKinds, BeginOpen(o, kind) PROVE OpenInv'
<1> DEFINE at == FirstStep(kind)
<1>1. at \in Gates \cup {"next"} BY DEF FirstStep
<1>2. open' = [open EXCEPT ![o] = [Closed EXCEPT !.kind = kind, !.todo = Ladder(kind, learned), !.at = at]]
    BY DEF BeginOpen
<1> HIDE DEF at
<1>3. Orderly([Closed EXCEPT !.kind = kind, !.todo = Ladder(kind, learned), !.at = at])
    BY <1>1, BeginIsOrderly DEF OpenInv
<1> QED BY <1>2, <1>3, OneOpening DEF BeginOpen

LEMMA ConnectKeeps == ASSUME OpenInv, NEW o \in Openers, Connect(o) PROVE OpenInv'
<1> DEFINE p == open[o]
           spawned == [p EXCEPT !.at = "waiting", !.held = TRUE]
           rung == p.kind = "raw" /\ Len(p.todo) > 1
           missed == [p EXCEPT !.last = "unreachable", !.at = IF rung THEN "next" ELSE "failed",
                               !.todo = IF rung THEN Tail(@) ELSE @]
<1>1. Orderly(p) /\ p \in Opening /\ p.at = "next" /\ p.todo \in Ladders
    BY DEF OpenInv, Orderly, Connect
<1>2. Orderly(spawned)
    <2>1. spawned \in Opening BY <1>1 DEF Opening
    <2>2. /\ spawned.at = "waiting" /\ spawned.todo = p.todo /\ spawned.kind = p.kind
          /\ spawned.refused = p.refused /\ spawned.probe = p.probe
        BY <1>1 DEF Opening
    <2> HIDE DEF spawned, p
    <2> QED BY <1>1, <2>1, <2>2 DEF Orderly, RungsLeft
<1>3. Orderly(missed)
    <2>1. Tail(p.todo) \in Ladders \cup {<<>>} /\ (Len(p.todo) > 1 => Tail(p.todo) \in Ladders)
        BY <1>1, LaddersShrink
    <2>2. missed \in Opening BY <1>1, <2>1 DEF Opening
    <2>3. /\ missed.at = (IF rung THEN "next" ELSE "failed") /\ missed.todo = (IF rung THEN Tail(p.todo) ELSE p.todo)
          /\ missed.kind = p.kind /\ missed.refused = p.refused /\ missed.probe = p.probe /\ missed.held = p.held
          /\ missed.last = "unreachable"
        BY <1>1 DEF Opening
    <2>4. rung => p.kind \notin Stubborn BY DEF Stubborn
    <2> HIDE DEF missed, p
    <2> QED BY <1>1, <2>1, <2>2, <2>3, <2>4 DEF Orderly
<1>4. \/ open' = [open EXCEPT ![o] = spawned]
      \/ open' = [open EXCEPT ![o] = missed]
    BY DEF Connect, OpenInv
<1> QED BY <1>2, <1>3, <1>4, OneOpening DEF Connect

\* An answer ends the wait: a play keeps the connection, a demo and a probe close it.
LEMMA GivenKeeps ==
    ASSUME OpenInv, NEW o \in Openers, Given(o), NEW p, Orderly(p), open' = [open EXCEPT ![o] = p]
    PROVE  OpenInv'
<1>1. \A q \in Openers : open'[q] = IF q = o THEN p ELSE open[q] BY DEF OpenInv
<1>2. open' = [q \in Openers |-> open'[q]] BY DEF OpenInv
<1>3. Head(open[o].todo) \in Identities \cup {Nobody}
    BY LaddersShrink DEF OpenInv, Orderly, Given
<1>4. /\ learned' \in Identities \cup {Nobody} /\ welcome' \subseteq Identities /\ fed' \subseteq Identities
      /\ learned' # Nobody => learned' \in fed'
      /\ strays' = strays /\ cutShort' = cutShort
    BY <1>3 DEF OpenInv, Given
<1> QED BY <1>1, <1>2, <1>4 DEF OpenInv

LEMMA AnswerKeeps == ASSUME OpenInv, NEW o \in Openers, Bytes(o) \/ Shown(o) \/ Listed(o) PROVE OpenInv'
<1> DEFINE p == open[o]
           playing == [p EXCEPT !.at = "playing"]
           idle == [p EXCEPT !.at = "idle", !.held = FALSE]
<1>1. p \in Opening /\ Orderly(p) /\ p.at = "waiting"
    BY DEF OpenInv, Orderly, Bytes, Shown, Listed, Given
<1>2. Orderly(playing)
    <2>1. playing \in Opening BY <1>1 DEF Opening
    <2>2. playing.at = "playing" /\ playing.probe = p.probe /\ playing.kind = p.kind /\ playing.refused = p.refused
        BY <1>1 DEF Opening
    <2> HIDE DEF playing, p
    <2> QED BY <1>1, <2>1, <2>2 DEF Orderly
<1>3. Orderly(idle)
    <2>1. idle \in Opening BY <1>1 DEF Opening
    <2>2. idle.at = "idle" /\ ~idle.held /\ idle.probe = p.probe /\ idle.kind = p.kind /\ idle.refused = p.refused
        BY <1>1 DEF Opening
    <2> HIDE DEF idle, p
    <2> QED BY <1>1, <2>1, <2>2 DEF Orderly
<1>4. Given(o) /\ (open' = [open EXCEPT ![o] = playing] \/ open' = [open EXCEPT ![o] = idle])
    BY DEF Bytes, Shown, Listed, OpenInv
<1> QED BY <1>2, <1>3, <1>4, GivenKeeps

\* What ends an opening, or a gate in front of it, closes what it held.
LEMMA EndsKeep ==
    ASSUME OpenInv, NEW o \in Openers,
           GateProbes(o) \/ PassGate(o) \/ Cancel(o) \/ KillProcess(o) \/ CloseResponse(o)
    PROVE  OpenInv'
<1> DEFINE p == open[o]
<1>1. p \in Opening /\ Orderly(p) BY DEF OpenInv, Orderly
<1>2. ASSUME GateProbes(o) PROVE OpenInv'
    <2> DEFINE q == [p EXCEPT !.probe = TRUE]
    <2>1. q \in Opening BY <1>1 DEF Opening
    <2>2. /\ q.at = p.at /\ q.probe = TRUE /\ q.kind = p.kind /\ q.todo = p.todo /\ q.held = p.held
          /\ q.refused = p.refused /\ q.last = p.last
        BY <1>1 DEF Opening
    <2>3. p.at \in Gates /\ open' = [open EXCEPT ![o] = q] BY <1>2 DEF GateProbes, OpenInv
    <2> HIDE DEF q, p
    <2>4. Orderly(q) BY <1>1, <2>1, <2>3, <2>2 DEF Orderly, RungsLeft
    <2> QED BY <1>2, <2>3, <2>4, OneOpening DEF GateProbes
<1>3. ASSUME PassGate(o) PROVE OpenInv'
    <2> DEFINE q == [p EXCEPT !.probe = FALSE, !.at = IF @ = "remux" THEN "subs" ELSE "next"]
    <2>1. q \in Opening BY <1>1 DEF Opening
    <2>2. /\ q.at \in {"subs", "next"} /\ ~q.probe /\ q.kind = p.kind /\ q.todo = p.todo /\ q.held = p.held
          /\ q.refused = p.refused
        BY <1>1 DEF Opening
    <2>3. p.at \in Gates /\ open' = [open EXCEPT ![o] = q] BY <1>3 DEF PassGate, OpenInv
    <2> HIDE DEF q, p
    <2>4. Orderly(q) BY <1>1, <2>1, <2>2, <2>3 DEF Orderly, RungsLeft
    <2> QED BY <1>3, <2>3, <2>4, OneOpening DEF PassGate
<1>4. ASSUME Cancel(o) PROVE OpenInv'
    <2> DEFINE q == [p EXCEPT !.at = "gone", !.held = FALSE, !.probe = FALSE]
    <2>1. q \in Opening BY <1>1 DEF Opening
    <2>2. q.at = "gone" /\ ~q.held /\ ~q.probe /\ q.kind = p.kind /\ q.refused = p.refused BY <1>1 DEF Opening
    <2>3. open' = [open EXCEPT ![o] = q] BY <1>4 DEF Cancel, Unwound, OpenInv
    <2> HIDE DEF q, p
    <2>4. Orderly(q) BY <1>1, <2>1, <2>2 DEF Orderly
    <2>5. strays' \in Nat /\ cutShort' \in Nat /\ strays' <= cutShort'
        BY <1>4 DEF Cancel, Left, OpenInv
    <2>6. \A r \in Openers : open'[r] = IF r = o THEN q ELSE open[r] BY <2>3 DEF OpenInv
    <2>7. open' = [r \in Openers |-> open'[r]] BY <2>3 DEF OpenInv
    <2> QED BY <1>4, <2>4, <2>5, <2>6, <2>7 DEF OpenInv, Cancel
<1>5. ASSUME KillProcess(o) \/ CloseResponse(o) PROVE OpenInv'
    <2> DEFINE q == [p EXCEPT !.held = FALSE, !.at = "idle"]
    <2>1. q \in Opening BY <1>1 DEF Opening
    <2>2. q.at = "idle" /\ ~q.held /\ q.probe = p.probe /\ q.kind = p.kind /\ q.refused = p.refused
        BY <1>1 DEF Opening
    <2>3. p.at = "playing" /\ Ended(o) BY <1>5 DEF KillProcess, CloseResponse
    <2>4. open' = [open EXCEPT ![o] = q] BY <2>3 DEF Ended, OpenInv
    <2> HIDE DEF q, p
    <2>5. Orderly(q) BY <1>1, <2>1, <2>2, <2>3 DEF Orderly
    <2> QED BY <2>3, <2>4, <2>5, OneOpening DEF Ended
<1> QED BY <1>2, <1>3, <1>4, <1>5

LEMMA OpenStep == ASSUME OpenInv, [OpenNext]_openVars PROVE OpenInv'
<1>1. ASSUME NEW o \in Openers, NoBytes(o) PROVE OpenInv'
    <2>1. PICK answer \in {"refused", "slow", "eof", "stalled", "template"} :
              open' = [open EXCEPT ![o] = Unserved(o, answer)]
        BY <1>1 DEF NoBytes
    <2>2. Orderly(Unserved(o, answer)) BY <1>1, UnservedIsOrderly DEF NoBytes, OpenInv
    <2> QED BY <1>1, <2>1, <2>2, OneOpening DEF NoBytes
<1>2. ASSUME Flip PROVE OpenInv' BY <1>2 DEF Flip, OpenInv
<1>3. ASSUME UNCHANGED openVars PROVE OpenInv' BY <1>3 DEF openVars, OpenInv
<1>4. ASSUME StrayEnds PROVE OpenInv' BY <1>4 DEF StrayEnds, OpenInv
<1> QED BY <1>1, <1>2, <1>3, <1>4, BeginKeeps, ConnectKeeps, AnswerKeeps, EndsKeep DEF OpenNext

\* What every opening satisfies is what is claimed of them.
LEMMA OpenInvSuffices == OpenInv => OpeningsEndClean
<1> SUFFICES ASSUME OpenInv PROVE OpeningsEndClean OBVIOUS
<1>1. NothingLeftOpen BY DEF OpenInv, Orderly, NothingLeftOpen
<1>2. \A o \in Openers : open[o].kind \notin {"pinned", "raw"} => open[o].kind \in Stubborn
    BY DEF OpenInv, Orderly, Opening, Stubborn
<1>3. RefusedByBoth BY <1>2 DEF OpenInv, Orderly, RefusedByBoth
<1> QED BY <1>1, <1>3 DEF OpeningsEndClean

\* Every opening ends clean, whatever the origins say and however many openers there are:
\* what failed, was cancelled or goes on holds no connection, no gate's probe runs beside a
\* play, and who ends on a refusal was refused with both identities.
THEOREM OpeningsEnd == OpenSpec => []OpeningsEndClean
<1>1. OpenSpec => []OpenInv BY OpenInitInv, OpenStep, PTL DEF OpenSpec
<1> QED BY <1>1, OpenInvSuffices, PTL

HIDE DEF Gates
-----------------------------------------------------------------------------
(* The command line of one start (StreamCommand) *)

\* An argv, as a record of what its options say.
IsArgv(a) ==
    a \in [muxer : {a.muxer}, vcodec : {a.vcodec}, acodec : {a.acodec}, bsf : {a.bsf},
           maps : {a.maps}, all : {a.all}, scodec : {a.scodec}, sn : {a.sn}, flags : {a.flags}]

\* TracksAhead the gate of the subtitles: a text that wants some maps them all, and does not
\* switch them off.
Prepared(a) ==
    /\ IsArgv(a) /\ a.maps = {} /\ a.all \in BOOLEAN
    /\ command.subs => a.all
    /\ a.all \/ a.scodec # "none" => ~a.sn

SubsFit(a, told) ==
    /\ "subs" \in told => Mapped(a) \subseteq Tracks(a.muxer)
    /\ "subs" \in told /\ command.subs =>
           \A n \in Tracks(a.muxer) \ Mapped(a) : Cardinality(TracksAhead(n, a.muxer)) >= Cap(a.muxer)
    /\ a.muxer = "mpegts" /\ a.scodec # "none" => Mapped(a) \subseteq Tracks(a.muxer)
    /\ Mapped(a) # {} => ~a.sn

CodecsFit == "codecs" \in start.told => PictureFits(start.argv) /\ SoundFits(start.argv)

TextInv ==
    /\ reel \in Inputs
    /\ command.subs \in BOOLEAN
    /\ command.subs \/ command.scodec # "none" => ~command.sn

StartInv ==
    /\ start = [at |-> start.at, argv |-> start.argv, told |-> start.told]
    /\ start.at \in {"idle", "remux", "subs", "spawn"}
    /\ ~reel.live =>
       /\ start.at = "remux" => start.told = {}
       /\ start.at \in {"remux", "subs"} => Prepared(start.argv) /\ "subs" \notin start.told
       /\ start.at \in {"subs", "spawn"} => CodecsFit
       /\ start.at = "spawn" => SubsFit(start.argv, start.told)

\* What each fix-up writes, and what it leaves.
LEMMA SilentArgv ==
    ASSUME NEW a, IsArgv(a)
    PROVE  LET b == Silent(a) IN
           /\ IsArgv(b) /\ b.maps = {} /\ b.all = FALSE /\ b.scodec = "none" /\ b.sn = TRUE
           /\ b.muxer = a.muxer /\ b.vcodec = a.vcodec /\ b.acodec = a.acodec /\ b.bsf = a.bsf
<1> DEFINE b == Silent(a)
<1>1. /\ b.muxer = a.muxer /\ b.vcodec = a.vcodec /\ b.acodec = a.acodec
      /\ b.bsf = a.bsf /\ b.maps = {} /\ b.all = FALSE /\ b.scodec = "none" /\ b.sn = TRUE
  BY DEF IsArgv, Silent
<1>2. IsArgv(b)
  BY DEF IsArgv, Silent
<1> QED BY <1>1, <1>2

LEMMA AnnexBArgv ==
    ASSUME NEW a, IsArgv(a)
    PROVE  LET b == AnnexB(a) IN
           /\ IsArgv(b) /\ b.maps = a.maps /\ b.all = a.all /\ b.scodec = a.scodec /\ b.sn = a.sn
<1> DEFINE b == AnnexB(a)
<1>1. /\ b.muxer = a.muxer /\ b.vcodec = a.vcodec /\ b.acodec = a.acodec
      /\ b.maps = a.maps /\ b.all = a.all /\ b.scodec = a.scodec /\ b.sn = a.sn
  BY DEF IsArgv, AnnexB
<1>2. IsArgv(b)
  BY DEF IsArgv, AnnexB
<1> QED BY <1>1, <1>2

LEMMA FlushingArgv ==
    ASSUME NEW a, IsArgv(a)
    PROVE  LET b == Flushing(a) IN
           /\ IsArgv(b) /\ b.maps = a.maps /\ b.all = a.all /\ b.scodec = a.scodec /\ b.sn = a.sn
<1> DEFINE b == Flushing(a)
<1>1. /\ b.muxer = a.muxer /\ b.vcodec = a.vcodec /\ b.acodec = a.acodec
      /\ b.maps = a.maps /\ b.all = a.all /\ b.scodec = a.scodec /\ b.sn = a.sn
  BY DEF IsArgv, Flushing
<1>2. IsArgv(b)
  BY DEF IsArgv, Flushing
<1> QED BY <1>1, <1>2

LEMMA RemuxedArgv ==
    ASSUME NEW a, IsArgv(a)
    PROVE  LET b == Remuxed(a) IN
           /\ IsArgv(b) /\ b.maps = a.maps /\ b.all = a.all /\ b.scodec = a.scodec /\ b.sn = a.sn
           /\ PictureFits(b) /\ SoundFits(b)
<1> DEFINE b == Remuxed(a)
<1>1. IsArgv(b)
  BY DEF IsArgv, Remuxed
<1>2. /\ b.maps = a.maps /\ b.all = a.all /\ b.scodec = a.scodec /\ b.sn = a.sn
      /\ b.vcodec = a.vcodec
  BY DEF IsArgv, Remuxed
<1>3. b.vcodec = "copy" => b.bsf = Filter(reel.video)
  BY DEF IsArgv, Remuxed
<1>4. b.acodec = "copy" => reel.audio \in TsAudio \cup {"none"}
  BY DEF IsArgv, Remuxed
<1> QED BY <1>1, <1>2, <1>3, <1>4 DEF PictureFits, SoundFits

LEMMA RemappedArgv ==
    ASSUME NEW a, IsArgv(a), NEW codec
    PROVE  LET b == Remapped(a, codec) IN
           /\ b.maps = FirstTracks(a.muxer) /\ b.all = FALSE /\ b.scodec = codec /\ b.sn = a.sn
           /\ b.muxer = a.muxer /\ b.vcodec = a.vcodec /\ b.acodec = a.acodec /\ b.bsf = a.bsf
BY DEF IsArgv, Remapped

\* What the gate's list leaves out is out for want of room only.
LEMMA FirstOfTracks ==
    ASSUME reel \in Inputs, NEW muxer
    PROVE  /\ FirstTracks(muxer) \subseteq Tracks(muxer)
           /\ \A n \in Tracks(muxer) \ FirstTracks(muxer) : Cardinality(TracksAhead(n, muxer)) >= Cap(muxer)
<1>1. FirstTracks(muxer) \subseteq Tracks(muxer)
  BY DEF FirstTracks
<1>2. ASSUME NEW n \in Tracks(muxer) \ FirstTracks(muxer)
      PROVE  Cardinality(TracksAhead(n, muxer)) >= Cap(muxer)
  <2>1. ~(Cardinality(TracksAhead(n, muxer)) < Cap(muxer))
    BY <1>2 DEF FirstTracks
  <2>2. Tracks(muxer) \subseteq 1 .. Len(reel.subs)
    BY DEF Tracks
  <2>3. IsFiniteSet(1 .. Len(reel.subs))
    BY LenProperties, FS_Interval DEF Inputs
  <2>4. Cardinality(TracksAhead(n, muxer)) \in Nat
    BY <2>2, <2>3, FS_Subset, FS_CardinalityType DEF TracksAhead
  <2>5. Cap(muxer) \in Nat
    BY CommandAssumption DEF Cap
  <2> QED BY <2>1, <2>4, <2>5
<1> QED BY <1>1, <1>2

\* A rendered text, before the gates.
LEMMA RenderedIsPrepared ==
    ASSUME TextInv, ~reel.live, Argv(command) # Unusable
    PROVE  Prepared(Argv(command))
<1> DEFINE c == command
           read == [muxer |-> c.muxer, vcodec |-> c.vcodec, acodec |-> c.acodec, bsf |-> c.bsf,
                    maps |-> {}, all |-> c.subs, scodec |-> c.scodec, sn |-> c.sn,
                    flags |-> c.ours \cup (c.extras \cap {"flush_packets"}) \cup InputFlags]
           quiet == IF WantsSubs(c) THEN read ELSE Silent(read)
<1>1. Argv(command) = Flushing(AnnexB(quiet))
  BY DEF Argv
<1>2. /\ IsArgv(read) /\ read.maps = {} /\ read.all = c.subs /\ read.scodec = c.scodec /\ read.sn = c.sn
  BY DEF IsArgv
<1> HIDE DEF read
<1>3. Prepared(quiet)
  <2>1. CASE WantsSubs(c)
    BY <1>2, <2>1 DEF Prepared, TextInv, WantsSubs
  <2>2. CASE ~WantsSubs(c)
    BY <1>2, <2>2, SilentArgv DEF Prepared, TextInv, WantsSubs
  <2> QED BY <2>1, <2>2
<1> HIDE DEF quiet
<1>4. Prepared(AnnexB(quiet))
  BY <1>3, AnnexBArgv DEF Prepared
<1>5. Prepared(Flushing(AnnexB(quiet)))
  BY <1>4, FlushingArgv DEF Prepared
<1> QED BY <1>1, <1>5

\* The gate of the subtitles leaves what its container carries, or nothing.
LEMMA SubtitledFits ==
    ASSUME reel \in Inputs, NEW a, Prepared(a), a.scodec # "none", NEW told
    PROVE  /\ SubsFit(Subtitled(a), told)
           /\ Subtitled(a).muxer = a.muxer /\ Subtitled(a).vcodec = a.vcodec
           /\ Subtitled(a).acodec = a.acodec /\ Subtitled(a).bsf = a.bsf
<1>1. IsArgv(a) /\ a.maps = {} /\ a.all \in BOOLEAN /\ (command.subs => a.all) /\ ~a.sn
  BY DEF Prepared
<1>2. CASE a.muxer = "matroska" /\ Tracks(a.muxer) = 1 .. Len(reel.subs)
  <2>1. Subtitled(a) = a
    BY <1>2 DEF Subtitled
  <2> QED BY <1>1, <1>2, <2>1 DEF SubsFit, Mapped
<1>3. CASE Tracks(a.muxer) = {} /\ Subtitled(a) = Silent(a)
  BY <1>1, <1>3, SilentArgv DEF SubsFit, Mapped, TracksAhead
<1>4. CASE \E codec : Subtitled(a) = Remapped(a, codec)
  <2> PICK codec : Subtitled(a) = Remapped(a, codec)
    BY <1>4
  <2> DEFINE b == Remapped(a, codec)
  <2>1. /\ b.maps = FirstTracks(a.muxer) /\ b.all = FALSE /\ b.scodec = codec /\ b.sn = a.sn
        /\ b.muxer = a.muxer /\ b.vcodec = a.vcodec /\ b.acodec = a.acodec /\ b.bsf = a.bsf
    BY <1>1, RemappedArgv
  <2> HIDE DEF b
  <2>2. SubsFit(b, told)
    BY <1>1, <2>1, FirstOfTracks DEF SubsFit, Mapped
  <2> QED BY <2>1, <2>2 DEF b
<1> QED BY <1>2, <1>3, <1>4 DEF Subtitled

LEMMA UnknownFits ==
    ASSUME NEW a, Prepared(a), a.scodec # "none", NEW told, "subs" \notin told
    PROVE  /\ SubsFit(SubsUnknown(a), told)
           /\ SubsUnknown(a).muxer = a.muxer /\ SubsUnknown(a).vcodec = a.vcodec
           /\ SubsUnknown(a).acodec = a.acodec /\ SubsUnknown(a).bsf = a.bsf
<1>1. IsArgv(a) /\ a.maps = {} /\ a.all \in BOOLEAN /\ ~a.sn
  BY DEF Prepared
<1>2. CASE a.muxer = "matroska"
  BY <1>1, <1>2 DEF SubsUnknown, SubsFit
<1>3. CASE a.muxer # "matroska"
  BY <1>1, <1>3, SilentArgv DEF SubsUnknown, SubsFit, Mapped
<1> QED BY <1>2, <1>3

LEMMA UnaskedFits ==
    ASSUME NEW a, Prepared(a), a.scodec = "none", NEW told, "subs" \notin told
    PROVE  SubsFit(a, told)
BY DEF Prepared, SubsFit, Mapped

LEMMA CommandStarts == ASSUME CommandInit PROVE TextInv /\ StartInv
<1>1. PICK o \in Offered : command \in CommandTexts(o)
  BY DEF CommandInit
<1> DEFINE b == Build(o)
<1>2. /\ b.subs = (SubMode(o) # "drop") /\ b.sn = (SubMode(o) = "drop") /\ b.scodec = SubCodec(o)
      /\ [b EXCEPT !.scodec = "none"].subs = b.subs /\ [b EXCEPT !.scodec = "none"].sn = b.sn
      /\ [b EXCEPT !.scodec = "none"].scodec = "none"
      /\ [b EXCEPT !.subs = FALSE].subs = FALSE /\ [b EXCEPT !.subs = FALSE].sn = b.sn
      /\ [b EXCEPT !.subs = FALSE].scodec = b.scodec
  BY DEF Build
<1>3. SubCodec(o) # "none" => SubMode(o) # "drop"
  BY DEF SubCodec
<1>4. command \in {b, [b EXCEPT !.scodec = "none"], [b EXCEPT !.subs = FALSE]}
  BY <1>1 DEF CommandTexts
<1> HIDE DEF b
<1>5. TextInv
  BY <1>2, <1>3, <1>4, CommandAssumption DEF TextInv, CommandInit
<1>6. StartInv
  BY DEF CommandInit, NoStart, StartInv
<1> QED BY <1>5, <1>6

LEMMA CommandStep ==
    ASSUME TextInv, StartInv, [CommandNext]_commandVars
    PROVE  TextInv' /\ StartInv'
<1>1. UNCHANGED <<command, reel>>
  BY DEF CommandNext, RenderArgv, RemuxGate, SubsGate, Leave, Forget, Prime, commandVars, templateVars
<1>2. TextInv'
  BY <1>1 DEF TextInv
<1> SUFFICES StartInv'
  BY <1>2
<1>3. ASSUME NEW a, NEW t, start' = [at |-> "subs", argv |-> a, told |-> t],
             ~reel.live => Prepared(a) /\ "subs" \notin t /\ ("codecs" \in t => PictureFits(a) /\ SoundFits(a))
      PROVE  StartInv'
  BY <1>1, <1>3 DEF StartInv, CodecsFit, Prepared, PictureFits, SoundFits
<1>4. ASSUME NEW a, NEW t, start' = [at |-> "spawn", argv |-> a, told |-> t],
             ~reel.live => SubsFit(a, t) /\ ("codecs" \in t => PictureFits(a) /\ SoundFits(a))
      PROVE  StartInv'
  BY <1>1, <1>4 DEF StartInv, CodecsFit, SubsFit, PictureFits, SoundFits, Mapped, Tracks, TracksAhead
<1>5. CASE RenderArgv
  <2>1. start' = [at |-> "remux", argv |-> Argv(command), told |-> {}] /\ Argv(command) # Unusable
    BY <1>5 DEF RenderArgv
  <2>2. ~reel.live => Prepared(Argv(command))
    BY <2>1, RenderedIsPrepared
  <2> QED BY <1>1, <2>1, <2>2 DEF StartInv, Prepared
<1>6. CASE RemuxGate
  <2> DEFINE a == start.argv
             t == start.told
  <2>1. start.at = "remux" /\ start = [at |-> "remux", argv |-> a, told |-> t]
    BY <1>6 DEF RemuxGate, StartInv
  <2>2. ~reel.live => t = {} /\ Prepared(a)
    BY <2>1 DEF StartInv
  <2>3. \/ start' = [start EXCEPT !.at = "subs"]
        \/ start' = [at |-> "subs", argv |-> Remuxed(a), told |-> t \cup {"codecs"}]
    BY <1>6 DEF RemuxGate
  <2>4. [start EXCEPT !.at = "subs"] = [at |-> "subs", argv |-> a, told |-> t]
    BY <2>1
  <2>5. ~reel.live => Prepared(Remuxed(a)) /\ PictureFits(Remuxed(a)) /\ SoundFits(Remuxed(a))
    BY <2>2, RemuxedArgv DEF Prepared
  <2> HIDE DEF a, t
  <2>6. CASE start' = [at |-> "subs", argv |-> a, told |-> t]
    BY <1>3, <2>2, <2>6
  <2>7. CASE start' = [at |-> "subs", argv |-> Remuxed(a), told |-> t \cup {"codecs"}]
    BY <1>3, <2>2, <2>5, <2>7
  <2> QED BY <2>3, <2>4, <2>6, <2>7
<1>7. CASE SubsGate
  <2> DEFINE a == start.argv
             t == start.told
  <2>1. start.at = "subs" /\ start = [at |-> "subs", argv |-> a, told |-> t]
    BY <1>7 DEF SubsGate, StartInv
  <2>2. ~reel.live => /\ Prepared(a) /\ "subs" \notin t
                      /\ "codecs" \in t => PictureFits(a) /\ SoundFits(a)
    BY <2>1 DEF StartInv, CodecsFit
  <2>3. \/ ~SubsAsks(a) /\ start' = [start EXCEPT !.at = "spawn"]
        \/ SubsAsks(a) /\ start' = [at |-> "spawn", argv |-> SubsUnknown(a), told |-> t]
        \/ SubsAsks(a) /\ start' = [at |-> "spawn", argv |-> Subtitled(a), told |-> t \cup {"subs"}]
    BY <1>7 DEF SubsGate
  <2>4. [start EXCEPT !.at = "spawn"] = [at |-> "spawn", argv |-> a, told |-> t]
    BY <2>1
  <2> HIDE DEF a, t
  <2>5. CASE ~SubsAsks(a) /\ start' = [at |-> "spawn", argv |-> a, told |-> t]
    <3>1. ~reel.live => SubsFit(a, t)
      BY <2>2, <2>5, UnaskedFits DEF SubsAsks
    <3> QED BY <1>4, <2>2, <2>5, <3>1
  <2>6. CASE SubsAsks(a) /\ start' = [at |-> "spawn", argv |-> SubsUnknown(a), told |-> t]
    <3> DEFINE u == SubsUnknown(a)
    <3>1. ~reel.live => /\ SubsFit(u, t) /\ u.muxer = a.muxer /\ u.vcodec = a.vcodec
                        /\ u.acodec = a.acodec /\ u.bsf = a.bsf
      BY <2>2, <2>6, UnknownFits DEF SubsAsks
    <3> HIDE DEF u
    <3>2. ~reel.live => ("codecs" \in t => PictureFits(u) /\ SoundFits(u))
      BY <2>2, <3>1 DEF PictureFits, SoundFits
    <3> QED BY <1>4, <2>6, <3>1, <3>2 DEF u
  <2>7. CASE SubsAsks(a) /\ start' = [at |-> "spawn", argv |-> Subtitled(a), told |-> t \cup {"subs"}]
    <3> DEFINE u == Subtitled(a)
    <3>1. ~reel.live => /\ SubsFit(u, t \cup {"subs"}) /\ u.muxer = a.muxer /\ u.vcodec = a.vcodec
                        /\ u.acodec = a.acodec /\ u.bsf = a.bsf
      BY <2>2, <2>7, SubtitledFits DEF SubsAsks, TextInv
    <3> HIDE DEF u
    <3>2. ~reel.live => ("codecs" \in t => PictureFits(u) /\ SoundFits(u))
      BY <2>2, <3>1 DEF PictureFits, SoundFits
    <3> QED BY <1>4, <2>7, <3>1, <3>2 DEF u
  <2> QED BY <2>3, <2>4, <2>5, <2>6, <2>7
<1>8. CASE Leave
  BY <1>8 DEF Leave, NoStart, StartInv
<1>9. CASE Forget \/ Prime \/ UNCHANGED commandVars
  <2>1. start' = start
    BY <1>9 DEF Forget, Prime, commandVars
  <2> QED BY <1>1, <2>1 DEF StartInv, CodecsFit, SubsFit, Prepared, PictureFits, SoundFits, Mapped, Tracks, TracksAhead
<1> QED BY <1>5, <1>6, <1>7, <1>8, <1>9 DEF CommandNext

\* Whatever the probes answer, and whether they answer, what is spawned fits its container.
THEOREM SpawnedCommandsFit == CommandSpec => []OutputFits
<1>1. CommandInit => TextInv /\ StartInv
  BY CommandStarts
<1>2. TextInv /\ StartInv /\ [CommandNext]_commandVars => TextInv' /\ StartInv'
  BY CommandStep
<1>3. TextInv /\ StartInv => OutputFits
  BY DEF StartInv, OutputFits, CodecsFit, SubsFit
<1> QED BY <1>1, <1>2, <1>3, PTL DEF CommandSpec
-----------------------------------------------------------------------------
(* What a line promises and what is sent (Delivery) *)

USE DeliveryAssumption DEF DeliveryAssumption

TemplateRows == [command : Commands, format : Muxers, on : BOOLEAN, default : BOOLEAN, manual : BOOLEAN]

\* The templates are rows, and a request of the FFmpeg tab writes what it may.
TemplatesTyped ==
    /\ rows \in Seq(Templates)
    /\ tpl \in [Templates -> TemplateRows]
    /\ \A e \in Editors : tab[e].at = "write" =>
          /\ tab[e].tid \in Templates
          /\ tab[e].what \in {"choose", "switch", "save", "delete"}
          /\ tab[e].what = "save" => tab[e].save \in Saves[tab[e].tid]

LEMMA SequenceOfSet == ASSUME NEW S, IsFiniteSet(S) PROVE SetToSeq(S) \in Seq(S)
<1>1. Cardinality(S) \in Nat /\ ExistsBijection(1 .. Cardinality(S), S)
  BY FS_CardinalityType
<1>2. PICK f : f \in Bijection(1 .. Cardinality(S), S)
  BY <1>1 DEF ExistsBijection
<1>3. f \in [1 .. Cardinality(S) -> S] /\ IsInjective(f)
  BY <1>2 DEF Bijection, Injection, IsInjective
<1>4. SetToSeq(S) \in [1 .. Cardinality(S) -> S]
  BY <1>3, Zenon DEF SetToSeq
<1> QED BY <1>1, <1>4

LEMMA FactoryRows == \A t \in BuiltIn : Factory[t].command \in Commands /\ Factory[t].format \in Muxers
BY DEF Shipments

LEMMA FirstSaves == ASSUME NEW t \in Templates \ BuiltIn PROVE FirstSave(t) \in Saves[t]
<1>1. \E s \in Saves[t] : s.command.muxer = s.format
  OBVIOUS
<1> QED BY ONLY <1>1, Zenon DEF FirstSave

LEMMA TemplatesStart == DeliveryInit => TemplatesTyped
<1> SUFFICES ASSUME DeliveryInit PROVE TemplatesTyped
  OBVIOUS
<1>1. rows \in Seq(Templates)
  <2>1. IsFiniteSet(BuiltIn) /\ IsFiniteSet(Templates \ BuiltIn)
    BY FS_Subset
  <2>2. SetToSeq(BuiltIn) \in Seq(BuiltIn) /\ SetToSeq(Templates \ BuiltIn) \in Seq(Templates \ BuiltIn)
    BY <2>1, SequenceOfSet
  <2>3. SetToSeq(BuiltIn) \in Seq(Templates) /\ SetToSeq(Templates \ BuiltIn) \in Seq(Templates)
    BY <2>2
  <2>4. rows = SetToSeq(BuiltIn) \o SetToSeq(Templates \ BuiltIn)
    BY DEF DeliveryInit
  <2> QED BY <2>3, <2>4, RangeOfConcat
<1> DEFINE kept(t) == [command |-> FirstSave(t).command, format |-> FirstSave(t).format, on |-> TRUE,
                       default |-> FALSE, manual |-> FirstSave(t).manual]
<1>2. \A t \in Templates \ BuiltIn : kept(t) \in TemplateRows
  <2> TAKE t \in Templates \ BuiltIn
  <2>1. FirstSave(t) \in [command : Commands, format : Muxers, manual : BOOLEAN]
    BY FirstSaves
  <2> QED BY <2>1 DEF TemplateRows
<1> DEFINE first(t) == [Row(t, TRUE) EXCEPT !.default = (Factory[t].command.kind = "redirect")]
<1>3. \A t \in BuiltIn : first(t) \in TemplateRows
  <2> TAKE t \in BuiltIn
  <2> DEFINE d == Factory[t].command.kind = "redirect"
  <2>1. d \in BOOLEAN
    OBVIOUS
  <2> HIDE DEF d
  <2>2. [Row(t, TRUE) EXCEPT !.default = d] \in TemplateRows
    BY <2>1, FactoryRows DEF Row, TemplateRows
  <2> QED BY <2>2 DEF d
<1>4. tpl = [t \in Templates |-> IF t \in BuiltIn THEN first(t) ELSE kept(t)]
  BY DEF DeliveryInit
<1> HIDE DEF first, kept
<1>5. tpl \in [Templates -> TemplateRows]
  BY <1>2, <1>3, <1>4
<1>6. \A e \in Editors : tab[e].at # "write"
  BY DEF DeliveryInit, NoEdit
<1> QED BY <1>1, <1>5, <1>6 DEF TemplatesTyped

LEMMA WriteKeepsTypes == ASSUME TemplatesTyped, NEW e \in Editors, Write(e) PROVE TemplatesTyped'
<1> DEFINE r == tab[e]
           t == r.tid
<1>1. t \in Templates /\ r.what \in {"choose", "switch", "save", "delete"}
      /\ (r.what = "save" => r.save \in Saves[t])
  BY DEF TemplatesTyped, Write
<1>2. tpl[t] \in TemplateRows /\ tpl \in [Templates -> TemplateRows] /\ rows \in Seq(Templates)
  BY <1>1 DEF TemplatesTyped
<1>3. \A f \in Editors : tab'[f].at = "write" =>
          /\ tab'[f].tid \in Templates
          /\ tab'[f].what \in {"choose", "switch", "save", "delete"}
          /\ tab'[f].what = "save" => tab'[f].save \in Saves[tab'[f].tid]
  <2>1. tab' = [tab EXCEPT ![e] = NoEdit]
    BY DEF Write
  <2> SUFFICES ASSUME NEW f \in Editors, tab'[f].at = "write"
               PROVE  tab'[f] = tab[f]
    BY DEF TemplatesTyped
  <2> QED BY <2>1 DEF NoEdit
<1>4. CASE r.what = "choose"
  <2>1. tpl' = [u \in Templates |-> [tpl[u] EXCEPT !.default = (u = t /\ There(t))]] /\ rows' = rows
    BY <1>4 DEF Write
  <2>2. \A u \in Templates, d \in BOOLEAN : [tpl[u] EXCEPT !.default = d] \in TemplateRows
    BY <1>2 DEF TemplateRows
  <2>3. \A u \in Templates : (u = t /\ There(t)) \in BOOLEAN
    OBVIOUS
  <2>4. tpl' \in [Templates -> TemplateRows]
    BY <2>1, <2>2, <2>3
  <2> QED BY <1>2, <1>3, <2>1, <2>4 DEF TemplatesTyped
<1>5. CASE r.what # "choose" /\ ~There(t)
  <2>1. tpl' = tpl /\ rows' = rows
    BY <1>5 DEF Write
  <2> QED BY <1>2, <1>3, <2>1 DEF TemplatesTyped
<1>6. CASE r.what = "switch" /\ There(t)
  <2>1. tpl' = [tpl EXCEPT ![t].on = ~@] /\ rows' = rows
    BY <1>6 DEF Write
  <2>2. tpl' \in [Templates -> TemplateRows]
    BY <1>1, <1>2, <2>1 DEF TemplateRows
  <2> QED BY <1>2, <1>3, <2>1, <2>2 DEF TemplatesTyped
<1>7. CASE r.what = "save" /\ There(t)
  <2>1. tpl' = [tpl EXCEPT ![t].command = r.save.command, ![t].format = r.save.format,
                           ![t].manual = r.save.manual] /\ rows' = rows
    BY <1>7 DEF Write
  <2>2. r.save \in [command : Commands, format : Muxers, manual : BOOLEAN]
    BY <1>1, <1>7
  <2>3. tpl' \in [Templates -> TemplateRows]
    BY <1>1, <1>2, <2>1, <2>2 DEF TemplateRows
  <2> QED BY <1>2, <1>3, <2>1, <2>3 DEF TemplatesTyped
<1>8. CASE r.what = "delete" /\ There(t)
  <2>1. rows' = Only(rows, Templates \ {t}) /\ tpl' = [tpl EXCEPT ![t].default = FALSE]
    BY <1>8 DEF Write
  <2>2. rows' \in Seq(Templates)
    BY <1>2, <2>1, OnlySelects
  <2>3. tpl' \in [Templates -> TemplateRows]
    BY <1>1, <1>2, <2>1 DEF TemplateRows
  <2> QED BY <1>3, <2>2, <2>3 DEF TemplatesTyped
<1> QED BY <1>1, <1>4, <1>5, <1>6, <1>7, <1>8

LEMMA BootKeepsTypes == ASSUME TemplatesTyped, Boot PROVE TemplatesTyped'
<1> DEFINE missing == SetToSeq({t \in BuiltIn : ~There(t)})
           seed(t) == IF t \notin BuiltIn THEN tpl[t]
                      ELSE IF ~There(t) THEN Row(t, TRUE)
                      ELSE [tpl[t] EXCEPT !.format = Factory[t].format,
                                          !.command = IF tpl[t].manual THEN @ ELSE Factory[t].command]
           seeded == [t \in Templates |-> seed(t)]
           enabled == Only(rows \o missing, {t \in Templates : seeded[t].on})
           defaults == Only(enabled, {t \in Templates : seeded[t].default})
           shipped == Only(enabled, {t \in BuiltIn : Factory[t].command.kind = "redirect"})
           first == defaults \o shipped \o enabled
<1>1. rows' = rows \o missing /\ tab' = tab
  BY DEF Boot
<1>2. tpl' = [t \in Templates |-> [seeded[t] EXCEPT !.default = (first # <<>> /\ t = first[1])]]
  BY DEF Boot
<1>3. missing \in Seq(Templates)
  <2>1. IsFiniteSet({t \in BuiltIn : ~There(t)})
    BY FS_Subset
  <2>2. missing \in Seq({t \in BuiltIn : ~There(t)})
    BY <2>1, SequenceOfSet
  <2> HIDE DEF missing
  <2> QED BY <2>2
<1>4. \A t \in Templates : seed(t) \in TemplateRows
  <2> TAKE t \in Templates
  <2>1. CASE t \notin BuiltIn
    BY <2>1 DEF TemplatesTyped
  <2>2. CASE t \in BuiltIn /\ ~There(t)
    BY <2>2, FactoryRows DEF Row, TemplateRows
  <2>3. CASE t \in BuiltIn /\ There(t)
    <3>1. tpl[t] \in TemplateRows
      BY DEF TemplatesTyped
    <3> QED BY <2>3, <3>1, FactoryRows DEF TemplateRows
  <2> QED BY <2>1, <2>2, <2>3
<1> HIDE DEF seed
<1>5. \A t \in Templates : seeded[t] = seed(t)
  OBVIOUS
<1> HIDE DEF seeded, first, missing
<1>6. \A t \in Templates, d \in BOOLEAN : [seeded[t] EXCEPT !.default = d] \in TemplateRows
  BY <1>4, <1>5 DEF TemplateRows
<1>7. \A t \in Templates : (first # <<>> /\ t = first[1]) \in BOOLEAN
  OBVIOUS
<1>8. tpl' \in [Templates -> TemplateRows]
  BY <1>2, <1>6, <1>7
<1> QED BY <1>1, <1>3, <1>8 DEF TemplatesTyped

\* The steps of a play, and the edits of items and areas, touch no template.
LEMMA UntouchedTyped ==
    ASSUME TemplatesTyped, rows' = rows, tpl' = tpl, tab' = tab PROVE TemplatesTyped'
BY DEF TemplatesTyped

LEMMA TemplatesStep == TemplatesTyped /\ [DeliveryNext]_deliveryVars => TemplatesTyped'
<1> SUFFICES ASSUME TemplatesTyped, [DeliveryNext]_deliveryVars PROVE TemplatesTyped'
  OBVIOUS
<1>1. CASE UNCHANGED deliveryVars \/ Decide \/ Open \/ StandIn \/ EndPlay
  BY <1>1, UntouchedTyped DEF deliveryVars, Decide, Open, StandIn, EndPlay, PlayStep
<1>2. CASE \E i \in Items : \/ \E door \in Doors, alias \in {"own", "ts", "mkv"} : Ask(i, door, alias)
                            \/ \E t \in ToSet(rows) : AskWeb(i, t) \/ AskPreview(i, t) \/ AssignTemplate(i, t)
  BY <1>2, UntouchedTyped DEF Ask, AskWeb, AskPreview, AssignTemplate, PlayStep
<1>3. CASE SetArea \/ SetException
  BY <1>3, UntouchedTyped DEF SetArea, SetException
<1>4. CASE Boot
  BY <1>4, BootKeepsTypes
<1>5. ASSUME NEW e \in Editors, Write(e) PROVE TemplatesTyped'
  BY <1>5, WriteKeepsTypes
<1>6. ASSUME NEW e \in Editors, NEW t \in Templates, NEW what \in {"choose", "switch", "delete", "save"}, NEW save,
             what = "save" => save \in Saves[t], BeginEdit(e, what, t, save)
      PROVE  TemplatesTyped'
  <2>1. tab' = [tab EXCEPT ![e] = [at |-> "write", what |-> what, tid |-> t, save |-> save]]
        /\ rows' = rows /\ tpl' = tpl
    BY <1>6 DEF BeginEdit
  <2>2. ASSUME NEW f \in Editors, tab'[f].at = "write"
        PROVE  /\ tab'[f].tid \in Templates
               /\ tab'[f].what \in {"choose", "switch", "save", "delete"}
               /\ tab'[f].what = "save" => tab'[f].save \in Saves[tab'[f].tid]
    <3>1. CASE tab'[f] = tab[f]
      BY <2>2, <3>1 DEF TemplatesTyped
    <3>2. CASE tab'[f] = [at |-> "write", what |-> what, tid |-> t, save |-> save]
      BY <1>6, <3>2
    <3> QED BY <2>1, <3>1, <3>2
  <2> QED BY <2>1, <2>2 DEF TemplatesTyped
<1> QED BY <1>1, <1>2, <1>3, <1>4, <1>5, <1>6 DEF DeliveryNext
-----------------------------------------------------------------------------
LEMMA FilteredRows ==
    ASSUME NEW S, NEW seq \in Seq(S), NEW set
    PROVE  /\ Only(seq, set) \in Seq(S)
           /\ Only(seq, set) # <<>> => Only(seq, set)[1] \in set /\ Only(seq, set)[1] \in S
<1>1. Only(seq, set) \in Seq(S) /\ Range(Only(seq, set)) = Range(seq) \cap set
  BY OnlySelects
<1>2. Only(seq, set) # <<>> => 1 \in DOMAIN Only(seq, set)
  BY <1>1
<1> QED BY <1>1, <1>2 DEF Range

\* TemplateMap: a play resolves to a template that there is, or to none.
LEMMA ResortIsARow == ASSUME TemplatesTyped PROVE LastResort \in Templates \cup {NoTpl}
<1>1. rows \in Seq(Templates)
  BY DEF TemplatesTyped
<1>2. EnabledRows \in Seq(Templates) /\ (EnabledRows # <<>> => EnabledRows[1] \in Templates)
  BY <1>1, FilteredRows DEF EnabledRows
<1>3. DefaultRow # <<>> => DefaultRow[1] \in Templates
  BY <1>2, FilteredRows DEF DefaultRow
<1> QED BY <1>2, <1>3 DEF LastResort

LEMMA ResolvedIsARow == ASSUME TemplatesTyped, NEW i PROVE Resolved(i) \in Templates \cup {NoTpl}
<1> DEFINE S == {area.except[i], area.kinds[KindOfItem[i]], itemTpl[i]}
           fit == Only(TemplatesFor(i), {t \in ToSet(rows) : tpl[t].on})
<1>1. <<area.except[i], area.kinds[KindOfItem[i]]>> \in Seq(S) /\ <<itemTpl[i]>> \in Seq(S) /\ <<>> \in Seq(S)
  OBVIOUS
<1>2. TemplatesFor(i) \in Seq(S)
  <2> DEFINE a == <<area.except[i], area.kinds[KindOfItem[i]]>>
             b == <<itemTpl[i]>>
  <2>1. TemplatesFor(i) = a \o b \/ TemplatesFor(i) = <<>> \o b
    BY DEF TemplatesFor
  <2> HIDE DEF a, b, S
  <2>2. a \o b \in Seq(S) /\ <<>> \o b \in Seq(S)
    BY <1>1 DEF a, b
  <2> QED BY <2>1, <2>2
<1>3. fit # <<>> => fit[1] \in ToSet(rows)
  BY <1>2, FilteredRows
<1>4. ToSet(rows) \subseteq Templates
  BY DEF TemplatesTyped, ToSet
<1> HIDE DEF fit
<1>5. Resolved(i) = IF fit # <<>> THEN fit[1] ELSE LastResort
  BY DEF Resolved, fit
<1> QED BY <1>3, <1>4, <1>5, ResortIsARow

LEMMA KnownCommands ==
    ASSUME TemplatesTyped, NEW t \in Templates \cup {NoTpl}
    PROVE  CommandOf(t) \in Commands /\ FormatOf(t) \in Muxers /\ CopyFallback \in Commands
<1>1. Pass \in Commands /\ "mpegts" \in Muxers
  BY DEF Pass, Ffmpeg, Commands, Muxers
<1>2. \A u \in Templates : tpl[u].command \in Commands /\ tpl[u].format \in Muxers
  BY DEF TemplatesTyped, TemplateRows
<1> QED BY <1>1, <1>2 DEF CommandOf, FormatOf, CopyFallback

\* enigma2_bouquets._Resolver.for_item against StreamManager.open: a line is answered with
\* what it announces, for every kind, delivery and template.
LEMMA EveryLine == ASSUME TemplatesTyped PROVE LineIsAnswered
<1> SUFFICES ASSUME NEW i \in Items, NEW door \in Doors, Truthful(i)
             PROVE  LET line == BouquetLine(i, door)
                        answer == AnswerTo(i, door, BouquetAlias(i, door)) IN
                    CASE line = "ts" -> answer = "mpegts"
                      [] line = "mkv" -> answer = "matroska"
                      [] line = "direct" -> answer \in {"cdn", "file"}
  BY DEF LineIsAnswered
<1> DEFINE t == Resolved(i)
           kind == KindOfItem[i]
           text == CommandOf(t)
           format == FormatOf(t)
           what == What(t)
           line == BouquetLine(i, door)
           alias == BouquetAlias(i, door)
           piped == OpenedWith(kind, IF kind = "local" THEN "proxy" ELSE door, text)
           answer == AnswerTo(i, door, alias)
<1>1. t \in Templates /\ t # NoTpl /\ text = tpl[t].command /\ format = tpl[t].format
  BY ResolvedIsARow DEF Truthful, CommandOf, FormatOf
<1>2. text \in Commands /\ format \in Muxers
  BY <1>1, KnownCommands
<1>3. /\ text.kind # "passthrough"
      /\ text.kind = "redirect" \/ text.muxer = format
      /\ ~ (kind = "live" /\ format = "matroska")
      /\ CopyFallback.kind = "ffmpeg" /\ CopyFallback.muxer = "mpegts"
  BY <1>1 DEF Truthful
<1>4. BouquetRow(i) = t
  BY <1>1 DEF BouquetRow
<1>5. line = Effective(kind, door, what)
  BY <1>4 DEF BouquetLine
<1>6. what = IF text.kind = "redirect" THEN "direct" ELSE IF format = "matroska" THEN "mkv" ELSE "ts"
  BY <1>1 DEF What
<1>7. alias = (IF line = "direct" /\ kind = "local" THEN "own" ELSE IF line = "mkv" THEN "mkv" ELSE "ts")
  BY DEF BouquetAlias
<1>8. answer = IF ServesFile(i, alias) THEN "file"
               ELSE IF Redirects(kind, door, text) THEN "cdn"
               ELSE Sent(kind, piped)
  BY DEF AnswerTo
<1>9. ServesFile(i, alias) <=> kind = "local" /\ ServesOriginal(text) /\ alias = "own"
  BY DEF ServesFile
<1>10. door \in {"template", "proxy", "redirect"} /\ format \in {"mpegts", "matroska"}
       /\ text.kind \in {"ffmpeg", "redirect"} /\ text.muxer \in {"mpegts", "matroska"}
  BY <1>2, <1>3 DEF Doors, Muxers, Commands
<1> HIDE DEF t, kind, text, format, what, line, alias, answer
<1>11. CASE kind = "local"
  <2>1. line = what
    BY <1>5, <1>11 DEF Effective
  <2>2. CASE text.kind = "redirect"
    <3>1. answer = "file" /\ line = "direct"
      BY <1>6, <1>7, <1>8, <1>9, <1>11, <2>1, <2>2 DEF ServesOriginal
    <3> QED BY <3>1 DEF line, answer, alias
  <2>3. CASE text.kind = "ffmpeg"
    <3>1. piped = text
      BY <1>11, <2>3 DEF OpenedWith
    <3>2. Sent(kind, piped) = format
      BY <1>3, <1>11, <2>3, <3>1 DEF Sent
    <3>3. answer = format /\ line = IF format = "matroska" THEN "mkv" ELSE "ts"
      BY <1>6, <1>7, <1>8, <1>9, <1>11, <2>1, <2>3, <3>2 DEF Redirects
    <3> QED BY <1>10, <3>3 DEF line, answer, alias
  <2> QED BY <1>10, <2>2, <2>3
<1>12. CASE kind # "local" /\ (door = "redirect" \/ (door = "template" /\ text.kind = "redirect"))
  <2>1. answer = "cdn"
    BY <1>8, <1>9, <1>12 DEF Redirects
  <2>2. line = "direct"
    BY <1>5, <1>6, <1>12 DEF Effective
  <2> QED BY <2>1, <2>2 DEF line, answer, alias
<1>13. CASE kind # "local" /\ door = "proxy" /\ text.kind = "redirect"
  <2>1. piped = CopyFallback
    BY <1>13 DEF OpenedWith
  <2>2. Sent(kind, piped) = "mpegts"
    BY <1>3, <2>1 DEF Sent
  <2>3. answer = "mpegts" /\ line = "ts"
    BY <1>5, <1>6, <1>8, <1>9, <1>13, <2>2 DEF Effective, Redirects
  <2> QED BY <2>3 DEF line, answer, alias
<1>14. CASE kind # "local" /\ door # "redirect" /\ text.kind = "ffmpeg"
  <2>1. piped = text
    BY <1>14 DEF OpenedWith
  <2>2. Sent(kind, piped) = format
    BY <1>3, <1>10, <1>14, <2>1 DEF Sent
  <2>3. line = IF format = "matroska" THEN "mkv" ELSE "ts"
    BY <1>5, <1>6, <1>14 DEF Effective
  <2>4. answer = format
    BY <1>8, <1>9, <1>14, <2>2 DEF Redirects
  <2> QED BY <1>10, <2>3, <2>4 DEF line, answer, alias
<1> QED BY <1>10, <1>11, <1>12, <1>13, <1>14

\* routers/output.py, enigma2_bouquets.py: what a bouquet line says is what is sent, with
\* every template, area, exception and delivery, whatever was edited.
THEOREM LinesAreAnswered == DeliverySpec => []LineIsAnswered
<1> QED BY TemplatesStart, TemplatesStep, EveryLine, PTL DEF DeliverySpec
-----------------------------------------------------------------------------
PlayRecord == [at : {play.at}, item : {play.item}, door : {play.door}, tid : {play.tid},
               alias : {play.alias}, command : {play.command}]

\* The Copy preset is a command until the marker is saved into it.
CopyRuns == tpl[CopyPreset].command.kind = "redirect" => spoilt

MarkerInv ==
    /\ TemplatesTyped
    /\ CopyRuns /\ spoilt \in BOOLEAN
    /\ play \in PlayRecord /\ MarkerNeverRuns

LEMMA MarkerStarts == ASSUME DeliveryInit PROVE MarkerInv
<1>1. tpl[CopyPreset].command = Factory[CopyPreset].command
  BY DEF DeliveryInit, Row
<1>2. play.at # "spawn" /\ play \in PlayRecord /\ spoilt = FALSE
  BY DEF DeliveryInit, NoPlay, PlayRecord
<1> QED BY <1>1, <1>2, TemplatesStart DEF MarkerInv, MarkerNeverRuns, CopyRuns

LEMMA StandInRuns == ASSUME MarkerInv, StandIn PROVE MarkerNeverRuns' /\ play' \in PlayRecord'
<1> DEFINE kind == KindOfItem[play.item]
           opened == OpenedWith(kind, play.door, play.command)
<1>1. play \in PlayRecord /\ CopyRuns /\ spoilt' = spoilt
  BY DEF MarkerInv, StandIn, PlayStep
<1>2. play' = [play EXCEPT !.at = "spawn", !.command = opened]
  BY DEF StandIn
<1>3. CopyFallback.kind = "redirect" => spoilt
  BY <1>1 DEF CopyRuns, CopyFallback, Pass, Ffmpeg
<1>4. IF kind = "local" THEN opened.kind = "ffmpeg"
      ELSE play.door # "template" /\ opened.kind = "redirect" => spoilt
  BY <1>3 DEF OpenedWith, Pass, Ffmpeg
<1> HIDE DEF opened
<1>5. /\ play'.item = play.item /\ play'.door = play.door /\ play' \in PlayRecord'
      /\ play'.command = opened
  BY <1>1, <1>2 DEF PlayRecord
<1> QED BY <1>1, <1>4, <1>5 DEF MarkerNeverRuns

\* The other steps of a play spawn nothing.
LEMMA PlaysKeep ==
    ASSUME MarkerInv, \/ play' = play
                      \/ play'.at # "spawn" /\ play' \in PlayRecord',
           spoilt => spoilt'
    PROVE  MarkerNeverRuns' /\ play' \in PlayRecord'
BY DEF MarkerInv, MarkerNeverRuns, PlayRecord

\* The Copy preset gets the marker from nobody but the operator, who is remembered.
LEMMA CopyKeepsRunning ==
    ASSUME MarkerInv, [DeliveryNext]_deliveryVars
    PROVE  CopyRuns' /\ (spoilt => spoilt') /\ spoilt' \in BOOLEAN
<1> USE DEF CopyRuns
<1>1. /\ CopyRuns /\ TemplatesTyped /\ spoilt \in BOOLEAN
      /\ tpl \in [Templates -> TemplateRows] /\ CopyPreset \in Templates
  BY DEF MarkerInv, TemplatesTyped
<1>2. CASE tpl' = tpl /\ spoilt' = spoilt
  BY <1>1, <1>2
<1>3. CASE Boot
  <2> DEFINE seed(t) == IF t \notin BuiltIn THEN tpl[t]
                        ELSE IF ~There(t) THEN Row(t, TRUE)
                        ELSE [tpl[t] EXCEPT !.format = Factory[t].format,
                                            !.command = IF tpl[t].manual THEN @ ELSE Factory[t].command]
             seeded == [t \in Templates |-> seed(t)]
  <2>1. \E f : tpl' = [t \in Templates |-> [seeded[t] EXCEPT !.default = f[t]]]
    <3> DEFINE missing == SetToSeq({t \in BuiltIn : ~There(t)})
               enabled == Only(rows \o missing, {t \in Templates : seeded[t].on})
               defaults == Only(enabled, {t \in Templates : seeded[t].default})
               shipped == Only(enabled, {t \in BuiltIn : Factory[t].command.kind = "redirect"})
               first == defaults \o shipped \o enabled
               f == [t \in Templates |-> (first # <<>> /\ t = first[1])]
    <3>1. tpl' = [t \in Templates |-> [seeded[t] EXCEPT !.default = (first # <<>> /\ t = first[1])]]
      BY <1>3 DEF Boot
    <3>2. \A t \in Templates : f[t] = (first # <<>> /\ t = first[1])
      OBVIOUS
    <3> HIDE DEF first, f, seeded
    <3>3. tpl' = [t \in Templates |-> [seeded[t] EXCEPT !.default = f[t]]]
      BY <3>1, <3>2, Zenon
    <3> QED BY <3>3
  <2>2. seed(CopyPreset).command \in {Factory[CopyPreset].command, tpl[CopyPreset].command}
        /\ DOMAIN seed(CopyPreset) = {"command", "format", "on", "default", "manual"}
    BY <1>1 DEF Row, TemplateRows
  <2> HIDE DEF seed
  <2>3. tpl'[CopyPreset].command = seed(CopyPreset).command
    BY <2>1, <2>2, <1>1
  <2>4. spoilt' = spoilt
    BY <1>3 DEF Boot
  <2> QED BY <1>1, <2>2, <2>3, <2>4
<1>4. ASSUME NEW e \in Editors, Write(e) PROVE CopyRuns' /\ (spoilt => spoilt') /\ spoilt' \in BOOLEAN
  <2> DEFINE r == tab[e]
             t == r.tid
  <2>1. t \in Templates /\ r.what \in {"choose", "switch", "save", "delete"}
        /\ (r.what = "save" => r.save \in Saves[t])
    BY <1>1, <1>4 DEF TemplatesTyped, Write
  <2>7. spoilt' = (spoilt \/ (r.what = "save" /\ There(t) /\ t = CopyPreset /\ r.save.command.kind = "redirect"))
    BY <1>4 DEF Write
  <2>2. CASE r.what = "choose"
    <3>1. tpl' = [u \in Templates |-> [tpl[u] EXCEPT !.default = (u = t /\ There(t))]]
      BY <1>4, <2>2 DEF Write
    <3> QED BY <1>1, <2>7, <3>1 DEF TemplateRows
  <2>3. CASE r.what # "choose" /\ ~There(t)
    BY <1>1, <1>4, <2>3, <2>7 DEF Write
  <2>4. CASE r.what = "switch" /\ There(t)
    <3>1. tpl' = [tpl EXCEPT ![t].on = ~@]
      BY <1>4, <2>4 DEF Write
    <3> QED BY <1>1, <2>1, <2>7, <3>1 DEF TemplateRows
  <2>5. CASE r.what = "save" /\ There(t)
    <3>1. tpl' = [tpl EXCEPT ![t].command = r.save.command, ![t].format = r.save.format,
                             ![t].manual = r.save.manual]
      BY <1>4, <2>5 DEF Write
    <3>2. tpl'[CopyPreset].command = IF t = CopyPreset THEN r.save.command ELSE tpl[CopyPreset].command
      BY <1>1, <2>1, <3>1 DEF TemplateRows
    <3> QED BY <1>1, <2>1, <2>5, <2>7, <3>2
  <2>6. CASE r.what = "delete" /\ There(t)
    <3>1. tpl' = [tpl EXCEPT ![t].default = FALSE]
      BY <1>4, <2>6 DEF Write
    <3> QED BY <1>1, <2>1, <2>7, <3>1 DEF TemplateRows
  <2> QED BY <2>1, <2>2, <2>3, <2>4, <2>5, <2>6
<1>5. CASE Decide \/ Open \/ StandIn \/ EndPlay \/ SetArea \/ SetException
  BY <1>2, <1>5 DEF Decide, Open, StandIn, EndPlay, SetArea, SetException, PlayStep
<1>6. CASE \E i \in Items : \/ \E door \in Doors, alias \in {"own", "ts", "mkv"} : Ask(i, door, alias)
                            \/ \E t \in ToSet(rows) : AskWeb(i, t) \/ AskPreview(i, t) \/ AssignTemplate(i, t)
  BY <1>2, <1>6 DEF Ask, AskWeb, AskPreview, AssignTemplate, PlayStep
<1>7. CASE \E e \in Editors, t \in Templates, what \in {"choose", "switch", "delete", "save"} :
              \E save \in Saves[t] \cup {NoTpl} : BeginEdit(e, what, t, save)
  BY <1>2, <1>7 DEF BeginEdit
<1>8. CASE UNCHANGED deliveryVars
  BY <1>2, <1>8 DEF deliveryVars
<1> QED BY <1>3, <1>4, <1>5, <1>6, <1>7, <1>8 DEF DeliveryNext

LEMMA MarkerStep == ASSUME MarkerInv, [DeliveryNext]_deliveryVars PROVE MarkerInv'
<1>1. TemplatesTyped' /\ CopyRuns' /\ (spoilt => spoilt') /\ spoilt' \in BOOLEAN
  BY TemplatesStep, CopyKeepsRunning DEF MarkerInv
<1>2. CASE StandIn
  BY <1>1, <1>2, StandInRuns DEF MarkerInv
<1>8. CASE Open
  <2>1. play \in PlayRecord
    BY DEF MarkerInv
  <2>2. \/ play' = [play EXCEPT !.at = "refused"]
        \/ play' = [play EXCEPT !.at = "read", !.command = CommandOf(Chosen)]
    BY <1>8 DEF Open
  <2>3. play'.at # "spawn" /\ play' \in PlayRecord'
    BY <2>1, <2>2 DEF PlayRecord
  <2> QED BY <1>1, <2>3, PlaysKeep DEF MarkerInv
<1>3. CASE Decide
  <2>1. play'.at \in {"file", "cdn", "opening"} /\ play' \in PlayRecord'
    <3> DEFINE at == IF ServesFile(play.item, play.alias) THEN "file"
                     ELSE IF Redirects(KindOfItem[play.item], play.door, CommandOf(Resolved(play.item))) THEN "cdn"
                     ELSE "opening"
    <3>1. at \in {"file", "cdn", "opening"}
      OBVIOUS
    <3>2. play' = [play EXCEPT !.at = at]
      BY <1>3 DEF Decide
    <3>3. play \in PlayRecord
      BY DEF MarkerInv
    <3> HIDE DEF at
    <3> QED BY <3>1, <3>2, <3>3 DEF PlayRecord
  <2> QED BY <1>1, <2>1, PlaysKeep DEF MarkerInv
<1>4. CASE EndPlay \/ UNCHANGED deliveryVars
  <2>1. play' = play \/ (play'.at = "none" /\ play' \in PlayRecord')
    BY <1>4 DEF EndPlay, deliveryVars, NoPlay, PlayRecord
  <2> QED BY <1>1, <2>1, PlaysKeep DEF MarkerInv
<1>5. CASE \E i \in Items : \/ \E door \in Doors, alias \in {"own", "ts", "mkv"} : Ask(i, door, alias)
                            \/ \E t \in ToSet(rows) : AskWeb(i, t) \/ AskPreview(i, t) \/ AssignTemplate(i, t)
  <2>1. play' = play \/ (play'.at \in {"asked", "opening"} /\ play' \in PlayRecord')
    BY <1>5 DEF Ask, AskWeb, AskPreview, AssignTemplate, NoPlay, PlayRecord
  <2> QED BY <1>1, <2>1, PlaysKeep DEF MarkerInv
<1>6. CASE SetArea \/ SetException \/ \E e \in Editors : Write(e)
  <2>1. play' = play
    BY <1>6 DEF SetArea, SetException, Write
  <2> QED BY <1>1, <2>1, PlaysKeep DEF MarkerInv
<1>7. CASE Boot \/ \E e \in Editors, t \in Templates, what \in {"choose", "switch", "delete", "save"} :
              \E save \in Saves[t] \cup {NoTpl} : BeginEdit(e, what, t, save)
  <2>1. play' = play
    BY <1>7 DEF Boot, BeginEdit
  <2> QED BY <1>1, <2>1, PlaysKeep DEF MarkerInv
<1> QED BY <1>2, <1>3, <1>4, <1>5, <1>6, <1>7, <1>8 DEF DeliveryNext

\* StreamManager.open and _open_preview, whatever is edited while a play opens: a file gets
\* a command, and a play that is forced through the pipe gets the redirect marker only from
\* a Copy preset into which it was saved.
THEOREM MarkersNeverRun == DeliverySpec => []MarkerNeverRuns
<1>1. DeliveryInit => MarkerInv
  BY MarkerStarts
<1>2. MarkerInv /\ [DeliveryNext]_deliveryVars => MarkerInv'
  BY MarkerStep
<1>3. MarkerInv => MarkerNeverRuns
  BY DEF MarkerInv
<1> QED BY <1>1, <1>2, <1>3, PTL DEF DeliverySpec
=============================================================================
