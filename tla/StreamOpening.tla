--------------------------- MODULE StreamOpening ---------------------------
(***************************************************************************)
(* How one start opens a media URL: the walk of identities at its origin    *)
(* (services/stream_identity.py), through ffmpeg, the byte proxy, a demo of *)
(* a template or a probe, and what is closed when it fails or is cancelled  *)
(* (stream_manager _open_with_identity, _open_passthrough; ffmpeg_validate; *)
(* probe).  All openers meet one origin, which has its own idea of who may  *)
(* ask and may hold the MAC's slot for a moment.                            *)
(***************************************************************************)
EXTENDS Naturals, Sequences, FiniteSets

CONSTANTS
    Openers,
    Nobody,        \* no identity: ffmpeg says what the template makes it say
    MaxOpens,      \* bound: openings in all
    MaxFlips       \* bound: changes of the origin's policy

VARIABLES
    welcome,       \* the identities the origin accepts now
    learned,       \* _origin_ua of this origin
    open,          \* [Openers -> the locals of an opening]
    strays,        \* gates' probes that run on after their opening was cancelled
    opens, flips,
    fed,           \* history: identities that have been given bytes
    cutShort       \* history: openings cancelled while a gate's probe ran

openVars == <<welcome, learned, open, strays, opens, flips, fed, cutShort>>

Identities == {"player", "browser"}
\* A pump's ffmpeg, the same with -user_agent in its template, the byte proxy, a
\* template's demo, and a detail popup's probe.
OpenerKinds == {"ffmpeg", "pinned", "raw", "demo", "popup"}

\* _spawn's two gates, in front of every process that it starts.
Gates == {"remux", "subs"}
FirstStep(kind) == IF kind \in {"ffmpeg", "pinned"} THEN "remux" ELSE "next"

\* A gate's probe is a process of its own, before the one that will play.
Closed == [kind |-> "ffmpeg", at |-> "idle", todo |-> <<>>, held |-> FALSE, probe |-> FALSE,
           refused |-> {}, last |-> "none"]

OpenTypeOK ==
    /\ welcome \subseteq Identities /\ learned \in Identities \cup {Nobody} /\ fed \subseteq Identities
    /\ strays \in 0 .. MaxOpens /\ cutShort \in 0 .. MaxOpens
    /\ \A o \in Openers :
          /\ open[o].kind \in OpenerKinds /\ open[o].held \in BOOLEAN /\ open[o].probe \in BOOLEAN
          /\ open[o].at \in Gates \cup {"idle", "next", "waiting", "playing", "failed", "gone"}
          /\ Len(open[o].todo) <= 2

OpenInit ==
    /\ welcome \in SUBSET Identities /\ learned = Nobody /\ fed = {}
    /\ open = [o \in Openers |-> Closed] /\ strays = 0 /\ opens = 0 /\ flips = 0 /\ cutShort = 0
-----------------------------------------------------------------------------
\* Mutant of Ladder: an origin that has taught us its identity is asked with that only.
LadderOfLearned(kind, known) ==
    IF kind = "pinned" THEN <<Nobody>>
    ELSE IF known # Nobody THEN <<known>> ELSE <<"player", "browser">>

\* ladder: the learned identity first, the other one behind it; the player's by default.
Ladder(kind, known) ==
    IF kind = "pinned" THEN <<Nobody>>
    ELSE IF known = "browser" THEN <<"browser", "player">> ELSE <<"player", "browser">>

BeginOpen(o, kind) ==
    /\ open[o].at \in {"idle", "failed", "gone"} /\ opens < MaxOpens
    /\ open' = [open EXCEPT ![o] = [Closed EXCEPT !.kind = kind, !.todo = Ladder(kind, learned),
                                     !.at = FirstStep(kind)]]
    /\ opens' = opens + 1
    /\ UNCHANGED <<welcome, learned, strays, flips, fed, cutShort>>

\* A gate looks into a film with a process of its own, or needs not; its probe has
\* ended, answered or timed out, before the opening goes on.
GateProbes(o) ==
    /\ open[o].at \in Gates /\ ~open[o].probe
    /\ open' = [open EXCEPT ![o].probe = TRUE]
    /\ UNCHANGED <<welcome, learned, strays, opens, flips, fed, cutShort>>
PassGate(o) ==
    /\ open[o].at \in Gates
    /\ open' = [open EXCEPT ![o].probe = FALSE, ![o].at = IF @ = "remux" THEN "subs" ELSE "next"]
    /\ UNCHANGED <<welcome, learned, strays, opens, flips, fed, cutShort>>

\* The process is spawned, the request sent; or there is no such binary, no such host:
\* the byte proxy then tries its other rung.
Connect(o) ==
    /\ open[o].at = "next"
    /\ \/ open' = [open EXCEPT ![o].at = "waiting", ![o].held = TRUE]
       \/ open' = [open EXCEPT ![o].last = "unreachable",
                               ![o].at = IF open[o].kind = "raw" /\ Len(open[o].todo) > 1 THEN "next" ELSE "failed",
                               ![o].todo = IF open[o].kind = "raw" /\ Len(@) > 1 THEN Tail(@) ELSE @]
    /\ UNCHANGED <<welcome, learned, strays, opens, flips, fed, cutShort>>

\* An accepted identity that has brought bytes is remembered for the origin.
Given(o) ==
    LET ua == Head(open[o].todo) IN
    /\ open[o].at = "waiting" /\ ua \in welcome \cup {Nobody}
    /\ learned' = IF ua # Nobody THEN ua ELSE learned
    /\ fed' = fed \cup ({ua} \ {Nobody})
    /\ UNCHANGED <<welcome, strays, opens, flips, cutShort>>

\* A play keeps its connection.
Bytes(o) ==
    /\ open[o].kind \in {"ffmpeg", "pinned", "raw"} /\ Given(o)
    /\ open' = [open EXCEPT ![o].at = "playing"]

\* A demo has seen its two seconds, a probe the list of streams.
Shown(o) ==
    /\ open[o].kind = "demo" /\ Given(o)
    /\ open' = [open EXCEPT ![o].at = "idle", ![o].held = FALSE]
Listed(o) ==
    /\ open[o].kind = "popup" /\ Given(o)
    /\ open' = [open EXCEPT ![o].at = "idle", ![o].held = FALSE]

\* Which answers send an opener on to its other identity: a fast refusal by policy;
\* for the byte proxy also a source that ends before its first byte.
GoesOn(kind, answer) == answer = "refused" \/ (kind = "raw" /\ answer = "eof")

\* Mutant of Unserved: the next rung is opened beside the one that failed.
UnservedBeside(o, answer) ==
    LET p == open[o] IN
    IF GoesOn(p.kind, answer) /\ Len(p.todo) > 1
    THEN [p EXCEPT !.at = FirstStep(p.kind), !.todo = Tail(@), !.last = answer]
    ELSE [p EXCEPT !.at = "failed", !.last = answer]

\* The process is killed or the response closed before anything else is decided; the
\* next rung passes the gates again.
Unserved(o, answer) ==
    LET p == [open[o] EXCEPT !.held = FALSE, !.last = answer,
                             !.refused = IF answer = "refused" THEN @ \cup {Head(open[o].todo)} ELSE @] IN
    IF GoesOn(p.kind, answer) /\ Len(p.todo) > 1
    THEN [p EXCEPT !.at = FirstStep(p.kind), !.todo = Tail(@)]
    ELSE [p EXCEPT !.at = "failed"]

\* No bytes: a policy refusal comes fast, a slot still held refuses slowly, a source
\* ends or stays silent, a template fails at its output.
NoBytes(o) ==
    /\ open[o].at = "waiting"
    /\ \E answer \in (IF Head(open[o].todo) \in welcome THEN {} ELSE {"refused"})
                     \cup {"slow", "eof", "stalled", "template"} :
          open' = [open EXCEPT ![o] = Unserved(o, answer)]
    /\ UNCHANGED <<welcome, learned, strays, opens, flips, fed, cutShort>>

\* Mutant of Unwound: the process is left to end by itself.
UnwoundOnly(o) == [open[o] EXCEPT !.at = "gone"]

\* The play leaves while its opener waits: the kill of the process is run where the
\* unwinding cannot interrupt it.  Nobody kills a gate's probe: it becomes a stray.
Unwound(o) == [open[o] EXCEPT !.at = "gone", !.held = FALSE, !.probe = FALSE]
Left(o) == IF open[o].probe THEN 1 ELSE 0
Cancel(o) ==
    /\ open[o].kind \in {"ffmpeg", "pinned", "raw"} /\ open[o].at \in Gates \cup {"next", "waiting"}
    /\ open' = [open EXCEPT ![o] = Unwound(o)]
    /\ strays' = strays + Left(o) /\ cutShort' = cutShort + Left(o)
    /\ UNCHANGED <<welcome, learned, opens, flips, fed>>

\* A stray ends when it has seen its piece of the input, or the origin hangs up.
StrayEnds == /\ strays > 0 /\ strays' = strays - 1
             /\ UNCHANGED <<welcome, learned, open, opens, flips, fed, cutShort>>

\* The play is over, for whatever reason: _kill_quiet waits for the process, the byte
\* proxy closes the response and its client.
Ended(o) == open' = [open EXCEPT ![o].held = FALSE, ![o].at = "idle"]
            /\ UNCHANGED <<welcome, learned, strays, opens, flips, fed, cutShort>>
KillProcess(o) == open[o].at = "playing" /\ open[o].kind # "raw" /\ Ended(o)
CloseResponse(o) == open[o].at = "playing" /\ open[o].kind = "raw" /\ Ended(o)

\* The origin's front end changes its mind; a restart forgets what was learned.
Flip == /\ flips < MaxFlips /\ flips' = flips + 1
        /\ welcome' \in SUBSET Identities \ {welcome}
        /\ UNCHANGED <<learned, open, strays, opens, fed, cutShort>>

OpenNext ==
    \/ \E o \in Openers : \/ \E kind \in OpenerKinds : BeginOpen(o, kind)
                          \/ GateProbes(o) \/ PassGate(o) \/ Connect(o) \/ Bytes(o) \/ Shown(o) \/ Listed(o) \/ NoBytes(o)
                          \/ Cancel(o) \/ KillProcess(o) \/ CloseResponse(o)
    \/ StrayEnds \/ Flip

OpenSpec == OpenInit /\ [][OpenNext]_openVars
-----------------------------------------------------------------------------
(* Properties *)

\* "It keeps holding its panel slot until IT gives up - the production orphan": an
\* opener that has failed, was cancelled or goes on to its next rung holds no player's
\* connection, and its gates' probes have ended when that rung is opened.  What keeps
\* running after its opening are only the probes of openings that were cancelled in the
\* middle of one, one each.
NothingLeftOpen ==
    /\ \A o \in Openers :
          /\ open[o].held => open[o].at \in {"waiting", "playing"}
          /\ open[o].probe => open[o].at \in Gates
    /\ strays <= cutShort

\* "So an origin whose WAF policy changed re-learns within the same play instead of
\* going black": an opening that ends on a refusal was refused with both identities,
\* whatever had been learned before (the byte proxy also goes on when a rung was not
\* reached), and what is learned has worked.
RefusedByBoth ==
    /\ \A o \in Openers :
          (open[o].at = "failed" /\ open[o].last = "refused" /\ open[o].kind \notin {"pinned", "raw"})
              => open[o].refused = Identities
    /\ learned # Nobody => learned \in fed

\* However an opening ends - a ladder climbed to its end, a cancelled request, a player gone -
\* nothing of it but a probe it was waiting for keeps a connection, and it gave up on a refusal
\* only after both identities were refused.
OpeningsEndClean == NothingLeftOpen /\ RefusedByBoth
=============================================================================
