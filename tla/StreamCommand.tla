--------------------------- MODULE StreamCommand ---------------------------
(***************************************************************************)
(* From a template's command to the argv one start spawns (stream_manager   *)
(* _ffmpeg_argv, _remux_gate, _subs_gate, _spawn): the fix-ups of the text,  *)
(* and the two gates that look into the source (services/probe.py) before a *)
(* film or a local file is opened.  One source; its starts follow each other *)
(***************************************************************************)
EXTENDS TemplateFields

CONSTANTS
    Reels,         \* the sources that may be played
    Unusable,      \* no argv: the start fails before it opens anything
    DvbCap,        \* 8: subtitle tracks the gate names at most for MPEG-TS,
    MkvCap,        \* 16: and for Matroska
    MaxStarts      \* bound

VARIABLES
    reel,          \* the source played
    probed,        \* the caches _CODECS_CACHE and _SUBS_CACHE: what they say of it
    start,         \* the start under way
    starts

commandVars == <<templateVars, reel, probed, start, starts>>

\* A source: net or on disk, live or to be paced, and what is inside it.
SubCodecs == {"dvb_subtitle", "subrip", "pgs", "dvb_teletext"}
Inputs == [net : BOOLEAN, live : BOOLEAN, video : {"h264", "hevc", "mpeg2"},
            audio : {"aac", "opus", "none"}, subs : Seq(SubCodecs)]

ASSUME CommandAssumption == Reels \subseteq Inputs /\ {DvbCap, MkvCap} \subseteq Nat \ {0}

TsAudio == {"aac"}
Carried(muxer) == IF muxer = "matroska" THEN SubCodecs \ {"dvb_teletext"} ELSE {"dvb_subtitle"}
Filter(video) == IF video \in {"h264", "hevc"} THEN video ELSE "none"
Tracks(muxer) == {n \in 1 .. Len(reel.subs) : reel.subs[n] \in Carried(muxer)}

\* The gate names the first of the tracks the container carries, up to a cap.
Cap(muxer) == IF muxer = "matroska" THEN MkvCap ELSE DvbCap
TracksAhead(n, muxer) == {m \in Tracks(muxer) : m < n}
FirstTracks(muxer) == {n \in Tracks(muxer) : Cardinality(TracksAhead(n, muxer)) < Cap(muxer)}

\* What a probe table holds of the source: nothing, a failure, or the truth.
Verdicts == {"never", "failed", "known"}
NoStart == [at |-> "idle", argv |-> Unusable, told |-> {}]
-----------------------------------------------------------------------------
(* The text's own fix-ups *)

\* _drop_subtitles: no map, no codec, and no automatic choice either.
Silent(a) == [a EXCEPT !.maps = {}, !.all = FALSE, !.scodec = "none", !.sn = TRUE]

\* _ensure_annexb assumes H.264, it has not seen the file.
AnnexB(a) == IF a.vcodec = "copy" /\ a.muxer = "mpegts" /\ a.bsf = "none" THEN [a EXCEPT !.bsf = "h264"] ELSE a

\* _ensure_interleave_flush and _ensure_flush_packets, for the two piped containers.
Flushing(a) == [a EXCEPT !.flags = @ \cup {"max_interleave_delta", "flush_packets"}]

\* _matroska_to_mpegts_for_live: a box shows no picture of a live Matroska pipe.
ForLive(a) ==
    LET quick == [a EXCEPT !.flags = @ \cup {"probesize"}] IN
    IF quick.muxer = "matroska"
    THEN Silent([quick EXCEPT !.muxer = "mpegts", !.flags = (@ \ {"live"}) \cup {"mpegts_flags"}])
    ELSE quick

\* Identity and time-outs only for a network input; -re where nothing paces the input.
InputFlags == (IF reel.net THEN {"user_agent", "referer"} ELSE {}) \cup (IF reel.live THEN {} ELSE {"re"})

\* A map of subtitle streams, or a codec for them, says that the text wants some.
WantsSubs(c) == c.subs \/ c.scodec # "none"

Argv(c) ==
    LET read == [muxer |-> c.muxer, vcodec |-> c.vcodec, acodec |-> c.acodec, bsf |-> c.bsf,
                 maps |-> {}, all |-> c.subs, scodec |-> c.scodec, sn |-> c.sn,
                 flags |-> c.ours \cup (c.extras \cap {"flush_packets"}) \cup InputFlags]
        quiet == IF WantsSubs(c) THEN read ELSE Silent(read)
        piped == Flushing(AnnexB(quiet))
    IN IF c.muxer = "hls" THEN Unusable
       ELSE IF reel.live THEN Flushing(AnnexB(ForLive(piped))) ELSE piped
-----------------------------------------------------------------------------
(* The gates *)

Copies(a) == a.vcodec = "copy" \/ a.acodec = "copy"

\* Does the gate look into the source at all?  Live inputs are trusted: zapping is instant.
RemuxAsks(a) == ~reel.live /\ a.muxer = "mpegts" /\ Copies(a)
SubsAsks(a) == ~reel.live /\ a.scodec # "none"

\* Matroska looks only at what is known of a link already: the one thing it could learn
\* is not worth the play token a second opening may spend.
OnlyCached(a) == a.muxer = "matroska" /\ reel.net

\* Mutant of Remuxed: the filter is added where none is, and never exchanged.
RemuxedOnce(a) ==
    [a EXCEPT !.bsf = IF a.vcodec = "copy" /\ @ = "none" THEN Filter(reel.video) ELSE @,
              !.acodec = IF @ = "copy" /\ reel.audio \notin TsAudio \cup {"none"} THEN "ac3" ELSE @]

\* The bitstream filter of the real codec, or none; audio without a berth is encoded.
Remuxed(a) ==
    [a EXCEPT !.bsf = IF a.vcodec = "copy" THEN Filter(reel.video) ELSE @,
              !.acodec = IF @ = "copy" /\ reel.audio \notin TsAudio \cup {"none"} THEN "ac3" ELSE @]

\* _remap_subs: maps by ordinal among the subtitle tracks, for those that are kept.
Remapped(a, codec) == [a EXCEPT !.all = FALSE, !.maps = FirstTracks(a.muxer), !.scodec = codec]

\* A Matroska pipe of which every track fits keeps its map of all of them, without a cap.
Subtitled(a) ==
    IF a.muxer = "matroska"
    THEN IF Tracks(a.muxer) = 1 .. Len(reel.subs) THEN a
         ELSE IF Tracks(a.muxer) = {} THEN Silent(a) ELSE Remapped(a, "copy")
    ELSE IF Tracks(a.muxer) = {} THEN Silent(a)
         ELSE Remapped(a, IF a.scodec = "copy" /\ \A n \in 1 .. Len(reel.subs) : reel.subs[n] = "dvb_subtitle"
                          THEN "copy" ELSE "dvbsub")

\* Without an answer: MPEG-TS gives the subtitles up, Matroska keeps them all.
SubsUnknown(a) == IF a.muxer = "matroska" THEN a ELSE Silent(a)
-----------------------------------------------------------------------------
(* One start *)

CommandTypeOK ==
    /\ reel \in Inputs /\ probed \in [{"codecs", "subs"} -> Verdicts]
    /\ start.at \in {"idle", "remux", "subs", "spawn"} /\ start.told \subseteq {"codecs", "subs"}
    /\ starts \in 0 .. MaxStarts

\* Templates as rendered, and texts stored by hand: a subtitle map without a codec, or
\* a codec without a map.
CommandTexts(o) == {Build(o), [Build(o) EXCEPT !.scodec = "none"], [Build(o) EXCEPT !.subs = FALSE]}

CommandInit ==
    /\ fields \in Offered /\ command \in CommandTexts(fields) /\ reel \in Reels
    /\ authority = IF command = Build(fields) THEN "fields" ELSE "manual"
    /\ probed = [p \in {"codecs", "subs"} |-> "never"] /\ start = NoStart /\ starts = 0

\* _spawn renders the text; a sentinel, HLS files or an unreadable text end it here.
RenderArgv ==
    /\ start.at = "idle" /\ starts < MaxStarts /\ Argv(command) # Unusable
    /\ start' = [at |-> "remux", argv |-> Argv(command), told |-> {}]
    /\ starts' = starts + 1
    /\ UNCHANGED <<templateVars, reel, probed>>

\* What asking a table comes to: its entry, or a probe whose answer is kept unless it
\* timed out.  A cached failure is an answer like any other.
Looked(p, cachedOnly) ==
    IF probed[p] # "never" THEN {<<probed[p], probed[p]>>}
    ELSE IF cachedOnly THEN {<<"failed", "never">>}
    ELSE {<<"known", "known">>, <<"failed", "failed">>, <<"failed", "never">>}

RemuxGate ==
    /\ start.at = "remux"
    /\ \/ /\ ~RemuxAsks(start.argv)
          /\ start' = [start EXCEPT !.at = "subs"] /\ UNCHANGED probed
       \/ /\ RemuxAsks(start.argv)
          /\ \E got \in Looked("codecs", FALSE) :
                /\ start' = IF got[1] = "failed" THEN [start EXCEPT !.at = "subs"]
                            ELSE [at |-> "subs", argv |-> Remuxed(start.argv), told |-> start.told \cup {"codecs"}]
                /\ probed' = [probed EXCEPT !["codecs"] = got[2]]
    /\ UNCHANGED <<templateVars, reel, starts>>

SubsGate ==
    /\ start.at = "subs"
    /\ \/ /\ ~SubsAsks(start.argv)
          /\ start' = [start EXCEPT !.at = "spawn"] /\ UNCHANGED probed
       \/ /\ SubsAsks(start.argv)
          /\ \E got \in Looked("subs", OnlyCached(start.argv)) :
                /\ start' = IF got[1] = "failed"
                            THEN [at |-> "spawn", argv |-> SubsUnknown(start.argv), told |-> start.told]
                            ELSE [at |-> "spawn", argv |-> Subtitled(start.argv), told |-> start.told \cup {"subs"}]
                /\ probed' = [probed EXCEPT !["subs"] = got[2]]
    /\ UNCHANGED <<templateVars, reel, starts>>

\* The process runs, or the play has gone away during a gate's probe.
Leave == /\ start.at # "idle" /\ start' = NoStart
         /\ UNCHANGED <<templateVars, reel, probed, starts>>

\* A table's entry is ten minutes old, or a scan of the file fills both.
Forget == /\ \E p \in {"codecs", "subs"} : probed[p] # "never" /\ probed' = [probed EXCEPT ![p] = "never"]
          /\ UNCHANGED <<templateVars, reel, start, starts>>
Prime == /\ ~reel.net /\ probed' \in [{"codecs", "subs"} -> {"never", "known"}] /\ probed' # probed
         /\ UNCHANGED <<templateVars, reel, start, starts>>

CommandNext == RenderArgv \/ RemuxGate \/ SubsGate \/ Leave \/ Forget \/ Prime

CommandSpec == CommandInit /\ [][CommandNext]_commandVars
-----------------------------------------------------------------------------
(* Properties *)

\* What ffmpeg aborts on before its first byte, as the comments of the gates have it.
PictureFits(a) == a.muxer = "mpegts" /\ a.vcodec = "copy" => a.bsf = Filter(reel.video)
SoundFits(a) == a.muxer = "mpegts" /\ a.acodec = "copy" => reel.audio \in TsAudio \cup {"none"}
Mapped(a) == IF a.all THEN 1 .. Len(reel.subs) ELSE a.maps

\* Both gates "degrade to the safe default, never to an ffmpeg abort", and to no less:
\* of a source that was looked into, the spawned argv copies nothing its container
\* refuses, maps only subtitle tracks that it carries and, if the template wants any,
\* leaves one of those out only behind as many as the gate has room for.  (A text that
\* names no codec for its subtitles passes unexamined.)
OutputFits ==
    (start.at = "spawn" /\ ~reel.live) =>
        LET a == start.argv IN
        /\ "codecs" \in start.told => PictureFits(a) /\ SoundFits(a)
        /\ "subs" \in start.told => Mapped(a) \subseteq Tracks(a.muxer)
        /\ "subs" \in start.told /\ command.subs =>
               \A n \in Tracks(a.muxer) \ Mapped(a) : Cardinality(TracksAhead(n, a.muxer)) >= Cap(a.muxer)
        /\ a.muxer = "mpegts" /\ a.scodec # "none" => Mapped(a) \subseteq Tracks(a.muxer)
        /\ Mapped(a) # {} => ~a.sn
=============================================================================
