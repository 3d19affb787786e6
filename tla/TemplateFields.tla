--------------------------- MODULE TemplateFields ---------------------------
(***************************************************************************)
(* An ffmpeg template has two faces: structured fields and a command text   *)
(* (services/ffmpeg_templates.py).  Build renders the fields, Parse reads a *)
(* command back onto the fields it came from, and the editor keeps the two  *)
(* in step (routers/api_ffmpeg.py).                                         *)
(*                                                                          *)
(* A command is a record of what its options say.  A knob is a field whose  *)
(* value is passed through; only whether it is filled matters here.         *)
(***************************************************************************)
EXTENDS Naturals, Sequences, FiniteSets

CONSTANT Offered   \* bound: the field sets an operator fills in

VARIABLES
    fields,        \* the structured columns of the row
    command,       \* the command column, parsed
    authority      \* command_source: "fields" or "manual"

templateVars == <<fields, command, authority>>

VideoKnobs == {"video_bitrate", "maxrate", "bufsize"}
Tuning == {"rc_mode", "async_depth", "global_quality"}
Knobs == VideoKnobs \cup Tuning \cup {"fps", "profile", "low_power", "audio_bitrate"}

\* Flags typed into the extra fields, each with a value of the operator's own: an
\* encoder preset, and two flags the renderer otherwise sets itself.
Extras == {"preset", "reconnect", "flush_packets"}

VfPresets == {"none", "deint-vaapi", "deint-qsv", "yadif", "hw-roundtrip", "pixfmt-420p", "setfield"}

FieldSets == [hw : {"none", "vaapi", "qsv"}, size : {"source", "720p"}, vf : VfPresets,
           vcodec : {"copy", "libx264", "h264_vaapi", "hevc_vaapi", "h264_qsv"},
           acodec : {"copy", "aac", "none"}, rc : {"AUTO", "CQP", "ICQ", "CBR", "AVBR"},
           filled : SUBSET Knobs, subs : {"drop", "dvb", "keep"},
           format : {"mpegts", "hls", "matroska"}, extras : SUBSET Extras]
-----------------------------------------------------------------------------
(* The filter chain *)

\* Is the video encoded at all, and by which family?
Transcodes(o) == o.vcodec # "copy"
Vaapi == {"h264_vaapi", "hevc_vaapi"}
H264 == {"libx264", "h264_vaapi", "h264_qsv"}

\* VF_PRESETS: what a preset splices in, per decode path; nothing where it does not apply.
OnCpu(names) == <<"hwdownload">> \o names \o <<"hwupload">>

Snippet(preset, hw) ==
    CASE preset = "deint-vaapi" /\ hw = "vaapi" -> <<"deinterlace_vaapi">>
      [] preset = "deint-qsv" /\ hw = "qsv" -> <<"vpp_qsv">>
      [] preset = "yadif" -> IF hw = "none" THEN <<"yadif">> ELSE OnCpu(<<"format", "yadif">>)
      [] preset = "hw-roundtrip" /\ hw # "none" -> OnCpu(<<>>)
      [] preset = "pixfmt-420p" /\ hw # "none" -> OnCpu(<<"format">>)
      [] preset = "setfield" -> <<"setfield">>
      [] OTHER -> <<>>

\* The scaler of the decode path.  VAAPI converts the pixel format even at source size.
Scaler(hw) == CASE hw = "vaapi" -> "scale_vaapi" [] hw = "qsv" -> "scale_qsv" [] OTHER -> "scale"
Sized(hw, size) == <<Scaler(hw), size>>

Filters(o) ==
    LET plain(names) == [i \in 1 .. Len(names) |-> <<names[i], "">>]
        scale == IF o.size # "source" \/ o.hw = "vaapi" THEN <<Sized(o.hw, o.size)>> ELSE <<>>
        fps == IF "fps" \in o.filled THEN <<"fps">> ELSE <<>>
        pixels == IF o.hw = "none" THEN <<"format">> ELSE <<>>
    IN plain(Snippet(o.vf, o.hw)) \o scale \o plain(fps \o pixels \o <<"setsar">>)
-----------------------------------------------------------------------------
(* Fields to command *)

\* ffmpeg_applicability: the knobs without meaning for these fields.
Inactive(o) ==
    (IF ~Transcodes(o) THEN VideoKnobs \cup Tuning \cup {"fps", "profile", "low_power"} ELSE {})
    \cup (IF o.vcodec \in Vaapi /\ o.rc \in {"CQP", "ICQ"} THEN VideoKnobs ELSE {})
    \cup (IF o.vcodec \in Vaapi /\ o.rc = "AVBR" THEN {"maxrate", "bufsize"} ELSE {})
    \cup (IF o.vcodec \in Vaapi /\ o.rc = "CBR" /\ "bufsize" \in o.filled THEN {"maxrate"} ELSE {})
    \cup (IF o.vcodec \notin H264 THEN {"profile"} ELSE {})
    \cup (IF o.vcodec # "h264_vaapi" THEN {"low_power"} ELSE {})
    \cup (IF o.vcodec \notin Vaapi THEN Tuning ELSE {})
    \cup (IF o.rc \notin {"CQP", "ICQ"} THEN {"global_quality"} ELSE {})
    \cup (IF o.acodec \in {"copy", "none"} THEN {"audio_bitrate"} ELSE {})

\* Mutant of SubMode: every container is taken to carry every track.
SubModeAsked(o) == o.subs

\* keep needs a container for text; elsewhere it is the bitmap mode.
SubMode(o) == IF o.subs = "keep" /\ o.format # "matroska" THEN "dvb" ELSE o.subs

\* Flags the renderer sets for a container unless the operator did.
OursIn(format) == {"reconnect", "flush_packets"} \cup (IF format = "matroska" THEN {"live"} ELSE {})

\* A remux copies its bitmap tracks, a transcode encodes them again; keep copies all.
SubCodec(o) ==
    CASE SubMode(o) = "drop" -> "none"
      [] SubMode(o) = "dvb" /\ Transcodes(o) -> "dvbsub"
      [] OTHER -> "copy"

Build(o) ==
    [hw |-> IF Transcodes(o) THEN o.hw ELSE "none",
     vf |-> IF Transcodes(o) THEN Filters(o) ELSE <<>>,
     audio |-> o.acodec # "none",
     subs |-> SubMode(o) # "drop", sn |-> SubMode(o) = "drop",
     vcodec |-> o.vcodec, acodec |-> o.acodec,
     scodec |-> SubCodec(o),
     rc |-> IF o.vcodec \in Vaapi THEN o.rc ELSE "AUTO",
     knobs |-> o.filled \ Inactive(o),
     extras |-> o.extras, ours |-> OursIn(o.format) \ o.extras,
     bsf |-> IF ~Transcodes(o) /\ o.format = "mpegts" THEN "h264" ELSE "none",
     muxer |-> o.format]
-----------------------------------------------------------------------------
(* Command to fields *)

\* The segments a preset would be, without arguments.
NamesOf(vf) == [i \in 1 .. Len(vf) |-> vf[i][1]]
Occurs(short, long) ==
    \E i \in 0 .. Len(long) - Len(short) : SubSeq(long, i + 1, i + Len(short)) = short

\* The presets whose snippet the chain holds; the longest snippet wins.
PresetsIn(vf) ==
    {p \in VfPresets : \E hw \in {"none", "vaapi", "qsv"} :
        Snippet(p, hw) # <<>> /\ Occurs(Snippet(p, hw), NamesOf(vf))}
LongestIn(p, vf) ==
    LET found == {s \in {Snippet(p, hw) : hw \in {"none", "vaapi", "qsv"}} : Occurs(s, NamesOf(vf))}
    IN CHOOSE n \in {Len(s) : s \in found} : \A s \in found : Len(s) <= n
Matched(vf) == CHOOSE p \in PresetsIn(vf) : \A q \in PresetsIn(vf) : LongestIn(q, vf) <= LongestIn(p, vf)

Scales(vf) == {i \in 1 .. Len(vf) : vf[i][1] \in {"scale_vaapi", "scale_qsv", "scale"}}

\* Known at all: a scaler, or "format" anywhere in the text (the GPU scalers name one).
Recognised(vf) == Scales(vf) # {} \/ <<"format", "">> \in {vf[i] : i \in 1 .. Len(vf)}

DecodePath(vf, otherwise) ==
    IF Scales(vf) = {} THEN otherwise
    ELSE CASE vf[CHOOSE i \in Scales(vf) : TRUE][1] = "scale_vaapi" -> "vaapi"
           [] vf[CHOOSE i \in Scales(vf) : TRUE][1] = "scale_qsv" -> "qsv"
           [] OTHER -> "none"

SizeFrom(vf, otherwise) ==
    IF \E i \in Scales(vf) : vf[i][2] # "source" THEN vf[CHOOSE i \in Scales(vf) : TRUE][2] ELSE otherwise

\* A chain nobody recognises is handed back as an extra flag; -vf belongs to the fields,
\* so the whole list of output extras is rejected with it (_safe_extra_tokens).
KeptExtras(c) == IF c.vf # <<>> /\ ~Recognised(c.vf) THEN c.extras \cap {"reconnect"} ELSE c.extras

\* The subtitle verdict, whatever the order of the flags.
SubsRead(c, otherwise) ==
    IF (c.subs \/ c.scodec # "none") /\ ~c.sn
    THEN IF c.muxer = "matroska" THEN "keep" ELSE "dvb"
    ELSE IF c.sn THEN "drop" ELSE otherwise

\* What the text does not mention stays as in base.
Parse(c, base) ==
    [base EXCEPT
       !.hw = IF c.vcodec = "copy" THEN "none" ELSE DecodePath(c.vf, IF c.hw # "none" THEN c.hw ELSE @),
       !.size = IF c.vcodec = "copy" THEN "source" ELSE SizeFrom(c.vf, @),
       !.vf = IF c.vf = <<>> THEN @
              ELSE IF PresetsIn(c.vf) # {} THEN Matched(c.vf)
              ELSE IF Recognised(c.vf) THEN "none" ELSE @,
       !.vcodec = c.vcodec, !.acodec = c.acodec,
       !.rc = IF c.rc # "AUTO" THEN c.rc ELSE @,
       !.filled = @ \cup c.knobs,
       !.subs = SubsRead(c, @),
       !.format = c.muxer, !.extras = KeptExtras(c)]
-----------------------------------------------------------------------------
(* The editor *)

TemplateTypeOK ==
    /\ fields \in FieldSets /\ authority \in {"fields", "manual"}
    /\ command.knobs \subseteq Knobs /\ command.extras \subseteq Extras

TemplateInit == fields \in Offered /\ command = Build(fields) /\ authority = "fields"

\* An operator changes the text: drops what is optional, turns
\* subtitles off, or forgets their codec.
Retype ==
    /\ authority = "fields"
    /\ \/ \E k \in command.knobs : command' = [command EXCEPT !.knobs = @ \ {k}]
       \/ \E e \in command.extras : command' = [command EXCEPT !.extras = @ \ {e}]
       \/ command.vf # <<>> /\ command' = [command EXCEPT !.vf = Tail(@)]
       \/ ~command.sn /\ command' = [command EXCEPT !.sn = TRUE, !.subs = FALSE, !.scodec = "none"]
       \/ command.subs /\ command' = [command EXCEPT !.scodec = "none"]
    /\ authority' = "manual" /\ UNCHANGED fields

\* /parse: the fields follow the text, the text stays as typed.
Sync == /\ authority = "manual"
        /\ fields' = Parse(command, fields) /\ UNCHANGED <<command, authority>>

\* A save with the fields in charge renders the text again; a manual text stays.
Save == /\ command' = Build(fields) /\ authority' = "fields" /\ UNCHANGED fields

TemplateNext == Retype \/ Sync \/ Save
-----------------------------------------------------------------------------
(* Properties *)

\* The two-way sync of the editor comes to rest: whatever was typed, fields read from a
\* text and rendered again say the same in every later round.  And rendered fields lose
\* nothing on the way, but for a chain without any scaler or pixel format, of which the
\* parser promises nothing, and bitmap subtitles in Matroska, which it reads as "keep".
SyncSettles ==
    LET read == Parse(command, fields) IN
    /\ Build(Parse(Build(read), read)) = Build(read)
    /\ \/ authority = "manual"
       \/ command.vf # <<>> /\ ~Recognised(command.vf)
       \/ fields.subs = "dvb" /\ fields.format = "matroska"
       \/ Build(read) = command
=============================================================================
