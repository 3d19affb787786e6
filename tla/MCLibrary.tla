------------------------------ MODULE MCLibrary ------------------------------
(* From a catalogue to what a player receives, one scene at a time: the live   *)
(* playlist, the review of a scan's findings, the outputs of an account, the    *)
(* programme guide, and ffmpeg's templates, command lines, openings and         *)
(* deliveries.  A scene moves its own variables only; outside their scenes all  *)
(* of them rest: as they begin, or empty.                                      *)
EXTENDS MCLivePlaylist, Outputs, StreamOpening, Delivery, CatalogReview, Guide, GuidePolicy, StreamCommand

CONSTANTS e1, e2, x, y, ch, g1, g2, red, cop, own, film, clip, soap, se, se2, ep, ep2, gA, ga, gB

ofCommand == <<reel, probed, start, starts>>
library == <<openVars, guideVars, policyVars, reviewVars, deliveryVars>>
all == <<vars, focus, commandVars, library, outputVars>>
-----------------------------------------------------------------------------
(* Constants of the scenes *)

\* The templates of the editor: every decode path, size and subtitle mode, a preset of
\* each shape, an encoder of each family.
Edited ==
    [hw : {"none", "vaapi", "qsv"}, size : {"source", "720p"},
     vf : {"none", "deint-vaapi", "yadif", "hw-roundtrip"},
     vcodec : {"copy", "libx264", "h264_vaapi"}, acodec : {"copy"}, rc : {"CQP", "CBR"},
     filled : {Knobs, {"bufsize", "fps"}}, subs : {"drop", "dvb", "keep"},
     format : {"mpegts", "matroska"}, extras : {Extras}]
\* Those that are started: what the gates look at.
Started ==
    [hw : {"none"}, size : {"source"}, vf : {"none"},
     vcodec : {"copy", "libx264"}, acodec : {"copy", "aac"}, rc : {"CQP"}, filled : {{}},
     subs : {"drop", "dvb", "keep"}, format : {"mpegts", "matroska"}, extras : {{}}]
\* Every content of a film or file; a live source is not looked into, one is enough.
Contents ==
    [net : BOOLEAN, live : {FALSE}, video : {"h264", "hevc", "mpeg2"}, audio : {"aac", "opus", "none"},
     subs : {<<>>, <<"dvb_subtitle">>, <<"subrip", "dvb_subtitle">>, <<"dvb_teletext", "subrip">>,
             <<"dvb_teletext">>, <<"dvb_subtitle", "subrip", "dvb_subtitle">>,
             <<"dvb_teletext", "dvb_subtitle", "subrip">>}]
Played == Contents \cup [net : BOOLEAN, live : {TRUE}, video : {"h264"}, audio : {"aac"},
                        subs : {<<"dvb_subtitle">>}]

\* Programmes overlap, touch, repeat and contain each other; unattributed ones come last.
P(from, to, nr) == [from |-> from, to |-> to, nr |-> nr]
Spans == {s \in (0 .. 3) \X (0 .. 3) : s[1] <= s[2]}
Pairs == {{P(s[1], s[2], 1), P(t[1], t[2], 2)} : s \in Spans, t \in Spans}
Ones == {{P(s[1], s[2], 3)} : s \in {<<0, 2>>, <<1, 3>>, <<0, 3>>, <<1, 2>>}}
Unattributed == Legacy :> {P(0, 3, 4)}
Tables == {(e1 :> a) @@ (e2 :> b) @@ Unattributed : a \in Pairs, b \in Ones}
Table == (e1 :> {P(0, 1, 1), P(1, 2, 2)}) @@ (e2 :> {P(0, 3, 3)}) @@ Unattributed
InRowOrder == <<e1, e2>>
OneFits == ch :> {x}

\* The redirect preset, the Copy preset, and a template of the operator's own.
Saved(text, format, manual) == [command |-> text, format |-> format, manual |-> manual]
Runs(copies, muxer) == [kind |-> "ffmpeg", copies |-> copies, muxer |-> muxer]
Marks(name) == [kind |-> name, copies |-> TRUE, muxer |-> "mpegts"]
Shipped == [t \in {red, cop} |-> [command |-> IF t = red THEN Marks("redirect") ELSE Runs(TRUE, "mpegts"),
                              format |-> "mpegts"]]
MaySave ==
    [t \in {red, cop, own} |->
        CASE t = red -> {Saved(Runs(TRUE, "matroska"), "matroska", TRUE)}
          [] t = cop -> {Saved(Runs(TRUE, "matroska"), "matroska", FALSE),
                         Saved(Marks("redirect"), "mpegts", TRUE)}
          [] t = own -> {Saved(Runs(FALSE, "matroska"), "matroska", FALSE),
                       Saved(Marks("redirect"), "mpegts", FALSE), Saved(Marks("passthrough"), "mpegts", FALSE)}]

FilmAndFile == (film :> "vod") @@ (clip :> "local")
AllKinds == FilmAndFile @@ (soap :> "series")
AllRows == {film, clip, soap}
BothSeasons == (se :> soap) @@ (se2 :> soap)
OneNumber == (se :> 1) @@ (se2 :> 1)
AnEpisodeEach == (ep :> se) @@ (ep2 :> se2)
Folding == (gA :> 1) @@ (ga :> 1) @@ (gB :> 2)
MayFind == {{"name", "group"}, {"art"}, {"link"}}

ASSUME OutputAssumption
-----------------------------------------------------------------------------
Editor == INSTANCE TemplateFields WITH Offered <- Edited
Merging == INSTANCE GuidePolicy WITH MaxPolicies <- 1
\* What is selected depends on no request; which text is answered, on no row but one.
Rendering == INSTANCE Outputs WITH MaxGeneration <- 1
OneFilm == writer' # Idle => /\ writer'.of \in {film, "vod"}
                             /\ writer'.what = "group" => writer'.to = gA
                             /\ writer'.what = "whitelist" => writer'.to \in {{}, {gA}}
-----------------------------------------------------------------------------
(* What rests.  Nothing is written there, and the properties find little to     *)
(* read: no play, no opening, no source of a guide, no template, no item that   *)
(* is enabled.  What none of them reads is Empty.                              *)

Empty == <<>>

TextsRest == fields = Empty /\ command = Empty /\ authority = "fields"
StartsRest == reel = Empty /\ probed = Empty /\ start = NoStart /\ starts = 0
GuideRests == /\ row = [s \in Feeds |-> [there |-> FALSE, enabled |-> FALSE]] /\ pending = TRUE
              /\ remote = Empty /\ cached = Empty /\ listed = Empty /\ shows = Empty /\ live = Empty
              /\ mapped = {} /\ worker = Empty /\ chosen = {} /\ changes = 0 /\ pulls = 0
PolicyRests == /\ stored = Empty /\ present = {} /\ active = {} /\ policies = 0
               /\ policy = [c \in Guests |-> [Automatic EXCEPT !.explicit = TRUE, !.custom = TRUE]]
ReviewRests == /\ kind = "live" /\ title = Empty /\ item = Empty /\ note = Empty /\ since = Empty
               /\ desk = FreeDesk /\ scans = 0 /\ touches = 0
DeliveryRests == /\ rows = <<>> /\ tpl = Empty /\ tab = Empty /\ play = NoPlay /\ edits = 0 /\ spoilt = FALSE
                 /\ itemTpl = [i \in Items |-> NoTpl] /\ area = [on |-> FALSE]
OutputsRest(lit) == /\ group = [r \in Rows |-> gA] /\ shown = [r \in Rows \cup Seasons |-> r \in lit]
                    /\ version = 0 /\ writer = Idle /\ generation = 0
                    /\ cache = {} /\ req = [r \in Requests |-> NoRequest]

\* The first source lists one id less, to begin with.
Published == remote = (e1 :> {x}) @@ (e2 :> {x, y})
BothHaveId == policy = [g \in {g1, g2} |-> [Automatic EXCEPT !.tvg = "x"]]

Scenes == {"numbers", "chains", "editor", "command", "opening", "guide", "merging", "minds",
           "review", "delivery", "rendering", "caching"}

SceneInit ==
    /\ Init /\ focus \in Scenes
    /\ CASE focus = "editor" -> Editor!TemplateInit /\ StartsRest
         [] focus = "command" -> CommandInit
         [] OTHER -> TextsRest /\ StartsRest
    /\ (focus # "opening" => welcome = {}) /\ OpenInit
    /\ IF focus = "guide" THEN Published /\ GuideInit ELSE GuideRests
    /\ CASE focus = "merging" -> PolicyInit /\ BothHaveId /\ stored # Table /\ active = {e1, e2}
         [] focus = "minds" -> PolicyInit /\ BothHaveId /\ stored = Table
         [] OTHER -> PolicyRests
    /\ IF focus = "review" THEN ReviewInit ELSE ReviewRests
    /\ IF focus = "delivery" THEN DeliveryInit ELSE DeliveryRests
    /\ CASE focus = "rendering" -> OutputInit
         [] focus = "caching" ->
              OutputsRest({film}) /\ \E S \in {{}, {gA}} : allowed = [k \in Kinds |-> IF k = "vod" THEN S ELSE {}]
         [] OTHER -> OutputsRest({}) /\ allowed = [k \in Kinds |-> {}]

SceneNext ==
    /\ UNCHANGED focus
    /\ \/ /\ \/ focus = "numbers" /\ Numbers!Next
             \/ focus = "chains" /\ ChainsOf!Next
          /\ UNCHANGED <<commandVars, library, outputVars>>
       \/ /\ \/ focus = "editor" /\ Editor!TemplateNext /\ UNCHANGED ofCommand
             \/ focus = "command" /\ CommandNext
          /\ UNCHANGED <<vars, library, outputVars>>
       \/ /\ \/ /\ focus = "rendering"
                /\ Rendering!Execute \/ Rendering!Commit \/ Rendering!Rollback
             \/ focus = "caching" /\ OutputNext /\ OneFilm
          /\ UNCHANGED <<vars, commandVars, library>>
       \/ /\ UNCHANGED <<vars, commandVars, outputVars>>
          /\ \/ /\ focus = "opening" /\ OpenNext
                /\ UNCHANGED <<guideVars, policyVars, reviewVars, deliveryVars>>
             \/ /\ focus = "guide" /\ GuideNext
                /\ UNCHANGED <<openVars, policyVars, reviewVars, deliveryVars>>
             \/ /\ \/ focus = "merging" /\ Merging!PolicyNext
                   \/ focus = "minds" /\ PolicyNext
                /\ UNCHANGED <<openVars, guideVars, reviewVars, deliveryVars>>
             \/ /\ focus = "review" /\ ReviewNext
                /\ UNCHANGED <<openVars, guideVars, policyVars, deliveryVars>>
             \/ /\ focus = "delivery" /\ DeliveryNext
                /\ UNCHANGED <<openVars, guideVars, policyVars, reviewVars>>

SceneSpec == SceneInit /\ [][SceneNext]_all
-----------------------------------------------------------------------------
(* Every module's types, each in the scenes it plays in.                       *)
WellTyped ==
    CASE focus \in {"numbers", "chains"} -> TypeOK
      [] focus = "editor" -> Editor!TemplateTypeOK
      [] focus = "command" -> CommandTypeOK
      [] focus = "opening" -> OpenTypeOK
      [] focus = "guide" -> GuideTypeOK
      [] focus \in {"merging", "minds"} -> PolicyTypeOK
      [] focus = "review" -> ReviewTypeOK
      [] focus = "delivery" -> DeliveryTypeOK
      [] focus \in {"rendering", "caching"} -> OutputTypeOK

(* The playlist has one order: numbers increase along the positions and avoid  *)
(* the locked ones, a channel sent to a number lands there or on the next free *)
(* one, and no two sources of a chain share a priority - after every sequence  *)
(* of creations, edits, moves, deletions and source switches.                  *)
PlaylistInOrder == NumbersInOrder /\ MoveLandsWhereAsked /\ ChainsOrdered

(* The two-way sync of the template editor comes to rest, and what was         *)
(* rendered from fields loses nothing on its way back (ffmpeg_templates.py).   *)
FacesAgree == focus = "editor" => SyncSettles

(* "Priority order wins.  Lower-priority entries are clipped to uncovered      *)
(* spans": at every moment a merged guide shows what the first layer with      *)
(* anything on has on.                                                         *)
FirstLayerShows == focus \in {"merging", "minds"} => PriorityWins
=============================================================================
