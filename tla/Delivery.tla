------------------------------ MODULE Delivery ------------------------------
(***************************************************************************)
(* Which template a playlist item plays with (services/playback.py), what a  *)
(* play then answers (routers/output.py, StreamManager.open), what playlists *)
(* and bouquets announce for it (playlist_gen.py, enigma2_bouquets.py), and  *)
(* the edits of templates, areas and items in between.  One user, with an    *)
(* area; a template is its command, the format its fields name and flags.    *)
(***************************************************************************)
EXTENDS Naturals, Sequences, FiniteSets, SequencesExt, Selection

CONSTANTS
    Templates, NoTpl,
    BuiltIn,      \* the built-in ones
    CopyPreset,   \* the Copy preset
    Factory,      \* [BuiltIn -> what the program ships: command and format]
    Saves,        \* [Templates -> what the operator may save: command, format, manual]
    Items,
    KindOfItem,       \* [Items -> "live", "vod", "series" or "local"]
    Editors,      \* requests of the FFmpeg tab that overlap
    MaxTemplateEdits      \* bound: edits and restarts

VARIABLES
    rows,         \* templates in the order of their ids
    tpl,          \* [Templates -> the template row]
    itemTpl,         \* [Items -> the template of the playlist row]
    area,         \* the area of the user
    tab,         \* [Editors -> a request of the FFmpeg tab]
    play,
    spoilt,       \* history: the operator saved the redirect marker into the Copy preset
    edits

deliveryVars == <<rows, tpl, itemTpl, area, tab, play, spoilt, edits>>

ItemKinds == {KindOfItem[i] : i \in Items}
Muxers == {"mpegts", "matroska"}
Doors == {"template", "proxy", "redirect"}
Ffmpeg(copies, muxer) == [kind |-> "ffmpeg", copies |-> copies, muxer |-> muxer]
Marker(name) == [kind |-> name, copies |-> TRUE, muxer |-> "mpegts"]
Pass == Ffmpeg(TRUE, "mpegts")
Commands == [kind : {"ffmpeg", "redirect", "passthrough"}, copies : BOOLEAN, muxer : Muxers]
Shipments == [command : Commands, format : Muxers]

\* The constant templates are rows the code can seed and save; one that the operator
\* made was saved with the fields its command has.  The Copy preset is shipped as a command.
ASSUME DeliveryAssumption ==
    /\ IsFiniteSet(Templates) /\ BuiltIn \subseteq Templates /\ CopyPreset \in BuiltIn
    /\ NoTpl \notin Templates
    /\ Factory \in [BuiltIn -> Shipments] /\ Factory[CopyPreset].command.kind = "ffmpeg"
    /\ \A t \in Templates : Saves[t] \subseteq [command : Commands, format : Muxers, manual : BOOLEAN]
    /\ \A t \in Templates \ BuiltIn : \E s \in Saves[t] : s.command.muxer = s.format

Row(t, on) == [command |-> Factory[t].command, format |-> Factory[t].format, on |-> on,
               default |-> FALSE, manual |-> FALSE]
NoEdit == [at |-> "idle", what |-> "none", tid |-> NoTpl, save |-> NoTpl]
NoPlay == [at |-> "none", item |-> NoTpl, door |-> "none", tid |-> NoTpl, alias |-> "ts", command |-> Pass]

DeliveryTypeOK ==
    /\ ToSet(rows) \subseteq Templates /\ IsInjective(rows)
    /\ tpl \in [Templates -> [command : Commands, format : Muxers, on : BOOLEAN,
                              default : BOOLEAN, manual : BOOLEAN]]
    /\ {itemTpl[i] : i \in Items} \subseteq ToSet(rows) \cup {NoTpl}
    /\ {area.kinds[k] : k \in ItemKinds} \cup {area.except[i] : i \in Items} \subseteq ToSet(rows) \cup {NoTpl}
    /\ \A e \in Editors : tab[e].what \in {"none", "choose", "switch", "save", "delete"}
    /\ play.at \in {"none", "asked", "opening", "read", "spawn", "cdn", "file", "refused"}
    /\ play.command \in Commands /\ spoilt \in BOOLEAN

FirstSave(t) == CHOOSE s \in Saves[t] : s.command.muxer = s.format

\* As _seed_defaults leaves a new installation, with some templates of the operator's.
DeliveryInit ==
    /\ rows = SetToSeq(BuiltIn) \o SetToSeq(Templates \ BuiltIn)
    /\ tpl = [t \in Templates |->
                IF t \in BuiltIn THEN [Row(t, TRUE) EXCEPT !.default = (Factory[t].command.kind = "redirect")]
                ELSE [command |-> FirstSave(t).command, format |-> FirstSave(t).format, on |-> TRUE,
                      default |-> FALSE, manual |-> FirstSave(t).manual]]
    /\ itemTpl = [i \in Items |-> NoTpl]
    /\ area = [on |-> TRUE, kinds |-> [k \in ItemKinds |-> NoTpl], except |-> [i \in Items |-> NoTpl]]
    /\ tab = [e \in Editors |-> NoEdit] /\ play = NoPlay /\ spoilt = FALSE /\ edits = 0
-----------------------------------------------------------------------------
(* TemplateMap *)

There(t) == t \in ToSet(rows)
Usable(t) == There(t) /\ tpl[t].on
EnabledRows == Only(rows, {t \in ToSet(rows) : tpl[t].on})
DefaultRow == Only(EnabledRows, {t \in ToSet(rows) : tpl[t].default})
LastResort == IF DefaultRow # <<>> THEN DefaultRow[1] ELSE IF EnabledRows # <<>> THEN EnabledRows[1] ELSE NoTpl

\* The area's exception, the area's template for the kind, the item's own, the default: the
\* first that exists and is enabled.
TemplatesFor(i) == (IF area.on THEN <<area.except[i], area.kinds[KindOfItem[i]]>> ELSE <<>>) \o <<itemTpl[i]>>
Resolved(i) == LET fit == Only(TemplatesFor(i), {t \in ToSet(rows) : tpl[t].on}) IN IF fit # <<>> THEN fit[1] ELSE LastResort
CommandOf(t) == IF t = NoTpl THEN Pass ELSE tpl[t].command
FormatOf(t) == IF t = NoTpl THEN "mpegts" ELSE tpl[t].format
-----------------------------------------------------------------------------
(* A play *)

ServesOriginal(command) == command.kind # "ffmpeg" \/ command.copies

CopyFallback == IF Usable(CopyPreset) THEN tpl[CopyPreset].command ELSE Pass

\* Mutant of OpenedWith: an explicit proxy of a redirected item keeps its template.
OpenedWithTemplate(kind, door, command) ==
    IF kind = "local" /\ command.kind # "ffmpeg" THEN Pass ELSE command

\* open and _open_preview: a play that is forced through the pipe has a command to run.
OpenedWith(kind, door, command) ==
    IF kind = "local" /\ command.kind # "ffmpeg" THEN Pass
    ELSE IF kind # "local" /\ door # "template" /\ command.kind = "redirect" THEN CopyFallback
    ELSE command

\* What is sent: a live Matroska pipe is rewritten, bytes passed through are the panel's.
Sent(kind, command) ==
    IF command.kind = "redirect" THEN "nothing"
    ELSE IF command.kind = "passthrough" THEN "cdn"
    ELSE IF kind = "live" THEN "mpegts" ELSE command.muxer

Redirects(kind, door, command) ==
    kind # "local" /\ (door = "redirect" \/ (door = "template" /\ command.kind = "redirect"))

\* A file is sent as it is when its template copies and the URL names its own suffix.
ServesFile(i, alias) == KindOfItem[i] = "local" /\ ServesOriginal(CommandOf(Resolved(i))) /\ alias = "own"

\* An answer when nothing is edited during the play.  The door of a local file is ignored.
AnswerTo(i, door, alias) ==
    LET kind == KindOfItem[i]
        command == CommandOf(Resolved(i)) IN
    IF ServesFile(i, alias) THEN "file"
    ELSE IF Redirects(kind, door, command) THEN "cdn"
    ELSE Sent(kind, OpenedWith(kind, IF kind = "local" THEN "proxy" ELSE door, command))

PlayStep == UNCHANGED <<rows, tpl, itemTpl, area, tab, spoilt, edits>>

\* By a playlist URL, from the web player with a template of its list, or as the preview
\* of a source with any template.
Ask(i, door, alias) ==
    /\ play.at = "none" /\ PlayStep /\ (alias = "ts" \/ KindOfItem[i] = "local")
    /\ play' = [NoPlay EXCEPT !.at = "asked", !.item = i, !.door = door, !.alias = alias]
AskWeb(i, t) ==
    /\ play.at = "none" /\ PlayStep /\ Usable(t) /\ tpl[t].format = "mpegts"
    /\ play' = [NoPlay EXCEPT !.at = "opening", !.item = i, !.door = "web", !.tid = t]
AskPreview(i, t) ==
    /\ play.at = "none" /\ PlayStep /\ KindOfItem[i] # "local"
    /\ play' = [NoPlay EXCEPT !.at = "opening", !.item = i, !.door = "preview", !.tid = t]

\* _wants_redirect and uses_redirect; local_serves_original for a file.
Decide ==
    /\ play.at = "asked" /\ PlayStep
    /\ play' = [play EXCEPT !.at =
          IF ServesFile(play.item, play.alias) THEN "file"
          ELSE IF Redirects(KindOfItem[play.item], play.door, CommandOf(Resolved(play.item))) THEN "cdn"
          ELSE "opening"]

\* open resolves once more; the web player's choice is validated once more, and the
\* preview's is used when it is enabled.
Chosen ==
    CASE play.door = "preview" -> IF Usable(play.tid) THEN play.tid ELSE LastResort
      [] play.door = "web" -> play.tid
      [] OTHER -> Resolved(play.item)
Open ==
    /\ play.at = "opening" /\ PlayStep
    /\ IF play.door = "web" /\ ~(Usable(play.tid) /\ tpl[play.tid].format = "mpegts")
       THEN play' = [play EXCEPT !.at = "refused"]
       ELSE play' = [play EXCEPT !.at = "read", !.command = CommandOf(Chosen)]
\* What stands in for a marker is read later, in a session of its own.
StandIn ==
    /\ play.at = "read" /\ PlayStep
    /\ play' = [play EXCEPT !.at = "spawn",
                            !.command = OpenedWith(KindOfItem[play.item], play.door, play.command)]
EndPlay == play.at \in {"spawn", "cdn", "file", "refused"} /\ play' = NoPlay /\ PlayStep
-----------------------------------------------------------------------------
(* What is announced *)

\* Mutant of Effective: the line follows the template, not the delivery of the profile.
EffectiveOfTemplate(kind, door, what) == what

\* _Resolver.for_item: what the item's line says the receiver will get.
What(t) == IF t # NoTpl /\ tpl[t].command.kind = "redirect" THEN "direct"
           ELSE IF FormatOf(t) = "matroska" THEN "mkv" ELSE "ts"
Effective(kind, door, what) ==
    IF kind = "local" THEN what
    ELSE IF door = "redirect" THEN "direct"
    ELSE IF door = "proxy" /\ what = "direct" THEN "ts" ELSE what
\* Templates that no longer play, enabled or not, take the resolver's own last resort.
BouquetRow(i) ==
    LET t == Resolved(i)
        defaults == Only(rows, {x \in ToSet(rows) : tpl[x].default}) IN
    IF t # NoTpl THEN t ELSE IF defaults # <<>> THEN defaults[1] ELSE IF rows # <<>> THEN rows[1] ELSE NoTpl
BouquetLine(i, door) == Effective(KindOfItem[i], door, What(BouquetRow(i)))

\* The URL of the line: a file that is served as it is has its own suffix.
BouquetAlias(i, door) ==
    IF BouquetLine(i, door) = "direct" /\ KindOfItem[i] = "local" THEN "own"
    ELSE IF BouquetLine(i, door) = "mkv" THEN "mkv" ELSE "ts"

\* build_m3u: live is always .ts.
M3uAlias(i) ==
    LET t == Resolved(i) IN
    IF KindOfItem[i] = "live" THEN "ts"
    ELSE IF KindOfItem[i] = "local" /\ ServesOriginal(CommandOf(t)) THEN "own"
    ELSE IF CommandOf(t).kind # "redirect" /\ FormatOf(t) = "matroska" THEN "mkv" ELSE "ts"
-----------------------------------------------------------------------------
(* Edits *)

Edit == edits < MaxTemplateEdits /\ edits' = edits + 1

\* A request reads the row, and refuses to disable or delete what it reads as the default.
BeginEdit(e, what, t, save) ==
    /\ tab[e].at = "idle" /\ Edit /\ There(t)
    /\ what = "choose" => tpl[t].on
    /\ (what = "delete" \/ (what = "switch" /\ tpl[t].on)) => ~tpl[t].default
    /\ tab' = [tab EXCEPT ![e] = [at |-> "write", what |-> what, tid |-> t, save |-> save]]
    /\ UNCHANGED <<rows, tpl, itemTpl, area, play, spoilt>>

\* _choose_default is one UPDATE of all rows; the others write what they were asked to, and
\* find no row when it has gone.  A deleted template leaves items, areas and exceptions.
\* Nothing keeps the redirect marker out of the Copy preset.
Cleared(t) == [u \in Templates \cup {NoTpl} |-> IF u = t THEN NoTpl ELSE u]
Write(e) ==
    LET r == tab[e]
        t == r.tid IN
    /\ r.at = "write" /\ tab' = [tab EXCEPT ![e] = NoEdit] /\ UNCHANGED <<play, edits>>
    /\ spoilt' = (spoilt \/ /\ r.what = "save" /\ There(t) /\ t = CopyPreset
                            /\ r.save.command.kind = "redirect")
    /\ CASE r.what = "choose" ->
              /\ tpl' = [u \in Templates |-> [tpl[u] EXCEPT !.default = (u = t /\ There(t))]]
              /\ UNCHANGED <<rows, itemTpl, area>>
         [] r.what # "choose" /\ ~There(t) -> UNCHANGED <<rows, tpl, itemTpl, area>>
         [] r.what = "switch" /\ There(t) ->
              tpl' = [tpl EXCEPT ![t].on = ~@] /\ UNCHANGED <<rows, itemTpl, area>>
         [] r.what = "save" /\ There(t) ->
              /\ tpl' = [tpl EXCEPT ![t].command = r.save.command, ![t].format = r.save.format,
                                    ![t].manual = r.save.manual]
              /\ UNCHANGED <<rows, itemTpl, area>>
         [] r.what = "delete" /\ There(t) ->
              /\ rows' = Only(rows, Templates \ {t})
              /\ tpl' = [tpl EXCEPT ![t].default = FALSE]
              /\ itemTpl' = [i \in Items |-> Cleared(t)[itemTpl[i]]]
              /\ area' = [area EXCEPT !.kinds = [k \in ItemKinds |-> Cleared(t)[@[k]]],
                                      !.except = [i \in Items |-> Cleared(t)[@[i]]]]

AssignTemplate(i, t) ==
    /\ Edit /\ There(t) /\ itemTpl' = [itemTpl EXCEPT ![i] = t]
    /\ UNCHANGED <<rows, tpl, area, tab, play, spoilt>>
SetArea ==
    /\ Edit /\ UNCHANGED <<rows, tpl, itemTpl, tab, play, spoilt>>
    /\ \/ area' = [area EXCEPT !.on = ~@]
       \/ \E k \in ItemKinds, t \in ToSet(rows) \cup {NoTpl} : area' = [area EXCEPT !.kinds[k] = t]
SetException ==
    /\ Edit /\ UNCHANGED <<rows, tpl, itemTpl, tab, play, spoilt>>
    /\ \E i \in Items, t \in ToSet(rows) \cup {NoTpl} : area' = [area EXCEPT !.except[i] = t]

\* _seed_defaults at boot: presets come back, their fields are refreshed, a command that was
\* typed stays; one enabled template is the default.
Boot ==
    LET missing == SetToSeq({t \in BuiltIn : ~There(t)})
        seeded == [t \in Templates |->
            IF t \notin BuiltIn THEN tpl[t]
            ELSE IF ~There(t) THEN Row(t, TRUE)
            ELSE [tpl[t] EXCEPT !.format = Factory[t].format,
                                !.command = IF tpl[t].manual THEN @ ELSE Factory[t].command]]
        enabled == Only(rows \o missing, {t \in Templates : seeded[t].on})
        defaults == Only(enabled, {t \in Templates : seeded[t].default})
        shipped == Only(enabled, {t \in BuiltIn : Factory[t].command.kind = "redirect"})
        first == defaults \o shipped \o enabled IN
    /\ Edit /\ play.at = "none" /\ \A e \in Editors : tab[e] = NoEdit
    /\ rows' = rows \o missing
    /\ tpl' = [t \in Templates |-> [seeded[t] EXCEPT !.default = (first # <<>> /\ t = first[1])]]
    /\ UNCHANGED <<itemTpl, area, tab, play, spoilt>>

DeliveryNext ==
    \/ \E i \in Items : \/ \E door \in Doors, alias \in {"own", "ts", "mkv"} : Ask(i, door, alias)
                        \/ \E t \in ToSet(rows) : AskWeb(i, t) \/ AskPreview(i, t) \/ AssignTemplate(i, t)
    \/ Decide \/ Open \/ StandIn \/ EndPlay
    \/ \E e \in Editors : \/ Write(e)
                          \/ \E t \in Templates, what \in {"choose", "switch", "delete"} : BeginEdit(e, what, t, NoTpl)
                          \/ \E t \in Templates : \E s \in Saves[t] : BeginEdit(e, "save", t, s)
    \/ SetArea \/ SetException \/ Boot

DeliverySpec == DeliveryInit /\ [][DeliveryNext]_deliveryVars
-----------------------------------------------------------------------------
(* Properties *)

\* "The bouquet line has to match the item": while some template is enabled and its fields
\* name what its command muxes, a line that says ts, mkv or direct is answered with that,
\* under every delivery of the profile.  Left out: a live channel with a Matroska template
\* (announced as mkv, sent as MPEG-TS) and passed-through bytes.
Truthful(i) ==
    LET t == Resolved(i) IN
    /\ t # NoTpl /\ tpl[t].command.kind # "passthrough"
    /\ (tpl[t].command.kind = "redirect" \/ tpl[t].command.muxer = tpl[t].format)
    /\ ~(KindOfItem[i] = "live" /\ tpl[t].format = "matroska")
    /\ CopyFallback.kind = "ffmpeg" /\ CopyFallback.muxer = "mpegts"
LineIsAnswered ==
    \A i \in Items, door \in Doors : Truthful(i) =>
        LET line == BouquetLine(i, door)
            answer == AnswerTo(i, door, BouquetAlias(i, door)) IN
        CASE line = "ts" -> answer = "mpegts"
          [] line = "mkv" -> answer = "matroska"
          [] line = "direct" -> answer \in {"cdn", "file"}

\* A marker is no command.  A file is always given to ffmpeg with a command, and a play
\* that was forced through the pipe - by its URL, from the web player or as a preview -
\* arrives there with the redirect marker only after the operator saved that marker into
\* the Copy preset itself, whatever else is edited between the decision and the opening.
MarkerNeverRuns ==
    play.at = "spawn" =>
        IF KindOfItem[play.item] = "local" THEN play.command.kind = "ffmpeg"
        ELSE play.door # "template" /\ play.command.kind = "redirect" => spoilt
=============================================================================
