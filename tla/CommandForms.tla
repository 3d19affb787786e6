--------------------------- MODULE CommandForms ---------------------------
(***************************************************************************)
(* The two forms a film's cmd may have on a panel (portal/links.py, S-B),    *)
(* the ladder by which create_link finds the one that works                 *)
(* (portal/client.py), and the source row that remembers it                  *)
(* (stream_manager._store_media_cmd).  All films are played through one MAC, *)
(* whose client has one field for the last repair.                           *)
(***************************************************************************)
EXTENDS Naturals, Sequences, FiniteSets

CONSTANTS
    Films,      \* VodSource rows
    Players,    \* plays; each plays one film at a time
    NoCmd,      \* no learned form, no repair
    MaxPlays    \* bound: plays per task

VARIABLES
    archive,   \* [Cmds -> BOOLEAN]: the forms the panel answers to with a link
    mediaCmd,  \* [Films -> cmd or NoCmd]: what earlier plays have learned
    repair,    \* PortalClient.last_cmd_repair: the cmd that worked, or NoCmd
    play       \* [Players -> the locals of a create_link]

formVars == <<archive, mediaCmd, repair, play>>

\* The catalogue's reference, the same with the file_ prefix, and the file's own id.
Forms == {"catalogue", "naive", "file"}
Cmds == [film : Films, form : Forms]
Cmd(f, form) == [film |-> f, form |-> form]

ASSUME CmdAssumption == NoCmd \notin Cmds

Resting(n) == [at |-> "idle", film |-> NoCmd, todo |-> <<>>, ladder |-> <<>>, first |-> NoCmd,
               how |-> NoCmd, plays |-> n]

FormTypeOK ==
    /\ archive \in [Cmds -> BOOLEAN]
    /\ mediaCmd \in [Films -> Cmds \cup {NoCmd}]
    /\ repair \in Cmds \cup {NoCmd}
    /\ \A t \in Players : play[t].plays \in 0 .. MaxPlays

FormInit ==
    /\ archive \in [Cmds -> BOOLEAN]
    /\ mediaCmd \in [Films -> {NoCmd}] /\ repair = NoCmd
    /\ play = [t \in Players |-> Resting(0)]
-----------------------------------------------------------------------------
\* plan_for: ask with the learned form first, the catalogue's second.  create_link
\* forgets the last repair; what it may still try is a ladder of the media forms, the
\* file id first, if the cmd asked first is a plain reference.
CreateLink(t, f) ==
    /\ play[t].at = "idle" /\ play[t].plays < MaxPlays
    /\ LET first == IF mediaCmd[f] # NoCmd THEN mediaCmd[f] ELSE Cmd(f, "catalogue") IN
       play' = [play EXCEPT ![t] =
                  [at |-> "asking", film |-> f, first |-> first, how |-> NoCmd, plays |-> @.plays + 1,
                   todo |-> IF mediaCmd[f] # NoCmd THEN <<first, Cmd(f, "catalogue")>> ELSE <<first>>,
                   ladder |-> IF first.form = "catalogue" THEN <<Cmd(f, "file"), Cmd(f, "naive")>> ELSE <<>>]]
    /\ repair' = NoCmd
    /\ UNCHANGED <<archive, mediaCmd>>

\* The panel plays the form asked with: a link.  The repair is noted for a form that
\* was not the first, and the caller reads the field as it stands.
FormAnswered(t) ==
    LET p == play[t] IN
    /\ p.at = "asking" /\ p.todo # <<>> /\ archive[Head(p.todo)]
    /\ repair' = IF Head(p.todo) # p.first THEN Head(p.todo) ELSE repair
    /\ play' = [play EXCEPT ![t].at = "answered", ![t].how = repair']
    /\ UNCHANGED <<archive, mediaCmd>>

\* A refusal that may mean the wrong form: the next form, then the ladder.
FormRefused(t) ==
    LET p == play[t] IN
    /\ p.at = "asking" /\ p.todo # <<>> /\ ~archive[Head(p.todo)]
    /\ play' = [play EXCEPT ![t] = IF Len(p.todo) > 1 THEN [p EXCEPT !.todo = Tail(@)]
                                   ELSE IF p.ladder # <<>> THEN [p EXCEPT !.at = "resolving"]
                                   ELSE Resting(p.plays)]
    /\ UNCHANGED <<archive, mediaCmd, repair>>

\* Any other refusal is about the MAC, or the request is cancelled.
GivesUp(t) ==
    /\ play[t].at \in {"asking", "resolving"}
    /\ play' = [play EXCEPT ![t] = Resting(play[t].plays)]
    /\ UNCHANGED <<archive, mediaCmd, repair>>

\* _media_file_id finds the file behind the film, or only the naive form is left.
Resolved(t) ==
    LET p == play[t] IN
    /\ p.at = "resolving"
    /\ \E found \in BOOLEAN :
          play' = [play EXCEPT ![t].at = "asking", ![t].ladder = <<>>,
                               ![t].todo = IF found THEN p.ladder ELSE Tail(p.ladder)]
    /\ UNCHANGED <<archive, mediaCmd, repair>>

\* Mutant of NewForm: the catalogue's own form is remembered as well.
NewFormAlways(how, f) == how

\* What the row says from now on: nothing, if the catalogue's form has worked.
NewForm(how, f) == IF how = Cmd(f, "catalogue") THEN NoCmd ELSE how

\* _store_media_cmd, for the film the task plays.
Store(t) ==
    LET p == play[t] IN
    /\ p.at = "answered"
    /\ mediaCmd' = IF p.how = NoCmd THEN mediaCmd
                   ELSE [mediaCmd EXCEPT ![p.film] = NewForm(p.how, p.film)]
    /\ play' = [play EXCEPT ![t] = Resting(p.plays)]
    /\ UNCHANGED <<archive, repair>>

\* The panel ingests a film again, or changes the forms it answers to.
Reingest(c) ==
    /\ archive' = [archive EXCEPT ![c] = ~@]
    /\ UNCHANGED <<mediaCmd, repair, play>>

FormNext ==
    \/ \E t \in Players : \/ \E f \in Films : CreateLink(t, f)
                        \/ FormAnswered(t) \/ FormRefused(t) \/ GivesUp(t) \/ Resolved(t) \/ Store(t)
    \/ \E c \in Cmds : Reingest(c)

FormSpec == FormInit /\ [][FormNext]_formVars
-----------------------------------------------------------------------------
(* Properties *)

\* models.py: media_cmd "is a second address for the same item".  Whatever forms the
\* panel answers to, a film's row remembers a form of that film.
FormsOfOwnFilm == \A f \in Films : mediaCmd[f] # NoCmd => mediaCmd[f].film = f

\* "Writing NULL is a real action too": what a row remembers is never the form it has
\* in the catalogue, so a stale form does not come back as the first one to ask with.
CatalogueNotRemembered == \A f \in Films : mediaCmd[f] # Cmd(f, "catalogue")
=============================================================================
