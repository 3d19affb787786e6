---------------------------- MODULE PlayedLinks ----------------------------
(***************************************************************************)
(* What plays learn of the links they use (portal/links.py): of a live      *)
(* channel's stored URL, and of the form a film's cmd has on its panel.      *)
(* Plays of either kind go on side by side.                                 *)
(***************************************************************************)
EXTENDS StoredLinks, CommandForms

lessonVars == <<linkVars, formVars>>

LessonInit == LinkInit /\ FormInit
LessonNext == \/ LinkNext /\ UNCHANGED formVars
              \/ FormNext /\ UNCHANGED linkVars
LessonSpec == LessonInit /\ [][LessonNext]_lessonVars

\* What plays have learned of a link stays true: a URL is vetoed, and a stored one given
\* up for a MAC, only after a probe of that very URL has proved it dead; and the form of a
\* film's cmd that a row remembers is never the catalogue's own.
LessonsHold == DeadIsOwn /\ CatalogueNotRemembered
=============================================================================
