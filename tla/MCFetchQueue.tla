---------------------------- MODULE MCFetchQueue ----------------------------
(* The catalogue in two scenes: the jobs of two portals, one of which has a    *)
(* series, and one genre walked by such a job.  A scene moves its own          *)
(* variables only; a genre's items are first listed by name, all of its kind or *)
(* with one of the other kind among them.                                      *)
EXTENDS FetchQueue, CatalogScan, TLC

CONSTANTS p1, p2, s1, u, v, w
VARIABLE focus

MCHome == s1 :> p1
ByName == <<u, v, w>>

ASSUME PageAssumption

MCInit ==
    /\ focus \in {"jobs", "scan"}
    /\ Init /\ (focus = "scan" => due = {})
    /\ ScanInit /\ foreign \in (IF focus = "scan" THEN {{}, {v}} ELSE {{}})
    /\ portal = IF focus = "scan" THEN SubSeq(ByName, 1, Len(portal)) ELSE <<>>

MCNext ==
    /\ UNCHANGED focus
    /\ \/ focus = "jobs" /\ Next /\ UNCHANGED scanVars
       \/ focus = "scan" /\ ScanNext /\ UNCHANGED vars

MCFairSpec == MCInit /\ [][MCNext]_<<vars, scanVars, focus>> /\ WF_vars(Worker)
=============================================================================
