----------------------------- MODULE FetchQueue -----------------------------
(* The background fetch jobs of services/fetch_jobs.py: handlers submit and    *)
(* cancel jobs, one worker task runs them in order, the janitor prunes the     *)
(* finished ones and the catalogue scheduler submits a check when one is due.  *)
(* Every action is what one task does between two awaits.                      *)
EXTENDS Naturals, Sequences, FiniteSets

CONSTANTS Portals,     \* portals with at least one enabled genre
          Series,      \* series sources
          Home,        \* [Series -> Portals]: the portal a series comes from
          MaxJobs,     \* bound: jobs ever submitted
          Keep         \* SPM_JOB_HISTORY, finished jobs the janitor keeps

ASSUME HomeAssumption == Home \in [Series -> Portals]
ASSUME BoundAssumption == MaxJobs \in Nat /\ Keep \in Nat

None == 0
Kinds == {"fetch_portal", "fetch_genres", "fetch_items", "catalog_check", "fetch_seasons"}
CatalogKinds == {"fetch_portal", "fetch_items", "catalog_check"}
Active == {"queued", "running"}
Finished == {"done", "error", "cancelled"}

VARIABLES
    jobs,      \* every Job ever made, by number (its id)
    registry,  \* JOBS: the numbers of the jobs still listed
    queue,     \* _QUEUE
    worker,    \* the _worker task: the job it runs, the stage it is at, the series left
    enabled,   \* SerieSource.enabled
    fetched,   \* SerieSource.seasons_fetched
    due,       \* portals whose last attempt is older than the interval
    scheduler  \* the catalog_scheduler task: what it awaits, and for which portal

vars == <<jobs, registry, queue, worker, enabled, fetched, due, scheduler>>

Ids == 1 .. Len(jobs)
RunningJobs == {j \in registry : jobs[j].status = "running"}   \* mutant: forgets the queued
ActiveJobs == {j \in registry : jobs[j].status \in Active}
Stages == {"get", "attempt", "client", "genres", "live", "vod", "series", "seasons",
           "links", "close", "save"}

TypeOK ==
    /\ jobs \in Seq([kind : Kinds, portal : Portals, status : Active \cup Finished,
                     cancel : BOOLEAN, series : SUBSET Series, refused : SUBSET Series,
                     auto : BOOLEAN])
    /\ Len(jobs) <= MaxJobs
    /\ registry \subseteq Ids
    /\ queue \in Seq(Ids)
    /\ worker \in [job : Ids \cup {None}, at : Stages, todo : SUBSET Series]
    /\ enabled \subseteq Series /\ fetched \subseteq Series /\ due \subseteq Portals
    /\ scheduler \in [at : {"sleep", "query", "stamp"}, portal : Portals \cup {None}]

Init ==
    /\ jobs = <<>> /\ registry = {} /\ queue = <<>>
    /\ worker = [job |-> None, at |-> "get", todo |-> {}]
    /\ enabled = {} /\ fetched = {}
    /\ due \in SUBSET Portals
    /\ scheduler = [at |-> "sleep", portal |-> None]

-----------------------------------------------------------------------------
(* submit(): a season request joins the season job still queued for its        *)
(* portal, any other request the job of its portal that is queued or running.  *)

JoinsRunning(kind, p, j) ==    \* mutant: a season request joins a job past its snapshot
    /\ j \in registry
    /\ jobs[j].portal = p
    /\ (kind = "fetch_seasons") = (jobs[j].kind = "fetch_seasons")
    /\ jobs[j].status \in Active

JoinsQueued(kind, p, j) ==     \* mutant: a running job no longer answers
    /\ j \in registry
    /\ jobs[j].portal = p
    /\ (kind = "fetch_seasons") = (jobs[j].kind = "fetch_seasons")
    /\ jobs[j].status = "queued"

Joins(kind, p, j) ==
    /\ j \in registry
    /\ jobs[j].portal = p
    /\ IF kind = "fetch_seasons"
       THEN jobs[j].kind = "fetch_seasons" /\ jobs[j].status = "queued"
       ELSE jobs[j].kind # "fetch_seasons" /\ jobs[j].status \in Active

NewJob(kind, p, ids, auto) ==
    [kind |-> kind, portal |-> p, status |-> "queued", cancel |-> FALSE,
     series |-> ids, refused |-> {}, auto |-> auto]

Submit(kind, p, ids, auto) ==
    LET found == {j \in Ids : Joins(kind, p, j)} IN
    IF found # {}
    THEN /\ \E j \in found : jobs' = [jobs EXCEPT ![j].series = @ \cup ids]
         /\ UNCHANGED <<registry, queue>>
    ELSE /\ Len(jobs) < MaxJobs
         /\ jobs' = Append(jobs, NewJob(kind, p, ids, auto))
         /\ registry' = registry \cup {Len(jobs) + 1}
         /\ queue' = Append(queue, Len(jobs) + 1)

(* start_fetch, start_genre_fetch, start_items_fetch, check_catalog_changes.   *)
Request(kind, p) ==
    /\ Submit(kind, p, {}, FALSE)
    /\ UNCHANGED <<worker, enabled, fetched, due, scheduler>>

(* sources.toggle: a series switched on asks for its seasons when it has none. *)
EnableSeries(s) ==
    /\ enabled' = enabled \cup {s}
    /\ IF s \in fetched THEN UNCHANGED <<jobs, registry, queue>>
       ELSE Submit("fetch_seasons", Home[s], {s}, FALSE)
    /\ UNCHANGED <<worker, fetched, due, scheduler>>

(* sources.refetch_series: what was fetched is thrown away and asked again.    *)
Refetch(s) ==
    /\ fetched' = fetched \ {s}
    /\ Submit("fetch_seasons", Home[s], {s}, FALSE)
    /\ UNCHANGED <<worker, enabled, due, scheduler>>

(* cancel(): only the flag; the worker turns it into a status.                 *)
Cancel(j) ==
    /\ j \in ActiveJobs
    /\ jobs' = [jobs EXCEPT ![j].cancel = TRUE]
    /\ UNCHANGED <<registry, queue, worker, enabled, fetched, due, scheduler>>

(* prune_jobs(): the worker ends jobs in the order they were submitted, so the *)
(* newest finished jobs are the ones with the highest numbers.                 *)
Newer(j, S) == Cardinality({k \in S : k > j})

Prune ==
    LET finished == {j \in registry : jobs[j].status \in Finished} IN
    /\ registry' = {j \in registry : j \in finished => Newer(j, finished) < Keep}
    /\ UNCHANGED <<jobs, queue, worker, enabled, fetched, due, scheduler>>

-----------------------------------------------------------------------------
(* The worker.                                                                 *)

Job == jobs[worker.job]
At(stage) == worker.job # None /\ worker.at = stage
Goto(stage) == worker' = [worker EXCEPT !.at = stage]
Nothing == UNCHANGED <<registry, queue, enabled, fetched, due, scheduler>>

(* The only job taken is a queued one: nothing sets another status before.     *)
TakeKeepsQueue ==   \* mutant: forgets task_done and the queue's head
    /\ worker.job = None /\ queue # <<>>
    /\ jobs' = [jobs EXCEPT ![Head(queue)].status = "running"]
    /\ worker' = [job |-> Head(queue), todo |-> Series \cup {None}, at |-> "client"]
    /\ UNCHANGED <<registry, queue, enabled, fetched, due, scheduler>>

Take ==
    /\ worker.job = None /\ queue # <<>>
    /\ queue' = Tail(queue)
    /\ IF jobs[Head(queue)].status = "cancelled" THEN UNCHANGED <<jobs, worker>>
       ELSE /\ jobs' = [jobs EXCEPT ![Head(queue)].status = "running"]
            /\ worker' = [job |-> Head(queue), todo |-> {},
                          at |-> IF jobs[Head(queue)].kind \in CatalogKinds
                                 THEN "attempt" ELSE "client"]
    /\ UNCHANGED <<registry, enabled, fetched, due, scheduler>>

SaveAttempt ==
    /\ At("attempt")
    /\ due' = due \ {Job.portal}
    /\ Goto("client")
    /\ UNCHANGED <<jobs, registry, queue, enabled, fetched, scheduler>>

(* The stage a job enters after _prepare_client.                               *)
Work(kind) == CASE kind \in {"fetch_portal", "fetch_genres"} -> "genres"
                [] kind = "fetch_seasons" -> "seasons"
                [] OTHER -> "live"

(* _seasons_todo: the series a season stage reads from the database.           *)
Wanted(job) ==
    {s \in Series \ fetched :
        /\ Home[s] = job.portal
        /\ IF job.series # {} THEN s \in job.series ELSE s \in enabled}

Enter(stage) ==
    worker' = [worker EXCEPT !.at = stage,
                             !.todo = IF stage = "seasons" THEN Wanted(Job) ELSE @]

Client == At("client") /\ Enter(Work(Job.kind)) /\ UNCHANGED jobs /\ Nothing

Genres ==
    /\ At("genres")
    /\ IF Job.kind = "fetch_genres" \/ Job.cancel THEN Goto("close") ELSE Goto("live")
    /\ UNCHANGED jobs /\ Nothing

(* A cancelled stage stops before its next genre, and its caller after it.     *)
Live ==
    /\ At("live")
    /\ Goto(IF Job.cancel THEN "close" ELSE "vod")
    /\ UNCHANGED jobs /\ Nothing

(* A panel without the module is skipped without looking at the cancel flag.   *)
Vod ==
    /\ At("vod")
    /\ \/ Goto("series")
       \/ Job.cancel /\ Goto("close")
    /\ UNCHANGED jobs /\ Nothing

SeriesItems ==
    /\ At("series")
    /\ \/ Goto("links")                                \* no module, or no enabled genre
       \/ IF Job.cancel THEN Goto("close") ELSE Enter("seasons")
    /\ UNCHANGED jobs /\ Nothing

AfterSeasons(job) ==
    IF job.cancel /\ job.kind # "fetch_seasons" THEN "close" ELSE "links"

(* One series of _fetch_seasons_episodes: committed, or refused and skipped.   *)
Season(s) ==
    /\ At("seasons") /\ s \in worker.todo /\ ~Job.cancel
    /\ worker' = [worker EXCEPT !.todo = @ \ {s}]
    /\ \/ fetched' = fetched \cup {s} /\ UNCHANGED jobs
       \/ jobs' = [jobs EXCEPT ![worker.job].refused = @ \cup {s}] /\ UNCHANGED fetched
    /\ UNCHANGED <<registry, queue, enabled, due, scheduler>>

SeasonsEnd ==
    /\ At("seasons") /\ (worker.todo = {} \/ Job.cancel)
    /\ worker' = [worker EXCEPT !.at = AfterSeasons(Job), !.todo = {}]
    /\ UNCHANGED jobs /\ Nothing

Links == At("links") /\ Goto("close") /\ UNCHANGED jobs /\ Nothing

(* The status is set as soon as the client is closed; a catalogue job then     *)
(* saves it for its portal before the worker asks for the next job.            *)
End(status) ==
    /\ jobs' = [jobs EXCEPT ![worker.job].status = status]
    /\ worker' = IF Job.kind \in CatalogKinds /\ status # "cancelled"
                 THEN [worker EXCEPT !.at = "save", !.todo = {}]
                 ELSE [job |-> None, at |-> "get", todo |-> {}]
    /\ Nothing

Close == At("close") /\ End(IF Job.cancel THEN "cancelled" ELSE "done")

FailSilently ==    \* mutant: the failure never becomes a status
    /\ \E stage \in {"client", "genres", "live", "vod", "series", "seasons"} : At(stage)
    /\ worker' = [job |-> None, at |-> "get", todo |-> {}]
    /\ UNCHANGED jobs /\ Nothing

Fail ==
    /\ \E stage \in {"client", "genres", "live", "vod", "series", "seasons"} : At(stage)
    /\ End("error")

SaveResult ==
    /\ At("save")
    /\ worker' = [job |-> None, at |-> "get", todo |-> {}]
    /\ UNCHANGED jobs /\ Nothing

Worker ==
    \/ Take \/ SaveAttempt \/ Client \/ Genres \/ Live \/ Vod \/ SeriesItems
    \/ (\E s \in Series : Season(s)) \/ SeasonsEnd \/ Links \/ Close \/ Fail \/ SaveResult

-----------------------------------------------------------------------------
(* refresh_due_once(), the only caller of which is the scheduler task.         *)

Tick ==
    /\ scheduler.at = "sleep" /\ ActiveJobs = {}
    /\ scheduler' = [scheduler EXCEPT !.at = "query"]
    /\ UNCHANGED <<jobs, registry, queue, worker, enabled, fetched, due>>

NothingDue ==
    /\ scheduler.at = "query" /\ due = {}
    /\ scheduler' = [scheduler EXCEPT !.at = "sleep"]
    /\ UNCHANGED <<jobs, registry, queue, worker, enabled, fetched, due>>

(* The portal waiting longest is submitted; a job of another kind that already *)
(* holds the portal answers instead, and no interval is consumed.              *)
SubmitDue(p) ==
    /\ scheduler.at = "query" /\ p \in due
    /\ Submit("catalog_check", p, {}, TRUE)
    /\ LET others == {j \in Ids : Joins("catalog_check", p, j)
                                    /\ jobs[j].kind # "catalog_check"} IN
       scheduler' = IF others # {} THEN [scheduler EXCEPT !.at = "sleep"]
                    ELSE [at |-> "stamp", portal |-> p]
    /\ UNCHANGED <<worker, enabled, fetched, due>>

Stamp ==
    /\ scheduler.at = "stamp"
    /\ due' = due \ {scheduler.portal}
    /\ scheduler' = [at |-> "sleep", portal |-> None]
    /\ UNCHANGED <<jobs, registry, queue, worker, enabled, fetched>>

(* The interval of a portal runs out.                                          *)
IntervalOver(p) ==
    /\ due' = due \cup {p}
    /\ UNCHANGED <<jobs, registry, queue, worker, enabled, fetched, scheduler>>

Scheduler == Tick \/ NothingDue \/ Stamp \/ (\E p \in Portals : SubmitDue(p))

Users ==
    \/ \E kind \in Kinds \ {"fetch_seasons"}, p \in Portals : Request(kind, p)
    \/ \E s \in Series : EnableSeries(s) \/ Refetch(s)
    \/ \E j \in Ids : Cancel(j)

Next == Users \/ Worker \/ Scheduler \/ Prune \/ (\E p \in Portals : IntervalOver(p))

Spec == Init /\ [][Next]_vars
(* The worker task is always scheduled again, and every await of it ends: the  *)
(* portal client and the database have timeouts.                               *)
FairSpec == Spec /\ WF_vars(Worker)

-----------------------------------------------------------------------------
OneJobPerPortal ==
    \A i, j \in Ids :
        /\ jobs[i].status \in Active /\ jobs[j].status \in Active
        /\ jobs[i].kind # "fetch_seasons" /\ jobs[j].kind # "fetch_seasons"
        /\ jobs[i].portal = jobs[j].portal
        => i = j

OneAutomaticCheck ==
    \A i, j \in Ids :
        /\ jobs[i].status \in Active /\ jobs[j].status \in Active
        /\ jobs[i].auto /\ jobs[j].auto
        => i = j

(* Whatever handlers, scheduler and janitor do, a portal has at most one       *)
(* catalogue or genre job that is queued or running (fetch_jobs.submit: "stay  *)
(* one-per-portal"), and the scheduler never has two automatic checks in       *)
(* flight, on whatever portals.                                                *)
NoDoubleWork == OneJobPerPortal /\ OneAutomaticCheck

(* A season request is never swallowed: when its job ends "done", each series  *)
(* asked of it has its seasons, was refused by the portal, or is asked of a    *)
(* later job; a request that joins a job does so before the job's snapshot.    *)
SeasonsNotSwallowed ==
    \A j \in Ids : jobs[j].kind = "fetch_seasons" /\ jobs[j].status = "done" =>
        \A s \in jobs[j].series :
            \/ s \in fetched \cup jobs[j].refused
            \/ \E k \in Ids : k > j /\ s \in jobs[k].series

(* Every submitted job ends: a failing, cancelled or refused one does not stop *)
(* the worker for the jobs behind it.                                          *)
EveryJobEnds ==
    \A j \in 1 .. MaxJobs :
        (j \in Ids) ~> (j \in Ids /\ jobs[j].status \in Finished)
=============================================================================
