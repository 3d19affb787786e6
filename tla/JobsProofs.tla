----------------------------- MODULE JobsProofs -----------------------------
(***************************************************************************)
(* The fetch queue and the scan of a genre, for any number of portals, series*)
(* and jobs, and for any catalogue, page size, budget and batch size: the queue*)
(* neither does a piece of work twice nor swallows a season request, and a *)
(* baseline stands for everything the panel listed.                        *)
(***************************************************************************)
EXTENDS FetchQueue, CatalogScan, SelectionProofs
-----------------------------------------------------------------------------
(* The fetch queue (FetchQueue) *)

JobRows == [kind : Kinds, portal : Portals, status : Active \cup Finished, cancel : BOOLEAN,
            series : SUBSET Series, refused : SUBSET Series, auto : BOOLEAN]

\* Jobs are taken in the order of their numbers: the queue holds the latest ones, and
\* those are the queued ones.
Taken == Len(jobs) - Len(queue)
QueueInOrder ==
    /\ Len(queue) <= Len(jobs)
    /\ \A i \in 1 .. Len(queue) : queue[i] = Taken + i
    /\ \A j \in Ids : jobs[j].status = "queued" <=> j > Taken

\* The worker's job runs until its end is on record; nothing else writes a status.
WorkerRuns ==
    worker.job # None /\ worker.at # "save" => jobs[worker.job].status = "running"

\* The janitor leaves active jobs listed, so that submit and the scheduler find them.
ActiveListed == \A j \in Ids : jobs[j].status \in Active => j \in registry

\* Between its look at the active jobs and its submit, the scheduler is the only one
\* who could start an automatic check.
NoneBeforeSubmit ==
    scheduler.at = "query" => \A j \in Ids : jobs[j].status \in Active => ~jobs[j].auto

\* A season job is asked for series of its own portal, which its snapshot looks at.
SeriesAtHome ==
    \A j \in Ids : jobs[j].kind = "fetch_seasons" =>
        \A s \in jobs[j].series : Home[s] = jobs[j].portal

AskedLater(j, s) == \E k \in Ids : k > j /\ s \in jobs[k].series

\* What a season job was asked for is done, refused, still to do, or asked again.
SnapshotServed ==
    worker.job # None /\ worker.at # "save" /\ Job.kind = "fetch_seasons" =>
        /\ worker.at \in {"client", "seasons", "links", "close"}
        /\ worker.at \in {"seasons", "links", "close"} /\ ~Job.cancel =>
              \A s \in Job.series :
                  \/ s \in fetched \cup Job.refused
                  \/ worker.at = "seasons" /\ s \in worker.todo
                  \/ AskedLater(worker.job, s)

QueueInv ==
    /\ TypeOK /\ QueueInOrder /\ WorkerRuns /\ ActiveListed /\ NoneBeforeSubmit
    /\ SeriesAtHome /\ SnapshotServed
    /\ OneJobPerPortal /\ OneAutomaticCheck /\ SeasonsNotSwallowed
-----------------------------------------------------------------------------
(* The invariant at the start                                              *)

\* No job, nothing queued, nobody at work.
LEMMA InitInv == Init => QueueInv
<1> SUFFICES ASSUME Init PROVE QueueInv OBVIOUS
<1>1. Len(jobs) = 0 /\ Len(queue) = 0 /\ Ids = {} BY DEF Init, Ids
<1>2. TypeOK BY BoundAssumption, <1>1 DEF Init, TypeOK, None, Stages
<1>3. QueueInOrder BY <1>1 DEF QueueInOrder, Taken
<1>4. ActiveListed /\ SeriesAtHome /\ OneJobPerPortal /\ OneAutomaticCheck /\ SeasonsNotSwallowed
    BY <1>1 DEF ActiveListed, SeriesAtHome, OneJobPerPortal, OneAutomaticCheck, SeasonsNotSwallowed
<1>5. WorkerRuns /\ SnapshotServed /\ NoneBeforeSubmit
    BY DEF Init, WorkerRuns, SnapshotServed, NoneBeforeSubmit
<1> QED BY <1>2, <1>3, <1>4, <1>5 DEF QueueInv
-----------------------------------------------------------------------------
(* What a step does to the rows                                            *)

\* The rows as a set the provers meet by its name.
LEMMA TypedRows ==
    ASSUME TypeOK
    PROVE  jobs \in Seq(JobRows) /\ Len(jobs) \in Nat /\ \A j \in Ids : jobs[j] \in JobRows
<1>1. jobs \in Seq(JobRows) BY Zenon DEF TypeOK, JobRows
<1> QED BY <1>1, ElementOfSeq, LenProperties DEF Ids

\* Same row but for the fields that an action may change.
SameJob(new, old) == new.kind = old.kind /\ new.portal = old.portal /\ new.auto = old.auto
RowsKept == jobs' \in Seq(JobRows) /\ Len(jobs') = Len(jobs) /\ \A i \in Ids : SameJob(jobs'[i], jobs[i])

\* One row is replaced by another.
LEMMA RowReplaced ==
    ASSUME jobs \in Seq(JobRows), NEW j \in Ids, NEW row \in JobRows, jobs' = [jobs EXCEPT ![j] = row]
    PROVE  /\ jobs' \in Seq(JobRows) /\ Len(jobs') = Len(jobs) /\ jobs'[j] = row
           /\ \A i \in Ids \ {j} : jobs'[i] = jobs[i]
BY ExceptSeq DEF Ids

\* A request that joins a job adds to its series and changes nothing else of it.
LEMMA JoinedRows ==
    ASSUME jobs \in Seq(JobRows), NEW j \in Ids, NEW ids \in SUBSET Series,
           jobs' = [jobs EXCEPT ![j].series = @ \cup ids]
    PROVE  /\ RowsKept
           /\ \A i \in Ids : /\ jobs'[i].status = jobs[i].status /\ jobs'[i].cancel = jobs[i].cancel
                             /\ jobs'[i].refused = jobs[i].refused
                             /\ jobs'[i].series = IF i = j THEN jobs[i].series \cup ids ELSE jobs[i].series
<1> DEFINE row == [jobs[j] EXCEPT !.series = @ \cup ids]
<1>1. jobs[j] \in JobRows BY DEF Ids
<1>2. /\ row \in JobRows /\ SameJob(row, jobs[j])
      /\ row = [jobs[j] EXCEPT !.series = @ \cup ids]
      /\ row.status = jobs[j].status /\ row.cancel = jobs[j].cancel /\ row.refused = jobs[j].refused /\ row.series = jobs[j].series \cup ids
    BY <1>1 DEF JobRows, SameJob
<1>3. jobs' = [jobs EXCEPT ![j] = row] OBVIOUS
<1> HIDE DEF row
<1>4. /\ jobs' \in Seq(JobRows) /\ Len(jobs') = Len(jobs) /\ jobs'[j] = row
      /\ \A i \in Ids \ {j} : jobs'[i] = jobs[i]
    BY <1>2, <1>3, RowReplaced
<1>5. RowsKept BY <1>2, <1>4 DEF RowsKept, SameJob
<1>6. ASSUME NEW i \in Ids
      PROVE  /\ jobs'[i].status = jobs[i].status /\ jobs'[i].cancel = jobs[i].cancel /\ jobs'[i].refused = jobs[i].refused
             /\ jobs'[i].series = IF i = j THEN jobs[i].series \cup ids ELSE jobs[i].series
    <2>1. CASE i = j BY <1>2, <1>4, <2>1
    <2>2. CASE i # j BY <1>4, <2>2
    <2> QED BY <2>1, <2>2
<1> QED BY <1>5, <1>6

\* cancel() sets a flag.
LEMMA CancelledRows ==
    ASSUME jobs \in Seq(JobRows), NEW j \in Ids,
           jobs' = [jobs EXCEPT ![j].cancel = TRUE]
    PROVE  /\ RowsKept
           /\ \A i \in Ids : /\ jobs'[i].status = jobs[i].status /\ jobs'[i].series = jobs[i].series
                             /\ jobs'[i].refused = jobs[i].refused
                             /\ ~jobs'[i].cancel => ~jobs[i].cancel
<1> DEFINE row == [jobs[j] EXCEPT !.cancel = TRUE]
<1>1. jobs[j] \in JobRows BY DEF Ids
<1>2. /\ row \in JobRows /\ SameJob(row, jobs[j])
      /\ row = [jobs[j] EXCEPT !.cancel = TRUE]
      /\ row.status = jobs[j].status /\ row.series = jobs[j].series /\ row.refused = jobs[j].refused /\ row.cancel
    BY <1>1 DEF JobRows, SameJob
<1>3. jobs' = [jobs EXCEPT ![j] = row] OBVIOUS
<1> HIDE DEF row
<1>4. /\ jobs' \in Seq(JobRows) /\ Len(jobs') = Len(jobs) /\ jobs'[j] = row
      /\ \A i \in Ids \ {j} : jobs'[i] = jobs[i]
    BY <1>2, <1>3, RowReplaced
<1> QED BY <1>2, <1>4 DEF RowsKept, SameJob

\* The worker writes a status.
LEMMA StatusRows ==
    ASSUME jobs \in Seq(JobRows), NEW j \in Ids, NEW status \in Active \cup Finished,
           jobs' = [jobs EXCEPT ![j].status = status]
    PROVE  /\ RowsKept
           /\ \A i \in Ids : /\ jobs'[i].status = IF i = j THEN status ELSE jobs[i].status
                             /\ jobs'[i].series = jobs[i].series /\ jobs'[i].cancel = jobs[i].cancel
                             /\ jobs'[i].refused = jobs[i].refused
<1> DEFINE row == [jobs[j] EXCEPT !.status = status]
<1>1. jobs[j] \in JobRows BY DEF Ids
<1>2. /\ row \in JobRows /\ SameJob(row, jobs[j])
      /\ row = [jobs[j] EXCEPT !.status = status]
      /\ row.series = jobs[j].series /\ row.cancel = jobs[j].cancel /\ row.refused = jobs[j].refused /\ row.status = status
    BY <1>1 DEF JobRows, SameJob, Active
<1>3. jobs' = [jobs EXCEPT ![j] = row] OBVIOUS
<1> HIDE DEF row
<1>4. /\ jobs' \in Seq(JobRows) /\ Len(jobs') = Len(jobs) /\ jobs'[j] = row
      /\ \A i \in Ids \ {j} : jobs'[i] = jobs[i]
    BY <1>2, <1>3, RowReplaced
<1> QED BY <1>2, <1>4 DEF RowsKept, SameJob

\* The portal refuses a series.
LEMMA RefusedRows ==
    ASSUME jobs \in Seq(JobRows), NEW j \in Ids, NEW s \in Series,
           jobs' = [jobs EXCEPT ![j].refused = @ \cup {s}]
    PROVE  /\ RowsKept
           /\ \A i \in Ids : /\ jobs'[i].status = jobs[i].status /\ jobs'[i].series = jobs[i].series
                             /\ jobs'[i].cancel = jobs[i].cancel
                             /\ jobs'[i].refused = IF i = j THEN jobs[i].refused \cup {s} ELSE jobs[i].refused
<1> DEFINE row == [jobs[j] EXCEPT !.refused = @ \cup {s}]
<1>1. jobs[j] \in JobRows BY DEF Ids
<1>2. /\ row \in JobRows /\ SameJob(row, jobs[j])
      /\ row = [jobs[j] EXCEPT !.refused = @ \cup {s}]
      /\ row.status = jobs[j].status /\ row.series = jobs[j].series /\ row.cancel = jobs[j].cancel /\ row.refused = jobs[j].refused \cup {s}
    BY <1>1 DEF JobRows, SameJob
<1>3. jobs' = [jobs EXCEPT ![j] = row] OBVIOUS
<1> HIDE DEF row
<1>4. /\ jobs' \in Seq(JobRows) /\ Len(jobs') = Len(jobs) /\ jobs'[j] = row
      /\ \A i \in Ids \ {j} : jobs'[i] = jobs[i]
    BY <1>2, <1>3, RowReplaced
<1>5. RowsKept BY <1>2, <1>4 DEF RowsKept, SameJob
<1>6. ASSUME NEW i \in Ids
      PROVE  /\ jobs'[i].status = jobs[i].status /\ jobs'[i].series = jobs[i].series /\ jobs'[i].cancel = jobs[i].cancel
             /\ jobs'[i].refused = IF i = j THEN jobs[i].refused \cup {s} ELSE jobs[i].refused
    <2>1. CASE i = j BY <1>2, <1>4, <2>1
    <2>2. CASE i # j BY <1>4, <2>2
    <2> QED BY <2>1, <2>2
<1> QED BY <1>5, <1>6

\* A new job is appended; the others stay as they are.
LEMMA AppendedRows ==
    ASSUME jobs \in Seq(JobRows), NEW job \in JobRows, jobs' = Append(jobs, job)
    PROVE  /\ jobs' \in Seq(JobRows) /\ Len(jobs') = Len(jobs) + 1
           /\ \A i \in Ids : jobs'[i] = jobs[i]
           /\ jobs'[Len(jobs) + 1] = job
           /\ Ids' = Ids \cup {Len(jobs) + 1} /\ Len(jobs) + 1 \notin Ids
BY DEF Ids

\* A new row is a row.
LEMMA NewJobTyped ==
    ASSUME NEW kind \in Kinds, NEW p \in Portals, NEW ids \in SUBSET Series, NEW auto \in BOOLEAN
    PROVE  NewJob(kind, p, ids, auto) \in JobRows
BY DEF NewJob, JobRows, Active

\* What is asked of a later job stays so: rows only gain series.
LEMMA StillAsked ==
    ASSUME NEW j, NEW s, AskedLater(j, s), Ids \subseteq Ids',
           \A i \in Ids : jobs[i].series \subseteq jobs'[i].series
    PROVE  AskedLater(j, s)'
BY DEF AskedLater

\* A job that runs or has ended is one the worker has taken.
LEMMA WorkerTook ==
    ASSUME QueueInv, worker.job # None, worker.at # "save"
    PROVE  worker.job \in Ids /\ worker.job <= Taken /\ jobs[worker.job].status = "running"
<1>1. worker.job \in Ids BY DEF QueueInv, TypeOK
<1>2. jobs[worker.job].status = "running" BY DEF QueueInv, WorkerRuns
<1> QED BY <1>1, <1>2 DEF QueueInv, QueueInOrder, Ids, Taken, TypeOK
-----------------------------------------------------------------------------
(* submit()                                                                *)

\* What the callers of submit() have in common: a season request names series of its
\* portal, and only they are thrown away; an automatic check is the scheduler's own,
\* which has left its query when it is submitted.
Asking(kind, p, ids, auto) ==
    /\ kind \in Kinds /\ p \in Portals /\ ids \subseteq Series /\ auto \in BOOLEAN
    /\ kind # "fetch_seasons" => ids = {}
    /\ \A s \in ids : Home[s] = p
    /\ UNCHANGED <<worker, due>> /\ enabled' \subseteq Series
    /\ fetched' \subseteq fetched /\ fetched \subseteq fetched' \cup ids
    /\ scheduler' \in [at : {"sleep", "query", "stamp"}, portal : Portals \cup {None}]
    /\ scheduler'.at = "query" => scheduler.at = "query" /\ ~auto
    /\ auto => scheduler.at = "query"

\* A job that is asked for again takes the series over, while it is queued.
LEMMA JoinKeeps ==
    ASSUME QueueInv, NEW kind, NEW p, NEW ids, NEW auto, Asking(kind, p, ids, auto),
           NEW j \in Ids, Joins(kind, p, j), jobs' = [jobs EXCEPT ![j].series = @ \cup ids],
           UNCHANGED <<registry, queue>>
    PROVE  QueueInv'
<1>1. jobs \in Seq(JobRows) /\ Len(jobs) \in Nat /\ jobs[j] \in JobRows BY TypedRows DEF QueueInv
<1>2. /\ RowsKept
      /\ \A i \in Ids : /\ jobs'[i].status = jobs[i].status /\ jobs'[i].cancel = jobs[i].cancel
                        /\ jobs'[i].refused = jobs[i].refused
                        /\ jobs'[i].series = IF i = j THEN jobs[i].series \cup ids ELSE jobs[i].series
    <2>1. ids \in SUBSET Series BY DEF Asking
    <2> QED BY <1>1, <2>1, JoinedRows
<1>3. Ids' = Ids /\ Taken' = Taken BY <1>2 DEF Ids, Taken, RowsKept
<1>4. \A i \in Ids : jobs[i].series \subseteq jobs'[i].series BY <1>2
<1>5. TypeOK'
    <2>1. jobs' \in Seq(JobRows) /\ Len(jobs') <= MaxJobs BY <1>2 DEF QueueInv, TypeOK, RowsKept
    <2>2. /\ registry' \subseteq Ids' /\ queue' \in Seq(Ids')
          /\ worker' \in [job : Ids' \cup {None}, at : Stages, todo : SUBSET Series]
        BY <1>3 DEF QueueInv, TypeOK, Asking
    <2>3. fetched' \subseteq Series /\ due' \subseteq Portals BY DEF QueueInv, TypeOK, Asking
    <2> QED BY <2>1, <2>2, <2>3 DEF TypeOK, JobRows, Asking
<1>6. QueueInOrder' BY <1>2, <1>3 DEF QueueInv, QueueInOrder, RowsKept
<1>7. WorkerRuns' BY <1>2 DEF QueueInv, WorkerRuns, Asking, TypeOK
<1>8. ActiveListed' BY <1>2, <1>3 DEF QueueInv, ActiveListed
<1>9. NoneBeforeSubmit' BY <1>2, <1>3 DEF QueueInv, NoneBeforeSubmit, Asking, RowsKept, SameJob
<1>10. OneJobPerPortal' /\ OneAutomaticCheck'
    BY <1>2, <1>3 DEF QueueInv, OneJobPerPortal, OneAutomaticCheck, RowsKept, SameJob
<1>11. SeriesAtHome'
    BY <1>2, <1>3 DEF QueueInv, SeriesAtHome, Asking, Joins, RowsKept, SameJob
<1>12. \A i \in Ids : jobs[i].kind = "fetch_seasons" /\ jobs[i].status # "queued" =>
          /\ jobs'[i].series = jobs[i].series
          /\ ids # {} => i < j
    BY <1>1, <1>2 DEF Asking, Joins, QueueInv, QueueInOrder, Ids, Taken
<1>13. ASSUME NEW i \in Ids, jobs[i].kind = "fetch_seasons", jobs[i].status # "queued",
              NEW s, s \in fetched \/ AskedLater(i, s)
       PROVE  s \in fetched' \/ AskedLater(i, s)'
    <2>1. CASE s \in fetched'  BY <2>1
    <2>2. CASE s \in ids
        <3>1. s \in jobs'[j].series BY <1>2, <2>2
        <3>2. ids # {} BY <2>2
        <3>3. i < j BY <1>12, <1>13, <3>2
        <3> QED BY <1>3, <3>1, <3>3 DEF AskedLater
    <2>3. CASE AskedLater(i, s) BY <1>3, <1>4, <2>3, StillAsked
    <2> QED BY <1>13, <2>1, <2>2, <2>3 DEF Asking
<1>14. SnapshotServed'
    <2> SUFFICES ASSUME worker.job # None, worker.at # "save", jobs'[worker.job].kind = "fetch_seasons"
                 PROVE  SnapshotServed'
        BY DEF SnapshotServed, Job, Asking
    <2>1. worker.job \in Ids /\ jobs[worker.job].status = "running" BY WorkerTook
    <2>2. jobs[worker.job].kind = "fetch_seasons" BY <1>2, <2>1 DEF RowsKept, SameJob
    <2>3. /\ jobs'[worker.job].series = jobs[worker.job].series
          /\ jobs'[worker.job].cancel = jobs[worker.job].cancel
          /\ jobs'[worker.job].refused = jobs[worker.job].refused
        BY <1>2, <1>12, <2>1, <2>2
    <2>4. worker' = worker BY DEF Asking
    <2>5. ASSUME NEW s \in jobs[worker.job].series, s \in fetched \/ AskedLater(worker.job, s)
          PROVE  s \in fetched' \/ AskedLater(worker.job, s)'
        <3>1. PICK i \in Ids : i = worker.job BY <2>1
        <3>2. s \in fetched \/ AskedLater(i, s) BY <2>5, <3>1
        <3>3. s \in fetched' \/ AskedLater(i, s)' BY <1>13, <2>1, <2>2, <3>1, <3>2
        <3> QED BY <2>4, <3>1, <3>3 DEF AskedLater
    <2> QED BY <2>2, <2>3, <2>4, <2>5 DEF QueueInv, SnapshotServed, Job
<1>15. SeasonsNotSwallowed'
    <2> SUFFICES ASSUME NEW i \in Ids, jobs'[i].kind = "fetch_seasons", jobs'[i].status = "done",
                        NEW s \in jobs'[i].series
                 PROVE  s \in fetched' \cup jobs'[i].refused \/ AskedLater(i, s)'
        BY <1>3 DEF SeasonsNotSwallowed, AskedLater
    <2>1. jobs[i].kind = "fetch_seasons" /\ jobs[i].status = "done"
        BY <1>2 DEF RowsKept, SameJob
    <2>2. s \in jobs[i].series BY <1>12, <2>1
    <2>3. s \in fetched \cup jobs[i].refused \/ AskedLater(i, s)
        BY <2>1, <2>2 DEF QueueInv, SeasonsNotSwallowed, AskedLater
    <2> QED BY <1>2, <1>13, <2>1, <2>3
<1> QED BY <1>5, <1>6, <1>7, <1>8, <1>9, <1>10, <1>11, <1>14, <1>15 DEF QueueInv

\* A new job goes to the end of the queue: no active one asks for the same.
LEMMA AppendKeeps ==
    ASSUME QueueInv, NEW kind, NEW p, NEW ids, NEW auto, Asking(kind, p, ids, auto),
           \A i \in Ids : ~Joins(kind, p, i), Len(jobs) < MaxJobs,
           jobs' = Append(jobs, NewJob(kind, p, ids, auto)),
           registry' = registry \cup {Len(jobs) + 1}, queue' = Append(queue, Len(jobs) + 1)
    PROVE  QueueInv'
<1> DEFINE new == Len(jobs) + 1
           job == NewJob(kind, p, ids, auto)
<1>1. jobs \in Seq(JobRows) /\ Len(jobs) \in Nat BY TypedRows DEF QueueInv
<1>2. job \in JobRows
    <2>1. ids \in SUBSET Series BY DEF Asking
    <2> QED BY <2>1, NewJobTyped DEF Asking
<1>3. /\ job.kind = kind /\ job.portal = p /\ job.status = "queued" /\ job.series = ids
      /\ job.auto = auto
    BY DEF NewJob
<1> HIDE DEF job
<1>4. /\ jobs' \in Seq(JobRows) /\ Len(jobs') = new
      /\ \A i \in Ids : jobs'[i] = jobs[i]
      /\ jobs'[new] = job
      /\ Ids' = Ids \cup {new} /\ new \notin Ids
    BY <1>1, <1>2, AppendedRows DEF job
<1>5. queue \in Seq(Ids) /\ queue \in Seq(Nat) /\ Len(queue) \in Nat /\ Len(queue) <= Len(jobs)
    BY DEF QueueInv, QueueInOrder, TypeOK, Ids
<1>6. /\ Len(queue') = Len(queue) + 1 /\ queue'[Len(queue) + 1] = new
      /\ \A i \in 1 .. Len(queue) : queue'[i] = queue[i]
      /\ queue' \in Seq(Ids')
    <2>1. queue \in Seq(Ids') BY <1>4, <1>5, SeqMonotonic
    <2> QED BY <1>4, <2>1, AppendProperties
<1>7. Taken' = Taken /\ Taken \in Nat /\ Taken < new BY <1>1, <1>4, <1>5, <1>6 DEF Taken
<1>8. /\ jobs'[new].kind = kind /\ jobs'[new].portal = p /\ jobs'[new].status = "queued"
      /\ jobs'[new].series = ids /\ jobs'[new].auto = auto
      /\ \A i \in Ids' : i = new \/ (i \in Ids /\ jobs'[i] = jobs[i])
    BY <1>3, <1>4
<1> HIDE DEF new
<1>9. TypeOK'
    <2>1. jobs' \in Seq(JobRows) /\ Len(jobs') <= MaxJobs
        BY <1>1, <1>4, BoundAssumption DEF new
    <2>2. registry' \subseteq Ids' /\ queue' \in Seq(Ids')
        BY <1>4, <1>6 DEF QueueInv, TypeOK, new
    <2>3. worker' \in [job : Ids' \cup {None}, at : Stages, todo : SUBSET Series]
        BY <1>4 DEF QueueInv, TypeOK, Asking
    <2>4. fetched' \subseteq Series /\ due' \subseteq Portals BY DEF QueueInv, TypeOK, Asking
    <2> QED BY <2>1, <2>2, <2>3, <2>4 DEF TypeOK, JobRows, Asking
<1>10. QueueInOrder'
    <2>1. \A i \in 1 .. Len(queue') : queue'[i] = Taken' + i
        BY <1>1, <1>5, <1>6, <1>7 DEF QueueInv, QueueInOrder, Taken, new
    <2>2. \A j \in Ids' : jobs'[j].status = "queued" <=> j > Taken'
        BY <1>8, <1>7 DEF QueueInv, QueueInOrder
    <2>3. Len(queue') <= Len(jobs') BY <1>1, <1>4, <1>5, <1>6 DEF new
    <2> QED BY <2>1, <2>2, <2>3 DEF QueueInOrder
<1>11. worker' = worker /\ (worker.job # None => worker.job \in Ids)
    BY DEF Asking, QueueInv, TypeOK
<1>12. WorkerRuns' BY <1>4, <1>11 DEF QueueInv, WorkerRuns
<1>13. ActiveListed' BY <1>4 DEF QueueInv, ActiveListed, new
<1>14. NoneBeforeSubmit' BY <1>8 DEF QueueInv, NoneBeforeSubmit, Asking
<1>15. OneJobPerPortal'
    <2>1. \A i \in Ids : jobs[i].status \in Active /\ jobs[i].kind # "fetch_seasons"
                             /\ kind # "fetch_seasons" => jobs[i].portal # p
        BY DEF Joins, QueueInv, ActiveListed
    <2> SUFFICES ASSUME NEW i \in Ids', NEW k \in Ids',
                        jobs'[i].status \in Active, jobs'[k].status \in Active,
                        jobs'[i].kind # "fetch_seasons", jobs'[k].kind # "fetch_seasons",
                        jobs'[i].portal = jobs'[k].portal
                 PROVE  i = k
        BY DEF OneJobPerPortal
    <2>2. CASE i # new /\ k # new
        BY <1>8, <2>2 DEF QueueInv, OneJobPerPortal
    <2>3. CASE i = new \/ k = new BY <1>8, <2>1, <2>3
    <2> QED BY <2>2, <2>3
<1>16. OneAutomaticCheck'
    <2>1. auto => \A i \in Ids : jobs[i].status \in Active => ~jobs[i].auto
        BY DEF QueueInv, NoneBeforeSubmit, Asking
    <2> QED BY <1>8, <2>1 DEF QueueInv, OneAutomaticCheck
<1>17. SeriesAtHome'
    <2> SUFFICES ASSUME NEW i \in Ids', jobs'[i].kind = "fetch_seasons", NEW s \in jobs'[i].series
                 PROVE  Home[s] = jobs'[i].portal
        BY DEF SeriesAtHome
    <2>1. CASE i = new BY <1>8, <2>1 DEF Asking
    <2>2. CASE i # new BY <1>8, <2>2 DEF QueueInv, SeriesAtHome
    <2> QED BY <2>1, <2>2
<1>18. ASSUME NEW i \in Ids, NEW s, s \in fetched \/ AskedLater(i, s)
       PROVE  s \in fetched' \/ AskedLater(i, s)'
    <2>1. CASE s \in fetched' BY <2>1
    <2>2. CASE s \in ids
        <3>1. i < new BY <1>1 DEF Ids, new
        <3>2. s \in jobs'[new].series BY <1>3, <1>4, <2>2
        <3> QED BY <1>4, <3>1, <3>2 DEF AskedLater
    <2>3. CASE AskedLater(i, s)
        <3>1. \A k \in Ids : jobs[k].series \subseteq jobs'[k].series BY <1>4
        <3> QED BY <1>4, <2>3, <3>1, StillAsked
    <2> QED BY <1>18, <2>1, <2>2, <2>3 DEF Asking
<1>19. SnapshotServed'
    <2> SUFFICES ASSUME worker.job # None, worker.at # "save", jobs'[worker.job].kind = "fetch_seasons"
                 PROVE  SnapshotServed'
        BY <1>11 DEF SnapshotServed, Job
    <2>1. PICK i \in Ids : i = worker.job BY <1>11
    <2>2. jobs'[i] = jobs[i] BY <1>4
    <2>3. ASSUME NEW s \in jobs[i].series, s \in fetched \/ AskedLater(worker.job, s)
          PROVE  s \in fetched' \/ AskedLater(worker.job, s)'
        <3>1. s \in fetched' \/ AskedLater(i, s)' BY <1>18, <2>1, <2>3
        <3> QED BY <1>11, <2>1, <3>1 DEF AskedLater
    <2> QED BY <1>11, <2>1, <2>2, <2>3 DEF QueueInv, SnapshotServed, Job
<1>20. SeasonsNotSwallowed'
    <2> SUFFICES ASSUME NEW i \in Ids', jobs'[i].kind = "fetch_seasons", jobs'[i].status = "done",
                        NEW s \in jobs'[i].series
                 PROVE  s \in fetched' \cup jobs'[i].refused \/ AskedLater(i, s)'
        BY DEF SeasonsNotSwallowed, AskedLater
    <2>1. i \in Ids /\ jobs'[i] = jobs[i] BY <1>3, <1>4
    <2>2. s \in fetched \cup jobs[i].refused \/ AskedLater(i, s)
        BY <2>1 DEF QueueInv, SeasonsNotSwallowed, AskedLater
    <2> QED BY <1>18, <2>1, <2>2
<1> QED BY <1>9, <1>10, <1>12, <1>13, <1>14, <1>15, <1>16, <1>17, <1>19, <1>20 DEF QueueInv

\* Whoever submits, the job is joined or new.
LEMMA SubmitKeeps ==
    ASSUME QueueInv, NEW kind, NEW p, NEW ids, NEW auto, Asking(kind, p, ids, auto),
           Submit(kind, p, ids, auto)
    PROVE  QueueInv'
<1>1. CASE {j \in Ids : Joins(kind, p, j)} # {}
    <2>1. PICK j \in {j \in Ids : Joins(kind, p, j)} : jobs' = [jobs EXCEPT ![j].series = @ \cup ids]
        BY <1>1 DEF Submit
    <2>2. UNCHANGED <<registry, queue>> BY <1>1 DEF Submit
    <2> QED BY <2>1, <2>2, JoinKeeps
<1>2. CASE {j \in Ids : Joins(kind, p, j)} = {}
    BY <1>2, AppendKeeps DEF Submit
<1> QED BY <1>1, <1>2

\* What handlers and the scheduler ask for.
LEMMA UsersKeep == ASSUME QueueInv, NEW kind \in Kinds \ {"fetch_seasons"}, NEW p \in Portals, Request(kind, p)
                   PROVE  QueueInv'
<1>1. Asking(kind, p, {}, FALSE) BY DEF Request, Asking, QueueInv, TypeOK
<1> QED BY <1>1, SubmitKeeps DEF Request

\* A handler enables a series and submits its seasons.
LEMMA EnableKeeps == ASSUME QueueInv, NEW s \in Series, EnableSeries(s) PROVE QueueInv'
<1>1. CASE s \in fetched
    <2>1. UNCHANGED <<jobs, registry, queue, worker, fetched, due, scheduler>> /\ enabled' = enabled \cup {s}
        BY <1>1 DEF EnableSeries
    <2>2. TypeOK' BY <2>1 DEF QueueInv, TypeOK, Ids
    <2> QED
        BY <2>1, <2>2
           DEF QueueInv, QueueInOrder, Taken, Ids, WorkerRuns, ActiveListed, NoneBeforeSubmit, SeriesAtHome,
               SnapshotServed, Job, AskedLater, OneJobPerPortal, OneAutomaticCheck, SeasonsNotSwallowed
<1>2. CASE s \notin fetched
    <2>1. Asking("fetch_seasons", Home[s], {s}, FALSE)
        BY <1>2, HomeAssumption DEF EnableSeries, Asking, QueueInv, TypeOK, Kinds
    <2>2. Submit("fetch_seasons", Home[s], {s}, FALSE) BY <1>2 DEF EnableSeries
    <2> QED BY <2>1, <2>2, SubmitKeeps
<1> QED BY <1>1, <1>2

\* A handler asks for the seasons of a series once more.
LEMMA RefetchKeeps == ASSUME QueueInv, NEW s \in Series, Refetch(s) PROVE QueueInv'
<1>1. Asking("fetch_seasons", Home[s], {s}, FALSE)
    BY HomeAssumption DEF Refetch, Asking, QueueInv, TypeOK, Kinds
<1> QED BY <1>1, SubmitKeeps DEF Refetch

\* The scheduler submits a portal that is due, with no automatic job of it active.
LEMMA SubmitDueKeeps == ASSUME QueueInv, NEW p \in Portals, SubmitDue(p) PROVE QueueInv'
<1>1. /\ scheduler' \in [at : {"sleep", "query", "stamp"}, portal : Portals \cup {None}]
      /\ scheduler'.at # "query"
    BY DEF SubmitDue, QueueInv, TypeOK
<1>2. Asking("catalog_check", p, {}, TRUE)
    BY <1>1 DEF SubmitDue, Asking, QueueInv, TypeOK, Kinds
<1> QED BY <1>2, SubmitKeeps DEF SubmitDue
-----------------------------------------------------------------------------
(* Steps that leave the rows and the queue alone                           *)

\* A step that touches no job keeps the invariant if the registry keeps the active ones.
LEMMA QuietKeeps ==
    ASSUME QueueInv, UNCHANGED <<jobs, queue, fetched>>, registry' \subseteq registry,
           \A j \in registry : jobs[j].status \in Active => j \in registry',
           worker' \in [job : Ids \cup {None}, at : Stages, todo : SUBSET Series],
           enabled' \subseteq Series, due' \subseteq Portals,
           scheduler' \in [at : {"sleep", "query", "stamp"}, portal : Portals \cup {None}],
           WorkerRuns', SnapshotServed', NoneBeforeSubmit'
    PROVE  QueueInv'
<1>1. Ids' = Ids /\ Taken' = Taken BY DEF Ids, Taken
<1>2. TypeOK' BY <1>1 DEF QueueInv, TypeOK
<1>3. QueueInOrder' /\ SeriesAtHome' /\ OneJobPerPortal' /\ OneAutomaticCheck' /\ SeasonsNotSwallowed'
    BY <1>1 DEF QueueInv, QueueInOrder, SeriesAtHome, OneJobPerPortal, OneAutomaticCheck, SeasonsNotSwallowed
<1>4. ActiveListed' BY <1>1 DEF QueueInv, ActiveListed
<1> QED BY <1>2, <1>3, <1>4 DEF QueueInv

\* The scheduler's other steps, and pruning, are such steps.
LEMMA SchedulerKeeps ==
    ASSUME QueueInv, Tick \/ NothingDue \/ Stamp \/ (\E p \in Portals : IntervalOver(p)) \/ Prune
    PROVE  QueueInv'
<1>1. UNCHANGED <<jobs, queue, fetched, worker, enabled>> /\ registry' \subseteq registry
    BY DEF Tick, NothingDue, Stamp, IntervalOver, Prune
<1>2. \A j \in registry : jobs[j].status \in Active => j \in registry'
    BY DEF Tick, NothingDue, Stamp, IntervalOver, Prune, Active, Finished
<1>3. worker' \in [job : Ids \cup {None}, at : Stages, todo : SUBSET Series] /\ enabled' \subseteq Series
    BY <1>1 DEF QueueInv, TypeOK
<1>4. due' \subseteq Portals BY DEF Tick, NothingDue, Stamp, IntervalOver, Prune, QueueInv, TypeOK
<1>5. scheduler' \in [at : {"sleep", "query", "stamp"}, portal : Portals \cup {None}]
    BY DEF Tick, NothingDue, Stamp, IntervalOver, Prune, QueueInv, TypeOK
<1>6. WorkerRuns' BY <1>1 DEF QueueInv, WorkerRuns
<1>7. SnapshotServed' BY <1>1 DEF QueueInv, SnapshotServed, Job, AskedLater, Ids
<1>8. NoneBeforeSubmit'
    <2>1. CASE Tick
        <3>1. \A j \in Ids : jobs[j].status \notin Active
            BY <2>1 DEF Tick, ActiveJobs, QueueInv, ActiveListed
        <3> QED BY <1>1, <3>1 DEF NoneBeforeSubmit, Ids
    <2>2. CASE NothingDue \/ Stamp \/ (\E p \in Portals : IntervalOver(p)) \/ Prune
        <3>1. scheduler'.at = "query" => scheduler.at = "query"
            BY <2>2 DEF NothingDue, Stamp, IntervalOver, Prune, QueueInv, TypeOK
        <3> QED BY <1>1, <3>1 DEF QueueInv, NoneBeforeSubmit, Ids
    <2> QED BY <2>1, <2>2
<1> QED BY <1>1, <1>2, <1>3, <1>4, <1>5, <1>6, <1>7, <1>8, QuietKeeps

\* The worker goes from one stage to the next.
LEMMA MoveKeeps ==
    ASSUME QueueInv, UNCHANGED jobs, Nothing, worker.job # None, worker.at # "save",
           NEW stage \in Stages, NEW todo \in SUBSET Series,
           worker' = [worker EXCEPT !.at = stage, !.todo = todo],
           stage # "save", SnapshotServed'
    PROVE  QueueInv'
<1>1. worker' \in [job : Ids \cup {None}, at : Stages, todo : SUBSET Series] /\ worker'.job = worker.job
    BY DEF QueueInv, TypeOK
<1>2. WorkerRuns' BY <1>1 DEF QueueInv, WorkerRuns
<1>3. NoneBeforeSubmit' BY DEF Nothing, QueueInv, NoneBeforeSubmit, Ids
<1> QED BY <1>1, <1>2, <1>3, QuietKeeps DEF Nothing, QueueInv, TypeOK

\* Served for the series the snapshot of a season job has to answer.
Served(s) == s \in fetched \cup Job.refused \/ AskedLater(worker.job, s)

\* A job of another kind asks for no seasons.
LEMMA OtherKindMoves ==
    ASSUME QueueInv, UNCHANGED jobs, Nothing, worker.job # None, worker.at # "save",
           Job.kind # "fetch_seasons",
           NEW stage \in Stages \ {"save"}, NEW todo \in SUBSET Series,
           worker' = [worker EXCEPT !.at = stage, !.todo = todo]
    PROVE  QueueInv'
<1>1. worker'.job = worker.job BY DEF QueueInv, TypeOK
<1>2. SnapshotServed' BY <1>1 DEF SnapshotServed, Job
<1> QED BY <1>2, MoveKeeps

\* A season job goes on to a stage at which all it was asked for is served or to do.
LEMMA SeasonJobMoves ==
    ASSUME QueueInv, UNCHANGED jobs, Nothing, worker.job # None, worker.at # "save",
           NEW stage \in {"seasons", "links", "close"}, NEW todo \in SUBSET Series,
           worker' = [worker EXCEPT !.at = stage, !.todo = todo],
           ~Job.cancel => \A s \in Job.series : Served(s) \/ (stage = "seasons" /\ s \in todo)
    PROVE  QueueInv'
<1>1. worker'.job = worker.job /\ worker'.at = stage /\ worker'.todo = todo BY DEF QueueInv, TypeOK
<1>2. fetched' = fetched BY DEF Nothing
<1>3. SnapshotServed' BY <1>1, <1>2 DEF SnapshotServed, Job, Served, AskedLater, Ids
<1>4. stage \in Stages /\ stage # "save" BY DEF Stages
<1> QED BY <1>3, <1>4, MoveKeeps

\* Between its snapshot and its end a season job has served what is no longer to do.
LEMMA SeasonsServed ==
    ASSUME QueueInv, worker.job # None, worker.at \in {"seasons", "links", "close"},
           Job.kind = "fetch_seasons", ~Job.cancel, NEW s \in Job.series
    PROVE  Served(s) \/ (worker.at = "seasons" /\ s \in worker.todo)
BY DEF QueueInv, SnapshotServed, Served

\* The worker goes from stage to stage of its job.
LEMMA MovesKeep ==
    ASSUME QueueInv, Client \/ Genres \/ Live \/ Vod \/ SeriesItems \/ SeasonsEnd \/ Links
    PROVE  QueueInv'
<1>1. UNCHANGED jobs /\ Nothing /\ worker.job # None /\ worker.at # "save"
    BY DEF Client, Genres, Live, Vod, SeriesItems, SeasonsEnd, Links, At
<1>2. worker \in [job : Ids \cup {None}, at : Stages, todo : SUBSET Series] /\ worker.todo \in SUBSET Series
    BY DEF QueueInv, TypeOK
<1>3. Wanted(Job) \in SUBSET Series BY DEF Wanted
<1>4. CASE Job.kind = "fetch_seasons"
    <2>1. worker.at \in {"client", "seasons", "links", "close"}
        BY <1>1, <1>4 DEF QueueInv, SnapshotServed
    <2>2. CASE Client
        <3>1. worker' = [worker EXCEPT !.at = "seasons", !.todo = Wanted(Job)]
            BY <1>4, <2>2 DEF Client, Enter, Work
        <3>2. \A s \in Job.series : Served(s) \/ s \in Wanted(Job)
            <4>1. Job.series \subseteq Series BY <1>1, TypedRows DEF QueueInv, TypeOK, JobRows, Job
            <4>2. \A s \in Job.series : Home[s] = Job.portal
                BY <1>1, <1>4 DEF QueueInv, TypeOK, SeriesAtHome, Job
            <4> QED BY <4>1, <4>2 DEF Wanted, Served
        <3> QED BY <1>1, <1>3, <3>1, <3>2, SeasonJobMoves
    <2>3. CASE SeasonsEnd
        <3>1. worker.at = "seasons" /\ worker' = [worker EXCEPT !.at = "links", !.todo = {}]
            BY <1>4, <2>3 DEF SeasonsEnd, AfterSeasons, At
        <3>2. ~Job.cancel => \A s \in Job.series : Served(s)
            BY <1>1, <1>4, <2>3, <3>1, SeasonsServed DEF SeasonsEnd
        <3>3. {} \in SUBSET Series OBVIOUS
        <3> QED BY <1>1, <3>1, <3>2, <3>3, SeasonJobMoves
    <2>4. CASE Links
        <3>1. worker.at = "links" /\ worker' = [worker EXCEPT !.at = "close", !.todo = worker.todo]
            BY <1>2, <2>4 DEF Links, Goto, At
        <3>2. ~Job.cancel => \A s \in Job.series : Served(s)
            BY <1>1, <1>4, <3>1, SeasonsServed
        <3> QED BY <1>1, <1>2, <3>1, <3>2, SeasonJobMoves
    <2>5. ~(Genres \/ Live \/ Vod \/ SeriesItems)
        BY <2>1 DEF Genres, Live, Vod, SeriesItems, At
    <2> QED BY <2>2, <2>3, <2>4, <2>5
<1>5. CASE Job.kind # "fetch_seasons"
    <2>1. \E stage \in Stages \ {"save"}, todo \in SUBSET Series :
              worker' = [worker EXCEPT !.at = stage, !.todo = todo]
        <3> USE DEF Stages
        <3>1. \A stage : [worker EXCEPT !.at = stage] = [worker EXCEPT !.at = stage, !.todo = worker.todo]
            BY <1>2
        <3>2. CASE Client
            <4>1. Work(Job.kind) \in Stages \ {"save", "seasons"} BY <1>5 DEF Work
            <4>2. worker' = [worker EXCEPT !.at = Work(Job.kind), !.todo = worker.todo]
                BY <3>2, <4>1 DEF Client, Enter
            <4> QED BY <1>2, <4>1, <4>2
        <3>3. CASE Genres BY <1>2, <3>1, <3>3 DEF Genres, Goto
        <3>4. CASE Live BY <1>2, <3>1, <3>4 DEF Live, Goto
        <3>5. CASE Vod BY <1>2, <3>1, <3>5 DEF Vod, Goto
        <3>6. CASE SeriesItems BY <1>2, <1>3, <3>1, <3>6 DEF SeriesItems, Goto, Enter
        <3>7. CASE SeasonsEnd
            <4>1. AfterSeasons(Job) \in Stages \ {"save"} BY DEF AfterSeasons
            <4> QED BY <3>7, <4>1 DEF SeasonsEnd
        <3>8. CASE Links BY <1>2, <3>1, <3>8 DEF Links, Goto
        <3> QED BY <3>2, <3>3, <3>4, <3>5, <3>6, <3>7, <3>8
    <2> QED BY <1>1, <1>5, <2>1, OtherKindMoves
<1> QED BY <1>4, <1>5

\* The worker stores that a catalogue refresh is under way.
LEMMA SaveAttemptKeeps == ASSUME QueueInv, SaveAttempt PROVE QueueInv'
<1>1. /\ UNCHANGED <<jobs, registry, queue, enabled, fetched, scheduler>>
      /\ due' \subseteq Portals /\ worker.at = "attempt" /\ worker.job # None
      /\ worker' \in [job : Ids \cup {None}, at : Stages, todo : SUBSET Series]
      /\ worker'.job = worker.job /\ worker'.at = "client"
    BY DEF SaveAttempt, At, Goto, QueueInv, TypeOK, Stages
<1>2. WorkerRuns' BY <1>1 DEF QueueInv, WorkerRuns
<1>3. SnapshotServed' BY <1>1 DEF QueueInv, SnapshotServed, Job
<1>4. NoneBeforeSubmit' BY <1>1 DEF QueueInv, NoneBeforeSubmit, Ids
<1> QED BY <1>1, <1>2, <1>3, <1>4, QuietKeeps DEF QueueInv, TypeOK

\* It stores what came of it.
LEMMA SaveResultKeeps == ASSUME QueueInv, SaveResult PROVE QueueInv'
<1>1. /\ UNCHANGED jobs /\ Nothing /\ worker'.job = None
      /\ worker' \in [job : Ids \cup {None}, at : Stages, todo : SUBSET Series]
    BY DEF SaveResult, Stages
<1>2. WorkerRuns' /\ SnapshotServed' BY <1>1 DEF WorkerRuns, SnapshotServed
<1>3. NoneBeforeSubmit' BY <1>1 DEF Nothing, QueueInv, NoneBeforeSubmit, Ids
<1> QED BY <1>1, <1>2, <1>3, QuietKeeps DEF Nothing, QueueInv, TypeOK

-----------------------------------------------------------------------------
(* Steps that write a row                                                  *)

\* A row that keeps kind, portal, status and series keeps what depends on those.
LEMMA RowsOnly ==
    ASSUME QueueInv, RowsKept, UNCHANGED <<registry, queue, scheduler>>,
           \A i \in Ids : jobs'[i].status = jobs[i].status /\ jobs'[i].series = jobs[i].series
    PROVE  /\ Ids' = Ids /\ Taken' = Taken /\ jobs' \in Seq(JobRows) /\ Len(jobs') <= MaxJobs
           /\ QueueInOrder' /\ ActiveListed' /\ NoneBeforeSubmit' /\ SeriesAtHome'
           /\ OneJobPerPortal' /\ OneAutomaticCheck'
<1>1. Ids' = Ids /\ Taken' = Taken /\ jobs' \in Seq(JobRows) /\ Len(jobs') <= MaxJobs
    BY DEF RowsKept, Ids, Taken, QueueInv, TypeOK
<1>2. QueueInOrder' BY <1>1 DEF QueueInv, QueueInOrder, RowsKept
<1>3. ActiveListed' /\ NoneBeforeSubmit'
    BY <1>1 DEF QueueInv, ActiveListed, NoneBeforeSubmit, RowsKept, SameJob
<1>4. SeriesAtHome' BY <1>1 DEF QueueInv, SeriesAtHome, RowsKept, SameJob
<1>5. OneJobPerPortal' /\ OneAutomaticCheck'
    BY <1>1 DEF QueueInv, OneJobPerPortal, OneAutomaticCheck, RowsKept, SameJob
<1> QED BY <1>1, <1>2, <1>3, <1>4, <1>5

\* An operator cancels a job, queued or running.
LEMMA CancelKeeps == ASSUME QueueInv, NEW j \in Ids, Cancel(j) PROVE QueueInv'
<1>1. UNCHANGED <<registry, queue, worker, enabled, fetched, due, scheduler>> BY DEF Cancel
<1>2. /\ RowsKept
      /\ \A i \in Ids : /\ jobs'[i].status = jobs[i].status /\ jobs'[i].series = jobs[i].series
                        /\ jobs'[i].refused = jobs[i].refused
                        /\ ~jobs'[i].cancel => ~jobs[i].cancel
    <2>1. jobs \in Seq(JobRows) BY TypedRows DEF QueueInv
    <2> QED BY <2>1, CancelledRows DEF Cancel
<1>3. /\ Ids' = Ids /\ Taken' = Taken /\ jobs' \in Seq(JobRows) /\ Len(jobs') <= MaxJobs
      /\ QueueInOrder' /\ ActiveListed' /\ NoneBeforeSubmit' /\ SeriesAtHome'
      /\ OneJobPerPortal' /\ OneAutomaticCheck'
    BY <1>1, <1>2, RowsOnly
<1>4. TypeOK' BY <1>1, <1>3 DEF QueueInv, TypeOK, JobRows
<1>5. WorkerRuns' BY <1>1, <1>2 DEF QueueInv, WorkerRuns, TypeOK
<1>6. SnapshotServed'
    <2> SUFFICES ASSUME worker.job # None, worker.at # "save", jobs'[worker.job].kind = "fetch_seasons"
                 PROVE  SnapshotServed'
        BY <1>1 DEF SnapshotServed, Job
    <2>1. PICK i \in Ids : i = worker.job BY WorkerTook
    <2>2. \A s : AskedLater(worker.job, s) => AskedLater(worker.job, s)'
        BY <1>1, <1>2, <1>3 DEF AskedLater
    <2> QED BY <1>1, <1>2, <2>1, <2>2 DEF QueueInv, SnapshotServed, Job, RowsKept, SameJob
<1>7. SeasonsNotSwallowed'
    BY <1>1, <1>2, <1>3 DEF QueueInv, SeasonsNotSwallowed, RowsKept, SameJob
<1> QED BY <1>3, <1>4, <1>5, <1>6, <1>7 DEF QueueInv

\* A series is committed, or refused: either way it is served.
LEMMA SeasonKeeps == ASSUME QueueInv, NEW s \in Series, Season(s) PROVE QueueInv'
<1>1. /\ worker.job # None /\ worker.at = "seasons" /\ ~Job.cancel
      /\ UNCHANGED <<registry, queue, enabled, due, scheduler>>
      /\ worker.job \in Ids /\ jobs[worker.job].status = "running"
      /\ worker'.job = worker.job /\ worker'.at = worker.at /\ worker'.todo = worker.todo \ {s}
      /\ worker' \in [job : Ids \cup {None}, at : Stages, todo : SUBSET Series]
    <2>1. worker.job # None /\ worker.at = "seasons" BY DEF Season, At
    <2> QED BY <2>1, WorkerTook DEF Season, QueueInv, TypeOK
<1>2. /\ RowsKept
      /\ \A i \in Ids : /\ jobs'[i].status = jobs[i].status /\ jobs'[i].series = jobs[i].series
                        /\ jobs'[i].cancel = jobs[i].cancel
                        /\ jobs[i].refused \subseteq jobs'[i].refused
      /\ fetched \subseteq fetched' /\ fetched' \subseteq Series
      /\ s \in fetched' \cup jobs'[worker.job].refused
    <2>1. jobs \in Seq(JobRows) BY TypedRows DEF QueueInv
    <2>2. CASE fetched' = fetched \cup {s} /\ UNCHANGED jobs
        BY <2>1, <2>2 DEF RowsKept, SameJob, QueueInv, TypeOK
    <2>3. CASE jobs' = [jobs EXCEPT ![worker.job].refused = @ \cup {s}] /\ UNCHANGED fetched
        <3>1. /\ RowsKept
              /\ \A i \in Ids : /\ jobs'[i].status = jobs[i].status /\ jobs'[i].series = jobs[i].series
                                /\ jobs'[i].cancel = jobs[i].cancel
                                /\ jobs'[i].refused = IF i = worker.job THEN jobs[i].refused \cup {s}
                                                      ELSE jobs[i].refused
            BY <1>1, <2>1, <2>3, RefusedRows
        <3>2. \A i \in Ids : jobs[i].refused \subseteq jobs'[i].refused BY <3>1
        <3>3. s \in jobs'[worker.job].refused BY <1>1, <3>1
        <3> QED BY <2>3, <3>1, <3>2, <3>3 DEF QueueInv, TypeOK
    <2> QED BY <2>2, <2>3 DEF Season
<1>3. /\ Ids' = Ids /\ Taken' = Taken /\ jobs' \in Seq(JobRows) /\ Len(jobs') <= MaxJobs
      /\ QueueInOrder' /\ ActiveListed' /\ NoneBeforeSubmit' /\ SeriesAtHome'
      /\ OneJobPerPortal' /\ OneAutomaticCheck'
    BY <1>1, <1>2, RowsOnly
<1>4. TypeOK' BY <1>1, <1>2, <1>3 DEF QueueInv, TypeOK, JobRows
<1>5. WorkerRuns' BY <1>1, <1>2 DEF WorkerRuns
<1>6. SnapshotServed'
    <2>1. PICK i \in Ids : i = worker.job BY <1>1
    <2>2. \A x : AskedLater(worker.job, x) => AskedLater(worker.job, x)'
        BY <1>1, <1>2, <1>3 DEF AskedLater
    <2> QED BY <1>1, <1>2, <2>1, <2>2 DEF QueueInv, SnapshotServed, Job, RowsKept, SameJob
<1>7. SeasonsNotSwallowed'
    BY <1>2, <1>3 DEF QueueInv, SeasonsNotSwallowed, RowsKept, SameJob
<1> QED BY <1>3, <1>4, <1>5, <1>6, <1>7 DEF QueueInv

\* The worker takes the job at the head, the first one that is queued.
LEMMA TakeKeeps == ASSUME QueueInv, Take PROVE QueueInv'
<1>1. worker.job = None /\ queue # <<>> /\ queue' = Tail(queue)
      /\ UNCHANGED <<registry, enabled, fetched, due, scheduler>>
    BY DEF Take
<1>2. jobs \in Seq(JobRows) /\ Len(jobs) \in Nat BY TypedRows DEF QueueInv
<1>3. queue \in Seq(Ids) /\ Len(queue) \in Nat /\ Len(queue) > 0 /\ Len(queue) <= Len(jobs)
    BY <1>1, EmptySeq DEF QueueInv, QueueInOrder, TypeOK
<1>4. /\ queue' \in Seq(Ids) /\ Len(queue') = Len(queue) - 1
      /\ \A i \in 1 .. Len(queue') : queue'[i] = queue[i + 1]
    BY <1>1, <1>3, HeadTailProperties
<1> DEFINE j == Head(queue)
<1>5. j = Taken + 1 /\ j \in Ids /\ jobs[j].status = "queued"
    <2>1. j = queue[1] BY <1>3
    <2>2. j = Taken + 1 BY <1>3, <2>1 DEF QueueInv, QueueInOrder
    <2>3. j \in Ids BY <1>2, <1>3, <2>2 DEF Ids, Taken
    <2>4. j > Taken BY <1>2, <1>3, <2>2 DEF Taken
    <2> QED BY <2>2, <2>3, <2>4 DEF QueueInv, QueueInOrder
<1>6. /\ jobs' = [jobs EXCEPT ![j].status = "running"]
      /\ worker'.job = j /\ worker'.at \in {"attempt", "client"} /\ worker'.todo = {}
      /\ jobs[j].kind = "fetch_seasons" => worker'.at = "client"
      /\ worker' \in [job : Ids \cup {None}, at : Stages, todo : SUBSET Series]
    BY <1>5 DEF Take, CatalogKinds, Stages
<1> HIDE DEF j
<1>7. /\ RowsKept
      /\ \A i \in Ids : /\ jobs'[i].status = IF i = j THEN "running" ELSE jobs[i].status
                        /\ jobs'[i].series = jobs[i].series /\ jobs'[i].cancel = jobs[i].cancel
                        /\ jobs'[i].refused = jobs[i].refused
    BY <1>2, <1>5, <1>6, StatusRows DEF Active
<1>8. Ids' = Ids /\ Taken' = Taken + 1 BY <1>2, <1>3, <1>4, <1>7 DEF Ids, Taken, RowsKept
<1>9. \A i \in Ids : jobs'[i].status \in Active <=> jobs[i].status \in Active
    BY <1>5, <1>7 DEF Active
<1>10. TypeOK'
    <2>1. jobs' \in Seq(JobRows) /\ Len(jobs') <= MaxJobs BY <1>7 DEF RowsKept, QueueInv, TypeOK
    <2> QED BY <1>1, <1>4, <1>6, <1>8, <2>1 DEF QueueInv, TypeOK, JobRows
<1>11. QueueInOrder'
    <2>1. Taken \in Int BY <1>2, <1>3 DEF Taken
    <2>2. \A i \in 1 .. Len(queue') : queue'[i] = Taken' + i
        <3> SUFFICES ASSUME NEW i \in 1 .. Len(queue') PROVE queue'[i] = Taken' + i OBVIOUS
        <3>1. i + 1 \in 1 .. Len(queue) /\ queue'[i] = queue[i + 1] BY <1>3, <1>4
        <3>2. queue[i + 1] = Taken + (i + 1) BY <3>1 DEF QueueInv, QueueInOrder
        <3> QED BY <1>8, <2>1, <3>1, <3>2
    <2>3. \A i \in Ids : jobs'[i].status = "queued" <=> i > Taken'
        BY <1>2, <1>5, <1>7, <1>8, <2>1 DEF QueueInv, QueueInOrder, Ids
    <2>4. Len(queue') <= Len(jobs') BY <1>2, <1>3, <1>4, <1>7 DEF RowsKept
    <2> QED BY <1>8, <2>2, <2>3, <2>4 DEF QueueInOrder
<1>12. WorkerRuns' BY <1>5, <1>6, <1>7 DEF WorkerRuns
<1>13. ActiveListed' /\ NoneBeforeSubmit'
    BY <1>1, <1>7, <1>8, <1>9 DEF QueueInv, ActiveListed, NoneBeforeSubmit, RowsKept, SameJob
<1>14. OneJobPerPortal' /\ OneAutomaticCheck'
    BY <1>7, <1>8, <1>9 DEF QueueInv, OneJobPerPortal, OneAutomaticCheck, RowsKept, SameJob
<1>15. SeriesAtHome' BY <1>7, <1>8 DEF QueueInv, SeriesAtHome, RowsKept, SameJob
<1>16. SnapshotServed' BY <1>5, <1>6, <1>7 DEF SnapshotServed, Job, RowsKept, SameJob
<1>17. SeasonsNotSwallowed'
    BY <1>1, <1>7, <1>8 DEF QueueInv, SeasonsNotSwallowed, RowsKept, SameJob
<1> QED BY <1>10, <1>11, <1>12, <1>13, <1>14, <1>15, <1>16, <1>17 DEF QueueInv

\* A job ends; "done" only when nothing it was asked for is open.
LEMMA EndKeeps ==
    ASSUME QueueInv, worker.job # None, worker.at # "save", NEW status \in Finished, End(status),
           status = "done" => worker.at = "close" /\ ~Job.cancel
    PROVE  QueueInv'
<1>1. UNCHANGED <<registry, queue, enabled, fetched, due, scheduler>> BY DEF End, Nothing
<1>2. jobs \in Seq(JobRows) /\ Len(jobs) \in Nat BY TypedRows DEF QueueInv
<1>3. PICK j \in Ids : j = worker.job BY WorkerTook
<1>4. j <= Taken /\ jobs[j].status = "running" /\ Taken \in Int
    BY <1>2, <1>3, WorkerTook DEF Taken, QueueInv, TypeOK
<1>5. /\ jobs' = [jobs EXCEPT ![j].status = status]
      /\ worker' \in [job : Ids \cup {None}, at : Stages, todo : SUBSET Series]
      /\ worker'.job = None \/ worker'.at = "save"
    BY <1>3 DEF End, QueueInv, TypeOK, Stages
<1>6. /\ RowsKept
      /\ \A i \in Ids : /\ jobs'[i].status = IF i = j THEN status ELSE jobs[i].status
                        /\ jobs'[i].series = jobs[i].series /\ jobs'[i].cancel = jobs[i].cancel
                        /\ jobs'[i].refused = jobs[i].refused
    BY <1>2, <1>5, StatusRows
<1>7. Ids' = Ids /\ Taken' = Taken BY <1>1, <1>6 DEF Ids, Taken, RowsKept
<1>8. \A i \in Ids : jobs'[i].status \in Active => jobs[i].status \in Active
    BY <1>6 DEF Active, Finished
<1>9. TypeOK'
    <2>1. jobs' \in Seq(JobRows) /\ Len(jobs') <= MaxJobs BY <1>6 DEF RowsKept, QueueInv, TypeOK
    <2> QED BY <1>1, <1>5, <1>7, <2>1 DEF QueueInv, TypeOK, JobRows
<1>10. QueueInOrder'
    <2>1. \A i \in Ids : jobs'[i].status = "queued" <=> i > Taken
        BY <1>2, <1>4, <1>6 DEF QueueInv, QueueInOrder, Finished, Ids
    <2> QED BY <1>1, <1>6, <1>7, <2>1 DEF QueueInv, QueueInOrder, RowsKept
<1>11. WorkerRuns' /\ SnapshotServed' BY <1>5 DEF WorkerRuns, SnapshotServed
<1>12. ActiveListed' /\ NoneBeforeSubmit'
    BY <1>1, <1>6, <1>7, <1>8 DEF QueueInv, ActiveListed, NoneBeforeSubmit, RowsKept, SameJob
<1>13. OneJobPerPortal' /\ OneAutomaticCheck'
    BY <1>6, <1>7, <1>8 DEF QueueInv, OneJobPerPortal, OneAutomaticCheck, RowsKept, SameJob
<1>14. SeriesAtHome' BY <1>6, <1>7 DEF QueueInv, SeriesAtHome, RowsKept, SameJob
<1>15. SeasonsNotSwallowed'
    <2> SUFFICES ASSUME NEW i \in Ids, jobs'[i].kind = "fetch_seasons", jobs'[i].status = "done",
                        NEW s \in jobs'[i].series
                 PROVE  s \in fetched' \cup jobs'[i].refused
                           \/ \E k \in Ids' : k > i /\ s \in jobs'[k].series
        BY <1>7 DEF SeasonsNotSwallowed
    <2>1. jobs[i].kind = "fetch_seasons" /\ s \in jobs[i].series BY <1>6 DEF RowsKept, SameJob
    <2>2. s \in fetched \cup jobs[i].refused \/ AskedLater(i, s)
        <3>1. CASE i = j
            <4>1. worker.at = "close" /\ ~Job.cancel /\ Job = jobs[i] BY <1>3, <1>6, <3>1 DEF Job
            <4>2. Served(s) BY <2>1, <4>1, SeasonsServed
            <4> QED BY <1>3, <3>1, <4>1, <4>2 DEF Served
        <3>2. CASE i # j
            BY <1>6, <2>1, <3>2 DEF QueueInv, SeasonsNotSwallowed, AskedLater
        <3> QED BY <3>1, <3>2
    <2> QED BY <1>1, <1>6, <1>7, <2>2 DEF AskedLater
<1> QED BY <1>9, <1>10, <1>11, <1>12, <1>13, <1>14, <1>15 DEF QueueInv

\* The worker closes its job, done or failed.
LEMMA EndsKeep == ASSUME QueueInv, Close \/ Fail PROVE QueueInv'
<1>1. worker.job # None /\ worker.at # "save" BY DEF Close, Fail, At
<1>2. CASE Close
    <2>1. worker.at = "close" BY <1>2 DEF Close, At
    <2>2. CASE Job.cancel BY <1>1, <1>2, <2>2, EndKeeps DEF Close, Finished
    <2>3. CASE ~Job.cancel BY <1>1, <1>2, <2>1, <2>3, EndKeeps DEF Close, Finished
    <2> QED BY <2>2, <2>3
<1>3. CASE Fail BY <1>1, <1>3, EndKeeps DEF Fail, Finished
<1> QED BY <1>2, <1>3
-----------------------------------------------------------------------------
(* The theorems                                                            *)

\* Every step keeps the invariant.
LEMMA QueueStep == ASSUME QueueInv, [Next]_vars PROVE QueueInv'
<1>1. CASE Users BY <1>1, UsersKeep, EnableKeeps, RefetchKeeps, CancelKeeps DEF Users
<1>2. CASE Worker
    BY <1>2, TakeKeeps, SaveAttemptKeeps, MovesKeep, SeasonKeeps, EndsKeep, SaveResultKeeps DEF Worker
<1>3. CASE Scheduler BY <1>3, SchedulerKeeps, SubmitDueKeeps DEF Scheduler
<1>4. CASE Prune BY <1>4, SchedulerKeeps
<1>5. CASE \E p \in Portals : IntervalOver(p) BY <1>5, SchedulerKeeps
<1>6. CASE UNCHANGED vars
    BY <1>6 DEF vars, QueueInv, TypeOK, QueueInOrder, Taken, Ids, WorkerRuns, ActiveListed,
                NoneBeforeSubmit, SeriesAtHome, SnapshotServed, Job, AskedLater, OneJobPerPortal,
                OneAutomaticCheck, SeasonsNotSwallowed
<1> QED BY <1>1, <1>2, <1>3, <1>4, <1>5, <1>6 DEF Next

\* QueueInv holds of every state of the specification.
LEMMA QueueInvariant == Spec => []QueueInv
BY InitInv, QueueStep, PTL DEF Spec

\* Whatever is submitted, cancelled, pruned and run, every variable keeps its type.
THEOREM QueueTypeCorrect == Spec => []TypeOK
<1>1. QueueInv => TypeOK BY DEF QueueInv
<1> QED BY <1>1, QueueInvariant, PTL

\* fetch_jobs.submit keeps catalogue and genre jobs "one-per-portal", and the scheduler has
\* at most one automatic check in flight.
THEOREM QueueNoDoubleWork == Spec => []NoDoubleWork
<1>1. QueueInv => NoDoubleWork BY DEF QueueInv, NoDoubleWork
<1> QED BY <1>1, QueueInvariant, PTL

\* Each series a season job was asked for, and that the job reports done, has its seasons, was
\* refused by the portal, or is asked of a later job.
THEOREM QueueSwallowsNothing == Spec => []SeasonsNotSwallowed
<1>1. QueueInv => SeasonsNotSwallowed BY DEF QueueInv
<1> QED BY <1>1, QueueInvariant, PTL
-----------------------------------------------------------------------------
(* The scan of a genre (CatalogScan) *)

Named(items) == {items[j].item : j \in DOMAIN items}
\* The items of the pages that are read and not yet stored.
InHand(pages) == UNION {Named(items) : items \in Range(pages)}
Stored == {i \in Items : sourceRow[i] # Absent}

\* The first n items of the panel's listing are stored or in hand, or of the other kind.
Reached(n, pages) ==
    \A k \in 1 .. Len(portal) : k <= n => portal[k] \in foreign \cup Stored \cup InHand(pages)

\* How far a walk has come, unless the panel changed under it.
Walked ==
    /\ scan.at \in {"batch", "serial"} => scan.page >= 1
    /\ scan.at \in {"finish", "allDone"} => scan.pages = <<>>
    /\ scan.at = "all" => Len(scan.pages) = 1
    /\ scan.at = "serial" => scan.total = 0
    /\ steady =>
        /\ scan.at = "batch" => scan.total = Len(portal)
        /\ scan.at = "serial" \/ (scan.at = "batch" /\ ~scan.failed) =>
              Reached((scan.page - 1) * PageSize, scan.pages)
        /\ (scan.at \in {"store", "finish"} /\ scan.complete /\ Measured) \/ scan.at \in {"all", "allDone"} =>
              Reached(Len(portal), scan.pages)

\* Nothing is recorded, read or tracked before the baseline, and what the baseline stands
\* for is stored and was never new.
Based ==
    /\ scan.tracked => genre.baseline
    /\ NothingBeforeBaseline
    /\ \A i \in review : change[i] # NoChange
    /\ \A i \in known : sourceRow[i] # Absent /\ change[i].type # "new"

\* What waits for a review is not in the hands of one.
Apart ==
    /\ unseen \cap review = {}
    /\ ChangesNotLost

ScanInv == ScanTypeOK /\ Walked /\ Based /\ Apart
-----------------------------------------------------------------------------
(* Pages *)

\* What a stretch of the listing names.
LEMMA EntriesName ==
    ASSUME ScanTypeOK, NEW lo \in Nat \ {0}, NEW hi \in Nat, hi <= Len(portal)
    PROVE  /\ Entries(lo, hi) \in Seq(Offer)
           /\ Len(Entries(lo, hi)) = IF lo <= hi THEN hi - lo + 1 ELSE 0
           /\ \A k \in lo .. hi : portal[k] \in Named(Entries(lo, hi))
<1> DEFINE n == IF lo <= hi THEN hi - lo + 1 ELSE 0
           Entry(k) == [item |-> portal[lo + k - 1], version |-> metadata[portal[lo + k - 1]]]
<1>1. n \in Nat
  OBVIOUS
<1>2. \A k \in 1 .. n : lo + k - 1 \in 1 .. Len(portal)
  OBVIOUS
<1>3. \A k \in 1 .. Len(portal) : portal[k] \in Items
  BY DEF ScanTypeOK
<1>4. \A k \in 1 .. n : Entry(k) \in Offer
  BY <1>2, <1>3 DEF ScanTypeOK, Offer
<1>5. Entries(lo, hi) = [k \in 1 .. n |-> Entry(k)]
  BY <1>1, Zenon DEF Entries
<1>6. Entries(lo, hi) \in Seq(Offer) /\ DOMAIN Entries(lo, hi) = 1 .. n
  <2> HIDE DEF n, Entry
  <2> QED BY <1>1, <1>4, <1>5, IsASeq
<1>7. Len(Entries(lo, hi)) = n
  BY <1>1, <1>6, LenProperties
<1>8. ASSUME NEW k \in lo .. hi PROVE portal[k] \in Named(Entries(lo, hi))
  <2>1. k - lo + 1 \in 1 .. n /\ lo + (k - lo + 1) - 1 = k
    OBVIOUS
  <2>2. Entries(lo, hi)[k - lo + 1].item = portal[k]
    BY <1>5, <2>1
  <2> QED BY <1>6, <2>1, <2>2 DEF Named
<1> QED BY <1>6, <1>7, <1>8

\* A page names its part of the listing, and a short one ends it.
LEMMA PageNames ==
    ASSUME PageAssumption, ScanTypeOK, NEW p \in Nat \ {0}
    PROVE  /\ Page(p) \in Seq(Offer)
           /\ \A k \in 1 .. Len(portal) : (p - 1) * PageSize < k /\ k <= p * PageSize =>
                  portal[k] \in Named(Page(p))
           /\ Len(Page(p)) < PageSize => Len(portal) < p * PageSize
<1> DEFINE before == (p - 1) * PageSize
           upto == p * PageSize
           lo == before + 1
           hi == Least(upto, Len(portal))
<1>1. PageSize \in Nat \ {0} /\ Len(portal) \in Nat
  BY DEF PageAssumption, ScanTypeOK
<1>2. before \in Nat /\ upto \in Nat /\ upto = before + PageSize
  BY <1>1
<1>3. Page(p) = Entries(lo, hi)
  BY DEF Page
<1> HIDE DEF before, upto
<1>4. hi \in Nat /\ hi <= Len(portal) /\ lo \in Nat \ {0}
  BY <1>1, <1>2 DEF Least
<1>5. /\ Page(p) \in Seq(Offer)
      /\ Len(Page(p)) = IF lo <= hi THEN hi - lo + 1 ELSE 0
      /\ \A k \in lo .. hi : portal[k] \in Named(Page(p))
  <2> HIDE DEF lo, hi
  <2>1. /\ Entries(lo, hi) \in Seq(Offer)
        /\ Len(Entries(lo, hi)) = IF lo <= hi THEN hi - lo + 1 ELSE 0
        /\ \A k \in lo .. hi : portal[k] \in Named(Entries(lo, hi))
    BY <1>4, EntriesName
  <2> QED BY <1>3, <2>1
<1>6. ASSUME NEW k \in 1 .. Len(portal), before < k, k <= upto PROVE k \in lo .. hi
  BY <1>1, <1>2, <1>6 DEF Least
<1>7. Len(Page(p)) < PageSize => Len(portal) < upto
  BY <1>1, <1>2, <1>5 DEF Least
<1> QED BY <1>5, <1>6, <1>7 DEF before, upto

\* What is kept of a page names all of it that is of the genre's kind; where nothing is
\* dropped, a short one ends the listing.
LEMMA KeptNames ==
    ASSUME PageAssumption, ScanTypeOK, NEW p \in Nat \ {0}
    PROVE  /\ Kept(p) \in Seq(Offer)
           /\ \A k \in 1 .. Len(portal) : (p - 1) * PageSize < k /\ k <= p * PageSize =>
                  portal[k] \in foreign \cup Named(Kept(p))
           /\ foreign = {} /\ Len(Kept(p)) < PageSize => Len(portal) < p * PageSize
<1> DEFINE own == [item : Items \ foreign, version : Nat]
<1>1. /\ Page(p) \in Seq(Offer)
      /\ \A k \in 1 .. Len(portal) : (p - 1) * PageSize < k /\ k <= p * PageSize =>
             portal[k] \in Named(Page(p))
      /\ Len(Page(p)) < PageSize => Len(portal) < p * PageSize
  BY PageNames
<1>2. Kept(p) \in Seq(Offer) /\ Range(Kept(p)) = Range(Page(p)) \cap own
  BY <1>1, OnlySelects DEF Kept
<1>3. Named(Page(p)) \subseteq foreign \cup Named(Kept(p))
  <2> SUFFICES ASSUME NEW j \in DOMAIN Page(p), Page(p)[j].item \notin foreign
               PROVE  Page(p)[j].item \in Named(Kept(p))
    BY DEF Named
  <2>1. Page(p)[j] \in Offer
    BY <1>1, LenProperties, ElementOfSeq
  <2>2. Page(p)[j] \in own
    BY <2>1 DEF Offer
  <2>3. Page(p)[j] \in Range(Kept(p))
    BY <1>2, <2>2 DEF Range
  <2>4. PICK i \in DOMAIN Kept(p) : Kept(p)[i] = Page(p)[j]
    BY <2>3 DEF Range
  <2> QED BY <2>4 DEF Named
<1>4. foreign = {} => Len(Kept(p)) = Len(Page(p))
  <2>1. foreign = {} => Offer \subseteq own
    BY DEF Offer
  <2> QED BY <1>1, <2>1, OnlyKeepsAll DEF Kept
<1> QED BY <1>1, <1>2, <1>3, <1>4

\* The pages that are expected hold the whole listing.
LEMMA PagesCover ==
    ASSUME NEW total \in Nat, NEW size \in Nat \ {0}
    PROVE  /\ (total + size - 1) \div size \in Nat
           /\ total <= ((total + size - 1) \div size) * size
<1> DEFINE q == (total + size - 1) \div size
           r == (total + size - 1) % size
<1>1. total + size - 1 \in Nat /\ q \in Int /\ r \in 0 .. size - 1 /\ total + size - 1 = size * q + r
  OBVIOUS
<1> HIDE DEF q, r
<1>2. size * q = q * size /\ (q < 0 => size * q <= 0 - size)
  BY <1>1
<1>3. q \in Nat
  BY <1>1, <1>2
<1>4. total <= q * size
  <2> DEFINE all == size * q
  <2>1. all \in Int /\ total + size - 1 = all + r /\ all = q * size
    BY <1>1, <1>2
  <2> HIDE DEF all
  <2> QED BY <1>1, <2>1
<1> QED BY <1>3, <1>4 DEF q

\* Multiples keep the order of their factors.
LEMMA Multiples ==
    ASSUME NEW m \in Nat, NEW n \in Nat, NEW size \in Nat \ {0}
    PROVE  m < n => m * size + size <= n * size
<1> SUFFICES ASSUME m < n PROVE m * size + size <= n * size
  OBVIOUS
<1> DEFINE d == n - m - 1
<1>1. d \in Nat /\ n = m + 1 + d
  OBVIOUS
<1> HIDE DEF d
<1>2. n * size = m * size + size + d * size /\ d * size \in Nat
  BY <1>1
<1>3. m * size \in Nat /\ n * size \in Nat
  OBVIOUS
<1> DEFINE a == m * size
           b == n * size
           c == d * size
<1>4. a \in Nat /\ b = a + size + c /\ c \in Nat
  BY <1>2, <1>3
<1> HIDE DEF a, b, c
<1>5. a + size <= b
  BY <1>4
<1> QED BY <1>5 DEF a, b

\* The page of a place in the listing.
LEMMA PageOf ==
    ASSUME NEW size \in Nat \ {0}, NEW k \in Nat \ {0}, NEW p \in Nat \ {0}, NEW last \in Nat,
           (p - 1) * size < k, k <= last * size
    PROVE  \E q \in p .. last : (q - 1) * size < k /\ k <= q * size
<1> DEFINE T == {q \in Nat : k <= q * size}
<1>1. T \subseteq Nat /\ last \in T
  OBVIOUS
<1>2. PICK q \in T : \A r \in T : q <= r
  <2> HIDE DEF T
  <2> QED BY <1>1, LeastNumber
<1>3. q \in Nat /\ k <= q * size /\ q <= last
  BY <1>1, <1>2
<1>4. q # 0
  <2>1. 0 * size = 0
    OBVIOUS
  <2> QED BY <1>3, <2>1
<1>5. q - 1 \in Nat /\ ~ (k <= (q - 1) * size)
  <2>1. q - 1 \in Nat /\ ~ (q <= q - 1)
    BY <1>3, <1>4
  <2> QED BY <1>2, <2>1
<1>6. (q - 1) * size \in Nat
  BY <1>5
<1>7. ~ (q < p)
  <2> SUFFICES ASSUME q < p PROVE FALSE
    OBVIOUS
  <2>1. p - 1 \in Nat /\ (q = p - 1 \/ q < p - 1)
    BY <1>3
  <2>2. q * size <= (p - 1) * size
    <3>1. q * size \in Nat /\ (p - 1) * size \in Nat
      BY <1>3, <2>1
    <3>2. CASE q < p - 1
      <4>1. q * size + size <= (p - 1) * size
        BY <1>3, <2>1, <3>2, Multiples
      <4> DEFINE a == q * size
                 b == (p - 1) * size
      <4>2. a \in Nat /\ b \in Nat /\ a + size <= b
        BY <3>1, <4>1
      <4> HIDE DEF a, b
      <4>3. a <= b
        BY <4>2
      <4> QED BY <4>3 DEF a, b
    <3>3. CASE q = p - 1
      BY <3>1, <3>3
    <3> QED BY <2>1, <3>2, <3>3
  <2> DEFINE a == q * size
             b == (p - 1) * size
  <2>3. a \in Nat /\ b \in Nat /\ k <= a /\ a <= b /\ b < k
    BY <1>3, <2>1, <2>2
  <2> HIDE DEF a, b
  <2> QED BY <2>3
<1>8. (q - 1) * size < k
  <2> DEFINE b == (q - 1) * size
  <2>1. b \in Nat /\ ~ (k <= b)
    BY <1>5, <1>6
  <2> HIDE DEF b
  <2>2. b < k
    BY <2>1
  <2> QED BY <2>2 DEF b
<1> QED BY <1>3, <1>7, <1>8

\* Pages that are added name more.
LEMMA InHandGrows ==
    ASSUME NEW pages \in Seq(Seq(Offer)), NEW more \in Seq(Seq(Offer))
    PROVE  /\ pages \o more \in Seq(Seq(Offer))
           /\ InHand(pages \o more) = InHand(pages) \cup InHand(more)
BY RangeOfConcat DEF InHand

\* Storing the first page takes it from those in hand.
LEMMA HeadInHand ==
    ASSUME NEW pages \in Seq(Seq(Offer)), pages # <<>>
    PROVE  /\ Head(pages) \in Seq(Offer) /\ Tail(pages) \in Seq(Seq(Offer))
           /\ InHand(pages) \subseteq Named(Head(pages)) \cup InHand(Tail(pages))
<1>1. /\ Head(pages) \in Seq(Offer) /\ Tail(pages) \in Seq(Seq(Offer)) /\ Len(pages) \in Nat \ {0}
      /\ Len(Tail(pages)) = Len(pages) - 1 /\ Head(pages) = pages[1]
      /\ \A i \in 1 .. Len(Tail(pages)) : Tail(pages)[i] = pages[i + 1]
  BY HeadTailProperties, EmptySeq
<1>2. ASSUME NEW i \in 1 .. Len(pages) PROVE pages[i] = Head(pages) \/ pages[i] \in Range(Tail(pages))
  <2>1. CASE i = 1
    BY <1>1, <2>1
  <2>2. CASE i # 1
    <3>1. i - 1 \in 1 .. Len(Tail(pages)) /\ Tail(pages)[i - 1] = pages[i]
      BY <1>1, <2>2
    <3>2. DOMAIN Tail(pages) = 1 .. Len(Tail(pages))
      BY <1>1, LenProperties
    <3> QED BY <3>1, <3>2, Zenon DEF Range
  <2> QED BY <2>1, <2>2
<1>3. Range(pages) \subseteq {Head(pages)} \cup Range(Tail(pages))
  BY <1>2, LenProperties DEF Range
<1> QED BY <1>1, <1>3 DEF InHand


\* A listing of which the first pages are reached, and the next ones are taken in hand.
LEMMA ReachedFurther ==
    ASSUME PageAssumption, ScanTypeOK, NEW p \in Nat \ {0}, NEW last \in Nat,
           NEW pages \in Seq(Seq(Offer)), NEW more \in Seq(Seq(Offer)),
           Reached((p - 1) * PageSize, pages),
           \A q \in p .. last : Named(Kept(q)) \subseteq InHand(more)
    PROVE  Reached(last * PageSize, pages \o more)
<1> SUFFICES ASSUME NEW k \in 1 .. Len(portal), k <= last * PageSize
             PROVE  portal[k] \in foreign \cup Stored \cup InHand(pages \o more)
  BY DEF Reached
<1>1. InHand(pages \o more) = InHand(pages) \cup InHand(more)
  BY InHandGrows
<1>2. CASE k <= (p - 1) * PageSize
  BY <1>1, <1>2 DEF Reached
<1>3. CASE ~ (k <= (p - 1) * PageSize)
  <2> DEFINE before == (p - 1) * PageSize
  <2>1. k \in Nat \ {0} /\ PageSize \in Nat \ {0} /\ p - 1 \in Nat
    BY LenProperties DEF ScanTypeOK, PageAssumption
  <2>2. k \in Nat \ {0} /\ PageSize \in Nat \ {0} /\ before \in Nat
    BY <2>1
  <2>3. before < k
    <3>1. ~ (k <= before)
      BY <1>3
    <3> HIDE DEF before
    <3> QED BY <2>2, <3>1
  <2>4. PICK q \in p .. last : (q - 1) * PageSize < k /\ k <= q * PageSize
    BY <2>2, <2>3, PageOf
  <2>5. q \in Nat \ {0}
    OBVIOUS
  <2>6. portal[k] \in foreign \cup Named(Kept(q))
    BY <2>4, <2>5, KeptNames
  <2> QED BY <1>1, <2>6
<1> QED BY <1>2, <1>3
-----------------------------------------------------------------------------
(* Storing a page *)

\* The first offer of an item that is named has a version.
LEMMA FirstOffered ==
    ASSUME NEW items \in Seq(Offer), NEW i \in Items
    PROVE  /\ Offers(items, i) = {} <=> i \notin Named(items)
           /\ Offers(items, i) # {} => FirstOffer(items, i) \in Offer
<1>1. Offers(items, i) = {} <=> i \notin Named(items)
  BY DEF Offers, Named
<1>2. ASSUME Offers(items, i) # {} PROVE FirstOffer(items, i) \in Offer
  <2> DEFINE T == Offers(items, i)
  <2>1. T \subseteq 1 .. Len(items)
    BY LenProperties DEF Offers
  <2>2. T \subseteq Nat /\ T # {}
    BY <1>2, <2>1
  <2> HIDE DEF T
  <2>3. \E k \in T : \A l \in T : k <= l
    BY <2>2, LeastNumber
  <2> DEFINE first == CHOOSE k \in T : \A l \in T : k <= l
  <2>4. first \in T
    BY <2>3
  <2>5. FirstOffer(items, i) = items[first]
    BY DEF FirstOffer, T
  <2> HIDE DEF first
  <2> QED BY <2>1, <2>4, <2>5, ElementOfSeq
<1> QED BY <1>1, <1>2

\* A page that is stored: rows only come, recorded changes stay on record, and what is
\* recorded is pending; nothing is recorded by an untracked walk.
LEMMA UpsertStores ==
    ASSUME ScanTypeOK, NEW items \in Seq(Offer), NEW tracked \in BOOLEAN, Upsert(items, tracked)
    PROVE  /\ sourceRow' \in [Items -> Nat \cup {Absent}]
           /\ change' \in [Items -> Changes] /\ unseen' \subseteq Items
           /\ Stored \cup Named(items) \subseteq Stored'
           /\ ~tracked => change' = change /\ unseen' = unseen
           /\ \A i \in Items : change[i] # NoChange => change'[i] # NoChange
           /\ \A i \in Items : sourceRow[i] # Absent /\ change[i].type # "new" => change'[i].type # "new"
           /\ \A i \in unseen' : (i \in unseen /\ change'[i] = change[i]) \/ change'[i].status = "pending"
<1> DEFINE events == Events(items, tracked)
           type(i) == IF sourceRow[i] = Absent THEN "new" ELSE "changed"
           row(i) == IF Offers(items, i) = {} THEN sourceRow[i] ELSE FirstOffer(items, i).version
           now(i) == IF i \in events THEN Recorded(change[i], type(i)) ELSE change[i]
<1>1. /\ sourceRow' = [i \in Items |-> row(i)]
      /\ change' = [i \in Items |-> now(i)]
      /\ unseen' = unseen \cup (events \ review)
  BY DEF Upsert
<1>2. events \subseteq Items /\ (~tracked => events = {})
  BY DEF Events
<1>3. \A i \in Items : Offers(items, i) # {} => FirstOffer(items, i).version \in Nat
  BY FirstOffered DEF Offer
<1>4. \A i \in Items : row(i) \in Nat \cup {Absent}
  BY <1>3 DEF ScanTypeOK
<1>5. \A i \in Stored \cup Named(items) : i \in Items
  <2>1. \A j \in DOMAIN items : items[j] \in Offer
    BY LenProperties, ElementOfSeq
  <2>2. \A o \in Offer : o.item \in Items
    BY DEF Offer
  <2> QED BY <2>1, <2>2 DEF Stored, Named
<1>6. \A i \in Stored \cup Named(items) : row(i) # Absent
  <2>1. \A n \in Nat : n # Absent
    BY DEF Absent
  <2> QED BY <1>3, <1>5, <2>1, FirstOffered DEF Stored, ScanTypeOK
<1>7. \A i \in Items : \A t \in {"new", "changed"} :
         /\ Recorded(change[i], t) \in Changes
         /\ Recorded(change[i], t).status = "pending"
         /\ t # "new" /\ change[i].type # "new" => Recorded(change[i], t).type # "new"
  BY DEF Recorded, Changes, ScanTypeOK
<1>8. \A i \in Items : type(i) \in {"new", "changed"} /\ (sourceRow[i] # Absent => type(i) # "new")
  OBVIOUS
<1>9. NoChange.status = "none"
  BY DEF NoChange
<1> HIDE DEF row, type, events
<1>10. \A i \in Items : change[i] \in Changes
  BY DEF ScanTypeOK
<1>11. \A i \in Items : change'[i] = now(i) /\ sourceRow'[i] = row(i)
  BY <1>1
<1>12. change' \in [Items -> Changes]
  <2>1. \A i \in Items : now(i) \in Changes
    BY <1>7, <1>8, <1>10
  <2> HIDE DEF now
  <2> QED BY <1>1, <2>1
<1>13. Stored \cup Named(items) \subseteq Stored'
  BY <1>5, <1>6, <1>11 DEF Stored
<1>14. ~tracked => change' = change /\ unseen' = unseen
  BY <1>1, <1>2 DEF ScanTypeOK
<1>15. \A i \in Items : change[i] # NoChange => change'[i] # NoChange
  BY <1>7, <1>8, <1>9, <1>11
<1>16. \A i \in Items : sourceRow[i] # Absent /\ change[i].type # "new" => change'[i].type # "new"
  BY <1>7, <1>8, <1>11
<1>17. \A i \in unseen' : (i \in unseen /\ change'[i] = change[i]) \/ change'[i].status = "pending"
  BY <1>1, <1>2, <1>7, <1>8, <1>11 DEF ScanTypeOK
<1>18. sourceRow' \in [Items -> Nat \cup {Absent}]
  BY <1>1, <1>4
<1>19. unseen' \subseteq Items
  BY <1>1, <1>2 DEF ScanTypeOK
<1> QED BY <1>12, <1>13, <1>14, <1>15, <1>16, <1>17, <1>18, <1>19

-----------------------------------------------------------------------------
(* Types *)

\* A changed listing lists items.
LEMMA Listings ==
    ASSUME NEW s \in Seq(Items)
    PROVE  /\ \A k \in 1 .. Len(s) + 1, i \in Items : InsertAt(s, k, i) \in Seq(Items)
           /\ \A k \in DOMAIN s : RemoveAt(s, k) \in Seq(Items)
<1>1. Len(s) \in Nat /\ DOMAIN s = 1 .. Len(s)
  BY LenProperties
<1>2. ASSUME NEW m \in 1 .. Len(s) + 1, NEW n \in 0 .. Len(s) PROVE SubSeq(s, m, n) \in Seq(Items)
  <2>1. \A j \in m .. n : s[j] \in Items
    BY <1>1, ElementOfSeq
  <2>2. m \in Int /\ n \in Int
    BY <1>1
  <2> QED BY <2>1, <2>2, SubSeqProperties
<1>3. ASSUME NEW k \in 1 .. Len(s) + 1, NEW i \in Items PROVE InsertAt(s, k, i) \in Seq(Items)
  <2>1. SubSeq(s, 1, k - 1) \in Seq(Items) /\ SubSeq(s, k, Len(s)) \in Seq(Items)
    BY <1>1, <1>2
  <2> QED BY <2>1, ConcatProperties DEF InsertAt
<1>4. ASSUME NEW k \in DOMAIN s PROVE RemoveAt(s, k) \in Seq(Items)
  <2>1. SubSeq(s, 1, k - 1) \in Seq(Items) /\ SubSeq(s, k + 1, Len(s)) \in Seq(Items)
    BY <1>1, <1>2
  <2> QED BY <2>1, ConcatProperties DEF RemoveAt
<1> QED BY <1>3, <1>4

\* The walk's record after a step that changes some of its fields.
LEMMA WalkChanges ==
    ASSUME NEW s \in Walks,
           NEW at \in {"idle", "first", "batch", "serial", "store", "finish", "all", "allDone"},
           NEW page \in Nat, NEW pages \in Seq(Seq(Offer)), NEW failed \in BOOLEAN, NEW complete \in BOOLEAN
    PROVE  /\ [s EXCEPT !.at = at, !.pages = pages] \in Walks
           /\ [s EXCEPT !.page = page, !.failed = failed, !.pages = pages] \in Walks
           /\ [s EXCEPT !.pages = pages, !.page = page, !.complete = complete, !.at = at] \in Walks
BY DEF Walks

LEMMA NoScanWalks == NoScan \in Walks /\ \A b \in BOOLEAN : [NoScan EXCEPT !.at = "first", !.tracked = b] \in Walks
<1>1. <<>> \in Seq(Seq(Offer))
  OBVIOUS
<1> QED BY <1>1 DEF NoScan, Walks


LEMMA TypedStart == ScanInit => ScanTypeOK
<1> SUFFICES ASSUME ScanInit PROVE ScanTypeOK
  OBVIOUS
<1>1. portal \in Seq(Items)
  BY DEF ScanInit
<1>2. NoChange \in Changes
  BY DEF NoChange, Changes
<1>3. metadata \in [Items -> Nat] /\ sourceRow \in [Items -> Nat \cup {Absent}]
  BY DEF ScanInit
<1>4. change \in [Items -> Changes]
  BY <1>2 DEF ScanInit
<1>5. genre \in [enabled : BOOLEAN, fetched : BOOLEAN, baseline : BOOLEAN]
  BY DEF ScanInit
<1>6. scan \in Walks
  BY NoScanWalks DEF ScanInit
<1> QED BY <1>1, <1>3, <1>4, <1>5, <1>6 DEF ScanInit, ScanTypeOK

\* A batch that reads on: the pages that answered, all of them unless one failed.
LEMMA BatchReads ==
    ASSUME PageAssumption, ScanTypeOK, Walked, NextBatch
    PROVE  \E last \in Nat, failed \in BOOLEAN, more \in Seq(Seq(Offer)) :
              /\ scan' = [scan EXCEPT !.page = last + 1, !.failed = failed, !.pages = scan.pages \o more]
              /\ scan.failed => failed
              /\ ~failed => \A p \in scan.page .. last : Named(Kept(p)) \subseteq InHand(more)
<1> DEFINE last == Least(scan.page + Batch - 1, LastPage)
           asked == [k \in 1 .. last - scan.page + 1 |-> scan.page + k - 1]
           ok(failing) == Only(asked, Range(asked) \ failing)
           more(failing) == [k \in DOMAIN ok(failing) |-> Kept(ok(failing)[k])]
           failed(failing) == scan.failed \/ failing # {}
<1>1. PICK failing \in SUBSET (scan.page .. last) :
         scan' = [scan EXCEPT !.page = last + 1, !.failed = failed(failing),
                              !.pages = scan.pages \o more(failing)]
  BY DEF NextBatch
<1>2. scan.page \in Nat \ {0} /\ scan.total \in Nat /\ scan.failed \in BOOLEAN
  BY DEF NextBatch, Walked, ScanTypeOK, Walks
<1>3. LastPage \in Nat
  BY <1>2, PagesCover DEF LastPage, ExpectedPages, Least, PageAssumption
<1>4. last \in Nat /\ scan.page <= last
  BY <1>2, <1>3 DEF Least, PageAssumption, NextBatch
<1> HIDE DEF last
<1>5. asked \in Seq(Nat \ {0}) /\ Range(asked) = scan.page .. last
  <2> DEFINE n == last - scan.page + 1
  <2>1. n \in Nat /\ \A k \in 1 .. n : scan.page + k - 1 \in Nat \ {0}
    BY <1>2, <1>4
  <2>2. asked \in Seq(Nat \ {0})
    BY <2>1, IsASeq
  <2>3. \A p \in scan.page .. last : p - scan.page + 1 \in 1 .. n /\ asked[p - scan.page + 1] = p
    BY <1>2, <1>4
  <2>4. \A k \in 1 .. n : asked[k] \in scan.page .. last
    BY <1>2, <1>4
  <2>5. DOMAIN asked = 1 .. n
    OBVIOUS
  <2> HIDE DEF asked, n
  <2> QED BY <2>2, <2>3, <2>4, <2>5 DEF Range
<1> HIDE DEF asked
<1>6. ok(failing) \in Seq(Nat \ {0}) /\ Range(ok(failing)) = (scan.page .. last) \ failing
  <2>1. ok(failing) \in Seq(Nat \ {0}) /\ Range(ok(failing)) = Range(asked) \cap (Range(asked) \ failing)
    BY <1>5, OnlySelects
  <2> QED BY <1>5, <2>1
<1> HIDE DEF ok
<1>7. \A p \in Nat \ {0} : Kept(p) \in Seq(Offer)
  BY KeptNames
<1>8. more(failing) \in Seq(Seq(Offer)) /\ DOMAIN more(failing) = DOMAIN ok(failing)
  <2>1. \A k \in 1 .. Len(ok(failing)) : Kept(ok(failing)[k]) \in Seq(Offer)
    BY <1>6, <1>7, ElementOfSeq
  <2>2. Len(ok(failing)) \in Nat /\ DOMAIN ok(failing) = 1 .. Len(ok(failing))
    BY <1>6, LenProperties
  <2> QED BY <2>1, <2>2, IsASeq
<1>9. ASSUME failing = {}, NEW p \in scan.page .. last PROVE Named(Kept(p)) \subseteq InHand(more(failing))
  <2>1. p \in Range(ok(failing))
    BY <1>6, <1>9
  <2>2. PICK k \in DOMAIN ok(failing) : ok(failing)[k] = p
    BY <2>1 DEF Range
  <2>3. more(failing)[k] = Kept(p)
    BY <2>2
  <2>4. Kept(p) \in Range(more(failing))
    BY <1>8, <2>3, Zenon DEF Range
  <2> QED BY <2>4, Zenon DEF InHand
<1>10. failed(failing) \in BOOLEAN /\ (scan.failed => failed(failing)) /\ (~failed(failing) => failing = {})
  BY <1>2
<1> HIDE DEF failed, more
<1> QED BY <1>1, <1>4, <1>8, <1>9, <1>10

\* Every step keeps the types.
LEMMA TypedStep == ASSUME PageAssumption, ScanTypeOK, Walked, [ScanNext]_scanVars PROVE ScanTypeOK'
<1> USE DEF ScanTypeOK
<1>1. Len(portal) \in Nat /\ DOMAIN portal = 1 .. Len(portal)
  BY LenProperties
<1>2. \A p \in Nat \ {0} : Kept(p) \in Seq(Offer)
  BY KeptNames
<1>3. CASE PortalChanges
  <2>1. portal' \in Seq(Items)
    BY <1>1, <1>3, Listings DEF PortalChanges
  <2>2. metadata' \in [Items -> Nat]
    BY <1>3 DEF PortalChanges
  <2> QED BY <1>3, <2>1, <2>2 DEF PortalChanges
<1>4. CASE Start
  <2>1. scan' \in Walks
    BY <1>4, NoScanWalks DEF Start
  <2> QED BY <1>4, <2>1 DEF Start
<1>5. CASE Abandon
  BY <1>5, NoScanWalks DEF Abandon, Reading, Walk
<1>6. CASE FirstPage
  <2>1. <<Kept(1)>> \in Seq(Seq(Offer))
    BY <1>2
  <2>2. PICK total \in Nat, at \in {"batch", "serial", "store"} :
           scan' = [scan EXCEPT !.pages = <<Kept(1)>>, !.total = total, !.page = 2, !.complete = TRUE,
                                !.at = at]
    BY <1>1, <1>6 DEF FirstPage
  <2>3. scan' \in Walks
    <3> DEFINE page == <<Kept(1)>>
    <3>1. page \in Seq(Seq(Offer)) /\ 2 \in Nat /\ TRUE \in BOOLEAN
      BY <2>1
    <3>2. scan' = [scan EXCEPT !.pages = page, !.total = total, !.page = 2, !.complete = TRUE, !.at = at]
      BY <2>2
    <3> HIDE DEF page
    <3> QED BY <3>1, <3>2 DEF Walks
  <2> QED BY <1>6, <2>3 DEF FirstPage, Reading, Walk
<1>7. CASE NextBatch
  <2>1. PICK last \in Nat, failed \in BOOLEAN, more \in Seq(Seq(Offer)) :
           scan' = [scan EXCEPT !.page = last + 1, !.failed = failed, !.pages = scan.pages \o more]
    BY <1>7, BatchReads
  <2>2. last + 1 \in Nat /\ scan.pages \o more \in Seq(Seq(Offer))
    BY ConcatProperties DEF Walks
  <2>3. scan' \in Walks
    BY <2>1, <2>2, WalkChanges
  <2> QED BY <1>7, <2>3 DEF NextBatch, Reading, Walk
<1>8. CASE BatchesEnd
  <2> DEFINE complete == LastPage >= ExpectedPages /\ ~scan.failed /\ ~cancel
  <2>1. complete \in BOOLEAN /\ scan' = [scan EXCEPT !.at = "store", !.complete = complete]
    BY <1>8 DEF BatchesEnd
  <2> HIDE DEF complete
  <2>2. scan' \in Walks
    BY <2>1 DEF Walks
  <2> QED BY <1>8, <2>2 DEF BatchesEnd, Reading, Walk
<1>9. CASE SerialPage
  <2> DEFINE short == Len(Kept(scan.page)) < PageSize
             at == IF short THEN "store" ELSE "serial"
             pages == Append(scan.pages, Kept(scan.page))
             page == scan.page + 1
  <2>1. short \in BOOLEAN /\ at \in {"store", "serial"} /\ page \in Nat /\ pages \in Seq(Seq(Offer))
    <3>1. scan.page \in Nat \ {0} /\ scan.pages \in Seq(Seq(Offer))
      BY <1>9 DEF SerialPage, Walked, Walks
    <3> QED BY <1>2, <3>1, AppendProperties
  <2>2. scan' = [scan EXCEPT !.pages = pages, !.page = page, !.complete = short, !.at = at]
    BY <1>9 DEF SerialPage
  <2> HIDE DEF short, at, pages, page
  <2>3. scan' \in Walks
    BY <2>1, <2>2, WalkChanges
  <2> QED BY <1>9, <2>3 DEF SerialPage, Reading, Walk
<1>10. CASE SerialEnd
  <2>1. scan' \in Walks
    BY <1>10 DEF SerialEnd, Walks
  <2> QED BY <1>10, <2>1 DEF SerialEnd, Reading, Walk
<1>11. CASE StorePage
  <2>1. Head(scan.pages) \in Seq(Offer) /\ Tail(scan.pages) \in Seq(Seq(Offer)) /\ scan.tracked \in BOOLEAN
    BY <1>11, HeadInHand DEF StorePage, Walks
  <2>2. scan' \in Walks
    BY <1>11, <2>1 DEF StorePage, Walks
  <2>3. sourceRow' \in [Items -> Nat \cup {Absent}] /\ change' \in [Items -> Changes] /\ unseen' \subseteq Items
    BY <1>11, <2>1, UpsertStores DEF StorePage
  <2> QED BY <1>11, <2>2, <2>3 DEF StorePage, Walk
<1>12. CASE StoreEnd
  <2> DEFINE complete == scan.complete /\ ~cancel
  <2>1. complete \in BOOLEAN /\ <<>> \in Seq(Seq(Offer))
    OBVIOUS
  <2>2. scan' = [scan EXCEPT !.at = "finish", !.complete = complete, !.pages = <<>>]
    BY <1>12 DEF StoreEnd
  <2> HIDE DEF complete
  <2>3. scan' \in Walks
    BY <2>1, <2>2 DEF Walks
  <2> QED BY <1>12, <2>3 DEF StoreEnd, Reading, Walk
<1>13. CASE Finish \/ FinishAll
  <2>1. PICK b \in BOOLEAN : SetBaseline(b)
    BY <1>13 DEF Finish, FinishAll, Walks
  <2>2. known' \subseteq Items
    BY <1>1, <2>1, ElementOfSeq DEF SetBaseline, ToSet
  <2>3. scan' \in Walks
    BY <2>1, NoScanWalks DEF SetBaseline
  <2>4. genre' \in [enabled : BOOLEAN, fetched : BOOLEAN, baseline : BOOLEAN]
    BY <2>1 DEF SetBaseline
  <2> QED BY <2>1, <2>2, <2>3, <2>4 DEF SetBaseline
<1>14. CASE AllChannels
  <2>1. <<Entries(1, Len(portal))>> \in Seq(Seq(Offer))
    BY <1>1, EntriesName
  <2>2. scan' \in Walks
    BY <1>14, <2>1, WalkChanges DEF AllChannels
  <2> QED BY <1>14, <2>2 DEF AllChannels, Reading, Walk
<1>15. CASE StoreAll
  <2>1. CASE cancel
    BY <1>15, <2>1, NoScanWalks DEF StoreAll, Walk
  <2>2. CASE ~cancel
    <3>1. Head(scan.pages) \in Seq(Offer) /\ scan.tracked \in BOOLEAN
      BY <1>15, HeadInHand, EmptySeq DEF StoreAll, Walks, Walked
    <3>2. /\ Upsert(Head(scan.pages), scan.tracked)
          /\ scan' = [scan EXCEPT !.at = "allDone", !.pages = <<>>]
      BY <1>15, <2>2 DEF StoreAll
    <3>3. sourceRow' \in [Items -> Nat \cup {Absent}] /\ change' \in [Items -> Changes] /\ unseen' \subseteq Items
      BY <3>1, <3>2, UpsertStores
    <3>4. <<>> \in Seq(Seq(Offer))
      OBVIOUS
    <3>5. scan' \in Walks
      BY <3>2, <3>4 DEF Walks
    <3> QED BY <1>15, <3>3, <3>5 DEF StoreAll, Walk
  <2> QED BY <2>1, <2>2
<1>16. CASE CancelScan
  BY <1>16 DEF CancelScan
<1>17. CASE ToggleGenre
  BY <1>17 DEF ToggleGenre
<1>18. ASSUME NEW ids \in SUBSET Items, ReviewReads(ids) PROVE ScanTypeOK'
  BY <1>18 DEF ReviewReads
<1>19. ASSUME NEW verdict \in {"reviewed", "ignored"}, ReviewWrites(verdict) PROVE ScanTypeOK'
  <2>1. change' \in [Items -> Changes]
    BY <1>19 DEF ReviewWrites, Changes
  <2> QED BY <1>19, <2>1 DEF ReviewWrites
<1>20. CASE UNCHANGED scanVars
  BY <1>20 DEF scanVars
<1> QED BY <1>3, <1>4, <1>5, <1>6, <1>7, <1>8, <1>9, <1>10, <1>11, <1>12, <1>13, <1>14, <1>15, <1>16,
           <1>17, <1>18, <1>19, <1>20 DEF ScanNext, Scan

-----------------------------------------------------------------------------
(* How far a walk has come *)


\* Every step keeps what is said of the walk.
LEMMA WalkedStep == ASSUME PageAssumption, ScanTypeOK, ScanTypeOK', Walked, [ScanNext]_scanVars PROVE Walked'
<1> USE DEF ScanTypeOK
<1>1. Len(portal) \in Nat /\ DOMAIN portal = 1 .. Len(portal) /\ PageSize \in Nat \ {0}
  BY LenProperties DEF PageAssumption
<1>2. CASE scan'.at \in {"idle", "first"}
  BY <1>2 DEF Walked
<1>3. CASE PortalChanges
  BY <1>3 DEF PortalChanges, Walked
<1>4. ASSUME UNCHANGED <<scan, foreign, portal, sourceRow, steady>> PROVE Walked'
  BY <1>4 DEF Walked, Reached, Stored, Measured
<1>5. ASSUME Reading PROVE portal' = portal /\ foreign' = foreign /\ sourceRow' = sourceRow /\ Stored' = Stored /\ steady' = steady
  BY <1>5 DEF Reading, Walk, Stored
<1>6. CASE FirstPage
  <2>1. portal' = portal /\ foreign' = foreign /\ Stored' = Stored
    BY <1>5, <1>6 DEF FirstPage
  <2>2. PICK reported \in BOOLEAN :
           LET total == IF reported THEN Len(portal) ELSE 0 IN
           scan' = [scan EXCEPT !.pages = <<Kept(1)>>, !.total = total, !.page = 2, !.complete = TRUE,
                                !.at = IF total > 0 THEN "batch"
                                       ELSE IF Len(Kept(1)) >= PageSize THEN "serial" ELSE "store"]
    BY <1>6 DEF FirstPage
  <2>3. /\ scan'.pages = <<Kept(1)>> /\ scan'.page = 2
        /\ scan'.at \in {"batch", "serial", "store"}
        /\ scan'.at = "batch" => scan'.total = Len(portal)
        /\ scan'.at \in {"serial", "store"} => scan'.total = 0
        /\ scan'.at = "store" => ~ (Len(Kept(1)) >= PageSize)
    BY <1>1, <2>2 DEF Walks
  <2>4. /\ Kept(1) \in Seq(Offer)
        /\ \A k \in 1 .. Len(portal) : 0 < k /\ k <= PageSize => portal[k] \in foreign \cup Named(Kept(1))
        /\ foreign = {} /\ Len(Kept(1)) < PageSize => Len(portal) < PageSize
    <3>1. (1 - 1) * PageSize = 0 /\ 1 * PageSize = PageSize
      BY <1>1
    <3> QED BY <3>1, KeptNames
  <2>5. Named(Kept(1)) \subseteq InHand(<<Kept(1)>>)
    BY DEF InHand, Range
  <2>6. \A k \in 1 .. Len(portal) : k <= PageSize => portal[k] \in foreign \cup InHand(<<Kept(1)>>)
    <3>1. \A k \in 1 .. Len(portal) : 0 < k
      BY <1>1
    <3> QED BY <2>4, <2>5, <3>1
  <2>7. scan'.at \in {"batch", "serial"} => Reached((scan.page - 1) * PageSize, scan.pages)'
    <3>1. (2 - 1) * PageSize = PageSize
      BY <1>1
    <3> QED BY <2>1, <2>3, <2>6, <3>1 DEF Reached
  <2>8. scan'.at = "store" /\ Measured' => Reached(Len(portal), scan.pages)'
    <3>1. ASSUME scan'.at = "store", Measured' PROVE Len(portal) < PageSize
      <4>1. Len(Kept(1)) \in Nat
        BY <2>4, LenProperties
      <4>2. foreign = {}
        BY <2>1, <2>3, <3>1 DEF Measured
      <4> QED BY <1>1, <2>3, <2>4, <3>1, <4>1, <4>2
    <3>2. scan'.at = "store" /\ Measured' => \A k \in 1 .. Len(portal) : k <= PageSize
      BY <1>1, <3>1
    <3> QED BY <2>1, <2>3, <2>6, <3>2 DEF Reached
  <2> QED BY <2>1, <2>3, <2>7, <2>8 DEF Walked
<1>7. CASE NextBatch
  <2>1. portal' = portal /\ foreign' = foreign /\ Stored' = Stored /\ steady' = steady
    BY <1>5, <1>7 DEF NextBatch
  <2>2. PICK last \in Nat, failed \in BOOLEAN, more \in Seq(Seq(Offer)) :
           /\ scan' = [scan EXCEPT !.page = last + 1, !.failed = failed, !.pages = scan.pages \o more]
           /\ scan.failed => failed
           /\ ~failed => \A p \in scan.page .. last : Named(Kept(p)) \subseteq InHand(more)
    BY <1>7, BatchReads
  <2>3. /\ scan'.at = "batch" /\ scan'.page = last + 1 /\ scan'.pages = scan.pages \o more
        /\ scan'.failed = failed /\ scan'.total = scan.total /\ scan.at = "batch"
    BY <1>7, <2>2 DEF NextBatch, Walks
  <2>4. scan.page \in Nat \ {0} /\ scan.pages \in Seq(Seq(Offer)) /\ last + 1 - 1 = last
    BY <2>3 DEF Walked, Walks
  <2>5. ASSUME steady, ~failed PROVE Reached(last * PageSize, scan.pages \o more)
    <3>1. Reached((scan.page - 1) * PageSize, scan.pages)
      BY <2>2, <2>3, <2>5 DEF Walked
    <3> QED BY <2>2, <2>4, <2>5, <3>1, ReachedFurther
  <2>6. ASSUME steady, ~failed PROVE Reached((scan.page - 1) * PageSize, scan.pages)'
    BY <2>1, <2>3, <2>4, <2>5, <2>6 DEF Reached
  <2> QED BY <2>1, <2>3, <2>6 DEF Walked
<1>8. CASE BatchesEnd
  <2>1. portal' = portal /\ foreign' = foreign /\ Stored' = Stored /\ steady' = steady
    BY <1>5, <1>8 DEF BatchesEnd
  <2> DEFINE done == LastPage >= ExpectedPages /\ ~scan.failed /\ ~cancel
  <2>2. scan' = [scan EXCEPT !.at = "store", !.complete = done] /\ scan.at = "batch"
    BY <1>8 DEF BatchesEnd
  <2>3. done => scan.page > LastPage /\ LastPage >= ExpectedPages /\ ~scan.failed
    BY <1>8 DEF BatchesEnd
  <2> HIDE DEF done
  <2>4. scan'.at = "store" /\ scan'.complete = done /\ scan'.pages = scan.pages
    BY <2>2 DEF Walks
  <2>5. ASSUME steady, done PROVE Reached(Len(portal), scan.pages)
    <3>1. scan.total = Len(portal) /\ Reached((scan.page - 1) * PageSize, scan.pages)
      BY <2>2, <2>3, <2>5 DEF Walked
    <3>2. ExpectedPages \in Nat /\ Len(portal) <= ExpectedPages * PageSize
      BY <1>1, <3>1, PagesCover DEF ExpectedPages
    <3>3. LastPage \in Nat /\ scan.page \in Nat \ {0}
      BY <2>2, <3>2 DEF LastPage, Least, PageAssumption, Walked, Walks
    <3>4. ExpectedPages <= scan.page - 1 /\ scan.page - 1 \in Nat
      BY <2>3, <2>5, <3>2, <3>3
    <3> DEFINE all == ExpectedPages * PageSize
               here == (scan.page - 1) * PageSize
    <3>5. all \in Nat /\ here \in Nat
      BY <1>1, <3>2, <3>4
    <3>6. all <= here
      <4>1. CASE ExpectedPages = scan.page - 1
        BY <3>5, <4>1
      <4>2. CASE ExpectedPages < scan.page - 1
        <5>1. all + PageSize <= here
          BY <1>1, <3>2, <3>4, <4>2, Multiples
        <5> HIDE DEF all, here
        <5> QED BY <1>1, <3>5, <5>1
      <4> QED BY <3>2, <3>4, <4>1, <4>2
    <3>7. Len(portal) <= all /\ Reached(here, scan.pages)
      BY <3>1, <3>2
    <3> HIDE DEF all, here
    <3>8. \A k \in 1 .. Len(portal) : k <= here
      BY <1>1, <3>5, <3>6, <3>7
    <3> QED BY <3>7, <3>8 DEF Reached
  <2>6. ASSUME steady, done PROVE Reached(Len(portal), scan.pages)'
    BY <2>1, <2>4, <2>5, <2>6 DEF Reached
  <2> QED BY <2>1, <2>4, <2>6 DEF Walked
<1>9. CASE SerialPage
  <2>1. portal' = portal /\ foreign' = foreign /\ Stored' = Stored /\ steady' = steady
    BY <1>5, <1>9 DEF SerialPage
  <2> DEFINE p == scan.page
             short == Len(Kept(p)) < PageSize
             pages == scan.pages \o <<Kept(p)>>
  <2>2. p \in Nat \ {0} /\ scan.pages \in Seq(Seq(Offer)) /\ scan.at = "serial"
    BY <1>9 DEF SerialPage, Walked, Walks
  <2>3. Kept(p) \in Seq(Offer)
    BY <2>2, KeptNames
  <2>4. scan' = [scan EXCEPT !.pages = Append(scan.pages, Kept(p)), !.page = p + 1, !.complete = short,
                             !.at = IF short THEN "store" ELSE "serial"]
    BY <1>9 DEF SerialPage
  <2>5. Append(scan.pages, Kept(p)) = pages /\ <<Kept(p)>> \in Seq(Seq(Offer))
    <3>1. <<Kept(p)>> \in Seq(Seq(Offer))
      BY <2>3
    <3>2. Append(scan.pages, Kept(p)) = scan.pages \o <<Kept(p)>>
      BY <2>2, <2>3, AppendIsConcat
    <3> QED BY <3>1, <3>2
  <2>6. /\ scan'.pages = pages /\ scan'.page = p + 1 /\ p + 1 - 1 = p
        /\ scan'.at = IF short THEN "store" ELSE "serial"
        /\ scan'.total = 0
    BY <2>2, <2>4, <2>5 DEF Walks, Walked
  <2>7. Named(Kept(p)) \subseteq InHand(<<Kept(p)>>)
    BY DEF InHand, Range
  <2>8. ASSUME steady PROVE Reached(p * PageSize, pages)
    <3>1. Reached((p - 1) * PageSize, scan.pages)
      BY <2>2, <2>8 DEF Walked
    <3>2. \A q \in p .. p : Named(Kept(q)) \subseteq InHand(<<Kept(p)>>)
      <4>1. \A q \in p .. p : q = p
        BY <2>2
      <4> HIDE DEF p
      <4> QED BY <2>7, <4>1
    <3> QED BY <2>2, <2>5, <3>1, <3>2, ReachedFurther
  <2>9. foreign = {} /\ short => Len(portal) < p * PageSize
    BY <2>2, KeptNames
  <2>10. p * PageSize \in Nat
    BY <1>1, <2>2
  <2> DEFINE far == p * PageSize
  <2> HIDE DEF far, pages
  <2>11. ASSUME steady, ~short PROVE Reached((scan.page - 1) * PageSize, scan.pages)'
    <3>1. Reached(far, pages)
      BY <2>8, <2>11 DEF far
    <3>2. (scan'.page - 1) * PageSize = far
      <4>1. scan'.page - 1 = p
        BY <2>2, <2>6
      <4> HIDE DEF p
      <4> QED BY <4>1 DEF far
    <3> QED BY <2>1, <2>6, <3>1, <3>2 DEF Reached
  <2>12. ASSUME steady, short, Measured' PROVE Reached(Len(portal), scan.pages)'
    <3>1. Reached(far, pages) /\ Len(portal) < far /\ far \in Nat
      <4>1. foreign = {}
        BY <2>1, <2>6, <2>12 DEF Measured
      <4> QED BY <2>8, <2>9, <2>10, <2>12, <4>1 DEF far
    <3>2. \A k \in 1 .. Len(portal) : k <= far
      BY <1>1, <3>1
    <3> QED BY <2>1, <2>6, <3>1, <3>2 DEF Reached
  <2>13. scan'.page >= 1
    BY <2>2, <2>6
  <2> HIDE DEF short, p
  <2> QED BY <2>1, <2>6, <2>11, <2>12, <2>13 DEF Walked
<1>10. CASE SerialEnd
  <2>1. scan'.at = "store" /\ scan'.complete = FALSE
    BY <1>10 DEF SerialEnd, Walks
  <2> QED BY <2>1 DEF Walked

<1>11. CASE StorePage
  <2> DEFINE first == Head(scan.pages)
             rest == Tail(scan.pages)
  <2>1. /\ scan.pages \in Seq(Seq(Offer)) /\ scan.pages # <<>> /\ scan.at = "store" /\ scan.tracked \in BOOLEAN
        /\ portal' = portal /\ foreign' = foreign /\ steady' = steady /\ Upsert(first, scan.tracked)
        /\ scan' = [scan EXCEPT !.pages = rest]
    BY <1>11 DEF StorePage, Walk, Walks
  <2>2. first \in Seq(Offer) /\ InHand(scan.pages) \subseteq Named(first) \cup InHand(rest)
    BY <2>1, HeadInHand
  <2>3. Stored \cup Named(first) \subseteq Stored'
    BY <2>1, <2>2, UpsertStores
  <2>4. scan'.at = "store" /\ scan'.pages = rest /\ scan'.complete = scan.complete /\ Measured' = Measured
    BY <2>1 DEF Walks, Measured
  <2> HIDE DEF first, rest
  <2>5. ASSUME steady, scan.complete, Measured PROVE Reached(Len(portal), scan.pages)'
    <3>1. Reached(Len(portal), scan.pages)
      BY <2>1, <2>5 DEF Walked
    <3>2. \A k \in 1 .. Len(portal) : portal[k] \in foreign \cup Stored \cup InHand(scan.pages)
      BY <1>1, <3>1 DEF Reached
    <3>3. Stored \cup InHand(scan.pages) \subseteq Stored' \cup InHand(rest)
      BY <2>2, <2>3
    <3> QED BY <2>1, <2>4, <3>2, <3>3 DEF Reached
  <2> QED BY <2>1, <2>4, <2>5 DEF Walked
<1>12. CASE StoreEnd
  <2>1. portal' = portal /\ foreign' = foreign /\ Stored' = Stored /\ steady' = steady
    BY <1>5, <1>12 DEF StoreEnd
  <2> DEFINE complete == scan.complete /\ ~cancel
  <2>2. /\ scan.at = "store" /\ (complete => scan.complete /\ scan.pages = <<>>)
        /\ scan' = [scan EXCEPT !.at = "finish", !.complete = complete, !.pages = <<>>]
    BY <1>12 DEF StoreEnd
  <2> HIDE DEF complete
  <2>3. scan'.at = "finish" /\ scan'.complete = complete /\ scan'.pages = <<>> /\ Measured' = Measured
    BY <2>1, <2>2 DEF Walks, Measured
  <2>4. ASSUME steady, complete, Measured PROVE Reached(Len(portal), scan.pages)'
    BY <2>1, <2>2, <2>3, <2>4 DEF Reached, Walked
  <2> QED BY <2>1, <2>3, <2>4 DEF Walked
<1>13. CASE AllChannels
  <2> DEFINE all == Entries(1, Len(portal))
  <2>1. portal' = portal /\ foreign' = foreign /\ Stored' = Stored /\ steady' = steady
    BY <1>5, <1>13 DEF AllChannels
  <2>2. scan'.at = "all" /\ scan'.pages = <<all>>
    BY <1>13 DEF AllChannels, Walks
  <2>3. \A k \in 1 .. Len(portal) : portal[k] \in Named(all)
    <3>1. 1 \in Nat \ {0} /\ Len(portal) <= Len(portal)
      BY <1>1
    <3> QED BY <1>1, <3>1, EntriesName
  <2> HIDE DEF all
  <2>4. Named(all) \subseteq InHand(<<all>>) /\ Len(<<all>>) = 1
    BY DEF InHand, Range
  <2>5. Reached(Len(portal), scan.pages)'
    BY <2>1, <2>2, <2>3, <2>4 DEF Reached
  <2> QED BY <2>2, <2>4, <2>5 DEF Walked
<1>14. CASE StoreAll /\ ~cancel
  <2> DEFINE first == Head(scan.pages)
             rest == Tail(scan.pages)
  <2>1. /\ scan.pages \in Seq(Seq(Offer)) /\ Len(scan.pages) = 1 /\ scan.at = "all" /\ scan.tracked \in BOOLEAN
        /\ portal' = portal /\ foreign' = foreign /\ steady' = steady /\ Upsert(first, scan.tracked)
        /\ scan' = [scan EXCEPT !.at = "allDone", !.pages = <<>>]
    BY <1>14 DEF StoreAll, Walk, Walks, Walked
  <2>2. scan.pages # <<>> /\ rest = <<>>
    <3>1. scan.pages # <<>>
      BY <2>1, EmptySeq
    <3>2. rest \in Seq(Seq(Offer)) /\ Len(rest) = 0
      BY <2>1, <3>1, HeadTailProperties
    <3> QED BY <3>1, <3>2, EmptySeq
  <2>3. first \in Seq(Offer) /\ InHand(scan.pages) \subseteq Named(first) \cup InHand(rest)
    BY <2>1, <2>2, HeadInHand
  <2>4. Stored \cup Named(first) \subseteq Stored'
    BY <2>1, <2>3, UpsertStores
  <2>5. scan'.at = "allDone" /\ scan'.pages = <<>>
    BY <2>1 DEF Walks
  <2> HIDE DEF first, rest
  <2>6. ASSUME steady PROVE Reached(Len(portal), scan.pages)'
    <3>1. Reached(Len(portal), scan.pages)
      BY <2>1, <2>6 DEF Walked
    <3>2. \A k \in 1 .. Len(portal) : portal[k] \in foreign \cup Stored \cup InHand(scan.pages)
      BY <1>1, <3>1 DEF Reached
    <3>3. Stored \cup InHand(scan.pages) \subseteq Stored' \cup InHand(rest)
      BY <2>3, <2>4
    <3> QED BY <2>1, <2>2, <2>5, <3>2, <3>3 DEF Reached
  <2> QED BY <2>1, <2>5, <2>6 DEF Walked
<1>15. CASE Start \/ Abandon \/ Finish \/ FinishAll \/ (StoreAll /\ cancel)
  <2>1. scan'.at \in {"idle", "first"}
    <3>1. NoScan.at = "idle"
      BY DEF NoScan
    <3>2. CASE Start
      BY <3>2 DEF Start, NoScan
    <3>3. CASE Abandon \/ Finish \/ FinishAll \/ (StoreAll /\ cancel)
      <4>1. scan' = NoScan
        BY <3>3, Zenon DEF Abandon, Finish, FinishAll, SetBaseline, StoreAll
      <4> QED BY <3>1, <4>1
    <3> QED BY <1>15, <3>2, <3>3
  <2> QED BY <1>2, <2>1
<1>16. CASE CancelScan \/ ToggleGenre
  BY <1>4, <1>16 DEF CancelScan, ToggleGenre
<1>17. ASSUME NEW ids \in SUBSET Items, ReviewReads(ids) PROVE Walked'
  BY <1>4, <1>17 DEF ReviewReads
<1>18. ASSUME NEW verdict \in {"reviewed", "ignored"}, ReviewWrites(verdict) PROVE Walked'
  BY <1>4, <1>18 DEF ReviewWrites
<1>19. CASE UNCHANGED scanVars
  BY <1>4, <1>19 DEF scanVars
<1> QED BY <1>3, <1>6, <1>7, <1>8, <1>9, <1>10, <1>11, <1>12, <1>13, <1>14, <1>15, <1>16, <1>17, <1>18,
           <1>19 DEF ScanNext, Scan

-----------------------------------------------------------------------------
(* Baseline and reviews *)

\* A walk that sets the baseline while the panel stood still has stored all it lists.
LEMMA BaselineStored ==
    ASSUME ScanTypeOK, Walked, steady, Measured,
           (scan.at = "finish" /\ scan.complete) \/ scan.at = "allDone"
    PROVE  \A i \in ToSet(portal) \ foreign : i \in Items /\ sourceRow[i] # Absent
<1>1. Len(portal) \in Nat /\ DOMAIN portal = 1 .. Len(portal)
  BY LenProperties DEF ScanTypeOK
<1>2. Reached(Len(portal), <<>>)
  BY DEF Walked
<1>3. InHand(<<>>) = {}
  BY DEF InHand, Range
<1>4. \A k \in 1 .. Len(portal) : portal[k] \in foreign \cup Stored
  BY <1>1, <1>2, <1>3 DEF Reached
<1> QED BY <1>1, <1>4 DEF ToSet, Stored

\* Storing a page of a walk keeps what is said of the baseline, and of reviews.
LEMMA UpsertBased ==
    ASSUME ScanTypeOK, Based, NEW items \in Seq(Offer), Upsert(items, scan.tracked),
           UNCHANGED <<genre, review, known>>, scan'.tracked = scan.tracked
    PROVE  Based'
<1>1. scan.tracked \in BOOLEAN
  BY DEF ScanTypeOK, Walks
<1>2. /\ Stored \subseteq Stored'
      /\ ~scan.tracked => change' = change
      /\ \A i \in Items : change[i] # NoChange => change'[i] # NoChange
      /\ \A i \in Items : sourceRow[i] # Absent /\ change[i].type # "new" => change'[i].type # "new"
  BY <1>1, UpsertStores
<1>3. NothingBeforeBaseline'
  BY <1>1, <1>2 DEF Based, NothingBeforeBaseline
<1>4. \A i \in review' : change'[i] # NoChange
  BY <1>2 DEF Based, ScanTypeOK
<1>5. \A i \in known' : sourceRow'[i] # Absent /\ change'[i].type # "new"
  BY <1>2 DEF Based, ScanTypeOK, Stored
<1> QED BY <1>3, <1>4, <1>5 DEF Based

LEMMA UpsertApart ==
    ASSUME ScanTypeOK, Apart, NEW items \in Seq(Offer), Upsert(items, scan.tracked), review' = review
    PROVE  Apart'
<1>1. scan.tracked \in BOOLEAN
  BY DEF ScanTypeOK, Walks
<1>2. \A i \in unseen' : (i \in unseen /\ change'[i] = change[i]) \/ change'[i].status = "pending"
  BY <1>1, UpsertStores
<1>3. unseen' \cap review = {}
  BY DEF Upsert, Apart
<1> QED BY <1>2, <1>3 DEF Apart, ChangesNotLost

\* The two actions that store a page.
LEMMA PageStored ==
    ASSUME ScanTypeOK, Walked, StorePage \/ (StoreAll /\ ~cancel)
    PROVE  /\ scan.at # "idle" /\ scan'.tracked = scan.tracked
           /\ \E items \in Seq(Offer) : Upsert(items, scan.tracked)
           /\ UNCHANGED <<genre, review, known>>
<1>1. scan.pages \in Seq(Seq(Offer)) /\ scan.at \in {"store", "all"} /\ scan.pages # <<>>
  BY EmptySeq DEF ScanTypeOK, Walks, Walked, StorePage, StoreAll
<1>2. Head(scan.pages) \in Seq(Offer)
  BY <1>1, HeadInHand
<1>3. Upsert(Head(scan.pages), scan.tracked) /\ UNCHANGED <<genre, review, known>>
  BY DEF StorePage, StoreAll, Walk
<1>4. scan'.tracked = scan.tracked
  BY DEF StorePage, StoreAll, ScanTypeOK, Walks
<1> QED BY <1>1, <1>2, <1>3, <1>4

\* A step of a walk that neither begins it, stores a page nor ends it.
ReadsOn == FirstPage \/ NextBatch \/ BatchesEnd \/ SerialPage \/ SerialEnd \/ StoreEnd \/ AllChannels

LEMMA ReadingOn ==
    ASSUME ScanTypeOK, ReadsOn
    PROVE  Reading /\ scan.at # "idle" /\ scan'.tracked = scan.tracked
<1>1. Reading /\ scan.at # "idle"
  BY DEF ReadsOn, FirstPage, NextBatch, BatchesEnd, SerialPage, SerialEnd, StoreEnd, AllChannels
<1>2. scan'.tracked = scan.tracked
  BY DEF ReadsOn, FirstPage, NextBatch, BatchesEnd, SerialPage, SerialEnd, StoreEnd, AllChannels, ScanTypeOK, Walks
<1> QED BY <1>1, <1>2

\* Every step keeps what is said of the baseline.
LEMMA BasedStep == ASSUME ScanTypeOK, Walked, Based, [ScanNext]_scanVars PROVE Based'
<1>1. ASSUME UNCHANGED <<genre, change, review, known, sourceRow>>, scan'.tracked => genre.baseline PROVE Based'
  BY <1>1 DEF Based, NothingBeforeBaseline
<1>2. ~NoScan.tracked
  BY DEF NoScan
<1>3. CASE PortalChanges \/ CancelScan
  BY <1>1, <1>3 DEF PortalChanges, CancelScan, Based
<1>4. CASE Start
  <2>1. scan'.tracked = genre.baseline
    BY <1>4 DEF Start, NoScan
  <2> QED BY <1>1, <1>4, <2>1 DEF Start
<1>5. CASE Abandon \/ (StoreAll /\ cancel)
  <2>1. scan' = NoScan /\ UNCHANGED <<genre, change, review, known, sourceRow>>
    BY <1>5 DEF Abandon, Reading, StoreAll, Walk
  <2> QED BY <1>1, <1>2, <2>1
<1>6. CASE ReadsOn
  BY <1>1, <1>6, ReadingOn DEF Reading, Walk, Based
<1>7. CASE StorePage \/ (StoreAll /\ ~cancel)
  BY <1>7, PageStored, UpsertBased
<1>8. CASE Finish \/ FinishAll
  <2>1. PICK b \in BOOLEAN : SetBaseline(b) /\ (b => (scan.at = "finish" /\ scan.complete) \/ scan.at = "allDone")
    BY <1>8 DEF Finish, FinishAll, ScanTypeOK, Walks
  <2>2. genre' = [genre EXCEPT !.fetched = TRUE, !.baseline = genre.baseline \/ b] /\ scan' = NoScan
        /\ UNCHANGED <<sourceRow, change, review>>
    BY <2>1 DEF SetBaseline
  <2>3. genre.baseline => genre'.baseline
    BY <2>2 DEF ScanTypeOK
  <2>4. CASE known' = known
    BY <1>2, <2>2, <2>3, <2>4 DEF Based, NothingBeforeBaseline
  <2>5. CASE known' = ToSet(portal) \ foreign /\ b /\ steady /\ Measured /\ ~genre.baseline
    <3>1. \A i \in known' : i \in Items /\ sourceRow[i] # Absent
      BY <2>1, <2>5, BaselineStored
    <3>2. \A i \in Items : change[i] = NoChange
      BY <2>5 DEF Based, NothingBeforeBaseline
    <3>3. \A i \in known' : sourceRow'[i] # Absent /\ change'[i].type # "new"
      BY <2>2, <3>1, <3>2 DEF NoChange
    <3> QED BY <1>2, <2>2, <2>3, <3>3 DEF Based, NothingBeforeBaseline
  <2> QED BY <2>1, <2>4, <2>5 DEF SetBaseline
<1>9. CASE ToggleGenre
  <2>1. genre'.baseline = genre.baseline
    BY <1>9 DEF ToggleGenre, ScanTypeOK
  <2> QED BY <1>9, <2>1 DEF ToggleGenre, Based, NothingBeforeBaseline
<1>10. ASSUME NEW ids \in SUBSET Items, ReviewReads(ids) PROVE Based'
  <2>1. \A i \in review' : change'[i] # NoChange
    BY <1>10 DEF ReviewReads, NoChange
  <2> QED BY <1>10, <2>1 DEF ReviewReads, Based, NothingBeforeBaseline
<1>11. ASSUME NEW verdict \in {"reviewed", "ignored"}, ReviewWrites(verdict) PROVE Based'
  <2>1. \A i \in Items : change'[i].type = change[i].type /\ (i \notin review => change'[i] = change[i])
    BY <1>11 DEF ReviewWrites, ScanTypeOK, Changes
  <2>2. genre.baseline
    BY <1>11 DEF ReviewWrites, Based, NothingBeforeBaseline, ScanTypeOK
  <2>3. UNCHANGED <<genre, scan, known, sourceRow>> /\ review' = {}
    BY <1>11 DEF ReviewWrites
  <2>4. NothingBeforeBaseline'
    BY <2>2, <2>3 DEF NothingBeforeBaseline
  <2>5. \A i \in known' : sourceRow'[i] # Absent /\ change'[i].type # "new"
    BY <2>1, <2>3 DEF Based, ScanTypeOK
  <2> QED BY <2>3, <2>4, <2>5 DEF Based
<1>12. CASE UNCHANGED scanVars
  BY <1>1, <1>12 DEF scanVars, Based
<1> QED BY <1>3, <1>4, <1>5, <1>6, <1>7, <1>8, <1>9, <1>10, <1>11, <1>12 DEF ScanNext, Scan, ReadsOn

\* Every step keeps what was recorded for the next review.
LEMMA ApartStep == ASSUME ScanTypeOK, Walked, Apart, [ScanNext]_scanVars PROVE Apart'
<1>1. ASSUME UNCHANGED <<change, review, unseen>> PROVE Apart'
  BY <1>1 DEF Apart, ChangesNotLost
<1>2. CASE PortalChanges \/ CancelScan \/ ToggleGenre
  BY <1>1, <1>2 DEF PortalChanges, CancelScan, ToggleGenre
<1>3. CASE Start
  BY <1>1, <1>3 DEF Start
<1>4. CASE Abandon \/ (StoreAll /\ cancel)
  BY <1>1, <1>4 DEF Abandon, Reading, StoreAll, Walk
<1>5. CASE ReadsOn
  BY <1>1, <1>5, ReadingOn DEF Reading, Walk
<1>6. CASE StorePage \/ (StoreAll /\ ~cancel)
  BY <1>6, PageStored, UpsertApart
<1>7. CASE Finish \/ FinishAll
  BY <1>1, <1>7 DEF Finish, FinishAll, SetBaseline
<1>8. ASSUME NEW ids \in SUBSET Items, ReviewReads(ids) PROVE Apart'
  BY <1>8 DEF ReviewReads, Apart, ChangesNotLost
<1>9. ASSUME NEW verdict \in {"reviewed", "ignored"}, ReviewWrites(verdict) PROVE Apart'
  <2>1. \A i \in Items : i \notin review => change'[i] = change[i]
    BY <1>9 DEF ReviewWrites, ScanTypeOK
  <2> QED BY <1>9, <2>1 DEF ReviewWrites, Apart, ChangesNotLost, ScanTypeOK
<1>10. CASE UNCHANGED scanVars
  BY <1>1, <1>10 DEF scanVars
<1> QED BY <1>2, <1>3, <1>4, <1>5, <1>6, <1>7, <1>8, <1>9, <1>10 DEF ScanNext, Scan, ReadsOn
-----------------------------------------------------------------------------
(* The invariant, and what it says *)

LEMMA ScanInvHolds == ASSUME PageAssumption PROVE ScanSpec => []ScanInv
<1>1. ScanInit => ScanInv
  <2> SUFFICES ASSUME ScanInit PROVE ScanInv
    OBVIOUS
  <2>1. scan.at = "idle" /\ ~scan.tracked
    BY DEF ScanInit, NoScan
  <2>2. Walked
    BY <2>1 DEF Walked
  <2>3. Based
    BY <2>1 DEF ScanInit, Based, NothingBeforeBaseline
  <2>4. Apart
    BY DEF ScanInit, Apart, ChangesNotLost
  <2> QED BY <2>2, <2>3, <2>4, TypedStart DEF ScanInv
<1>2. ScanInv /\ [ScanNext]_scanVars => ScanInv'
  <2> SUFFICES ASSUME ScanInv, [ScanNext]_scanVars PROVE ScanInv'
    OBVIOUS
  <2>1. ScanTypeOK /\ Walked /\ Based /\ Apart
    BY DEF ScanInv
  <2>2. ScanTypeOK'
    BY <2>1, TypedStep
  <2>3. Walked'
    BY <2>1, <2>2, WalkedStep
  <2>4. Based'
    BY <2>1, BasedStep
  <2>5. Apart'
    BY <2>1, ApartStep
  <2> QED BY <2>2, <2>3, <2>4, <2>5 DEF ScanInv
<1> QED BY <1>1, <1>2, PTL DEF ScanSpec

\* The rows, pages and records of a scan keep their types, whatever is interleaved with it.
THEOREM ScanTypeCorrect == ASSUME PageAssumption PROVE ScanSpec => []ScanTypeOK
<1>1. ScanInv => ScanTypeOK
  BY DEF ScanInv
<1> QED BY <1>1, ScanInvHolds, PTL

\* A baseline is honest (fetch_jobs._paged_upsert and its callers): whichever pages of a walk
\* failed, were cut off by the budget or were cancelled, whatever the panel changed meanwhile and
\* whoever reviews, no item of the genre's kind that it listed when a measured walk (one that went
\* by the panel's total, or over a list of one kind) set the baseline is ever reported as new,
\* and no change is on record before the baseline is.
THEOREM NoFalseNews == ASSUME PageAssumption PROVE ScanSpec => [](NoWallOfNew /\ NothingBeforeBaseline)
<1>1. ScanInv => NoWallOfNew /\ NothingBeforeBaseline
  BY DEF ScanInv, Based, NoWallOfNew
<1> QED BY <1>1, ScanInvHolds, PTL

\* And a difference that a tracked walk records is pending until a review has read it
\* (catalog_changes.record_changes, the review handler), also when the two overlap.
THEOREM ChangesAlwaysTrue == ASSUME PageAssumption PROVE ScanSpec => []ChangesAreTrue
<1>1. ScanInv => ChangesAreTrue
  BY DEF ScanInv, Based, Apart, NoWallOfNew, ChangesAreTrue
<1> QED BY <1>1, ScanInvHolds, PTL
=============================================================================
