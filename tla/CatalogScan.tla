---------------------------- MODULE CatalogScan ----------------------------
(* One genre of a portal being scanned page by page while the portal's         *)
(* catalogue changes, the user cancels the job or toggles the genre, and the   *)
(* detected changes are reviewed: fetch_jobs._paged_upsert, _bulk_upsert and   *)
(* the _fetch_* callers, catalog_changes.record_changes and the review handler.*)
EXTENDS Integers, FiniteSets, SequencesExt, Selection

CONSTANTS Items,            \* ids the portal may list in this genre
          PageSize,         \* 14 in the code
          Budget,           \* fetch_page_budget, pages read of one genre
          Batch,            \* FETCH_PAGE_CONCURRENCY, pages in flight together
          MaxShifts         \* bound: changes the portal makes to its catalogue

PageAssumption == {PageSize, Budget, Batch} \subseteq Nat \ {0} /\ MaxShifts \in Nat

Absent == -1
Versions == 0 .. MaxShifts
NoChange == [status |-> "none", type |-> "none"]

VARIABLES
    foreign,  \* films listed among series, or series among films: not of this genre's kind
    portal,   \* what the panel lists, in page order
    metadata, \* the metadata the panel reports for an item
    shifts,   \* bound: the changes the panel has made so far
    sourceRow, \* the stored source row of an item: its metadata, or Absent
    genre,    \* the genre row: enabled, items_fetched, catalog_baseline
    change,   \* the CatalogChange row of an item
    scan,     \* the running walk of the genre
    cancel,   \* job._cancel
    review,   \* the review handler: the pending rows it has read
    steady,   \* history: the panel has not changed since the walk began
    known,    \* history: what the panel listed when a steady, measured walk set the baseline
    unseen    \* history: items recorded as changed since a review last read them

scanVars == <<foreign, portal, metadata, shifts, sourceRow, genre, change, scan, cancel, review, steady, known, unseen>>

NoScan == [at |-> "idle", tracked |-> FALSE, page |-> 0, total |-> 0, pages |-> <<>>,
           failed |-> FALSE, complete |-> FALSE]
Offer == [item : Items, version : Nat]
Walks == [at : {"idle", "first", "batch", "serial", "store", "finish", "all", "allDone"},
          tracked : BOOLEAN, page : Nat, total : Nat, pages : Seq(Seq(Offer)),
          failed : BOOLEAN, complete : BOOLEAN]
Changes == [status : {"none", "pending", "reviewed", "ignored"}, type : {"none", "new", "changed"}]

ScanTypeOK ==
    /\ foreign \subseteq Items /\ portal \in Seq(Items) /\ metadata \in [Items -> Nat]
    /\ sourceRow \in [Items -> Nat \cup {Absent}]
    /\ genre \in [enabled : BOOLEAN, fetched : BOOLEAN, baseline : BOOLEAN]
    /\ change \in [Items -> Changes] /\ scan \in Walks /\ cancel \in BOOLEAN
    /\ steady \in BOOLEAN /\ known \subseteq Items /\ unseen \subseteq Items /\ review \subseteq Items

ScanInit ==
    /\ foreign \in SUBSET Items
    /\ portal \in UNION {{s \in [1 .. n -> Items] : IsInjective(s)} : n \in 0 .. Cardinality(Items)}
    /\ metadata = [i \in Items |-> 0] /\ shifts = 0 /\ sourceRow = [i \in Items |-> Absent]
    /\ genre = [enabled |-> TRUE, fetched |-> FALSE, baseline |-> FALSE]
    /\ change = [i \in Items |-> NoChange]
    /\ scan = NoScan /\ cancel = FALSE /\ review = {}
    /\ steady = TRUE /\ known = {} /\ unseen = {}

-----------------------------------------------------------------------------
(* The panel's side: items come, go and are edited at any time.                *)

PortalChanges ==
    /\ \/ \E i \in Items, k \in 1 .. Len(portal) + 1 :
            i \notin ToSet(portal) /\ portal' = InsertAt(portal, k, i) /\ UNCHANGED metadata
       \/ \E k \in DOMAIN portal : portal' = RemoveAt(portal, k) /\ UNCHANGED metadata
       \/ \E i \in Items : metadata' = [metadata EXCEPT ![i] = @ + 1] /\ UNCHANGED portal
    /\ shifts < MaxShifts /\ shifts' = shifts + 1
    /\ steady' = FALSE
    /\ UNCHANGED <<foreign, sourceRow, genre, change, scan, cancel, review, known, unseen>>

Entries(lo, hi) == [k \in 1 .. (IF lo <= hi THEN hi - lo + 1 ELSE 0) |->
                       [item |-> portal[lo + k - 1], version |-> metadata[portal[lo + k - 1]]]]
Least(a, b) == IF a <= b THEN a ELSE b
Page(p) == Entries((p - 1) * PageSize + 1, Least(p * PageSize, Len(portal)))

(* vod_list(), series_list(): a panel that keeps films and series in one list  *)
(* sends pages of both, and the client drops the rows of the other kind.       *)
Kept(p) == Only(Page(p), [item : Items \ foreign, version : Nat])

-----------------------------------------------------------------------------
(* record_changes(): a pending "new" stays new, anything else becomes pending  *)
(* again with what was seen last.                                              *)
RecordedOnce(old, type) ==     \* mutant: a reviewed difference never comes back
    IF old.status = "none" THEN [status |-> "pending", type |-> type] ELSE old

Recorded(old, type) ==
    [status |-> "pending",
     type |-> IF old.status = "pending" /\ old.type = "new" THEN "new" ELSE type]

(* _bulk_upsert() of one page: the first of two rows with one id wins, a row   *)
(* that changes is recorded when the genre already had its baseline.           *)
Offers(items, i) == {k \in DOMAIN items : items[k].item = i}
FirstOffer(items, i) == items[CHOOSE k \in Offers(items, i) : \A l \in Offers(items, i) : k <= l]

Events(items, tracked) ==
    IF ~tracked THEN {}
    ELSE {i \in Items : Offers(items, i) # {} /\ sourceRow[i] # FirstOffer(items, i).version}

Upsert(items, tracked) ==
    LET events == Events(items, tracked) IN
    /\ sourceRow' = [i \in Items |-> IF Offers(items, i) = {} THEN sourceRow[i] ELSE FirstOffer(items, i).version]
    /\ change' = [i \in Items |->
                    IF i \in events
                    THEN Recorded(change[i], IF sourceRow[i] = Absent THEN "new" ELSE "changed")
                    ELSE change[i]]
    /\ unseen' = unseen \cup (events \ review)

-----------------------------------------------------------------------------
(* The walk.                                                                   *)

Walk == UNCHANGED <<foreign, portal, metadata, shifts, genre, cancel, review, known>>
Reading == Walk /\ UNCHANGED <<sourceRow, change, unseen, steady>>

StartTracksFetched ==     \* mutant: any earlier walk counts as a baseline
    /\ scan.at = "idle" /\ genre.enabled
    /\ scan' = [NoScan EXCEPT !.at = "first", !.tracked = genre.fetched]
    /\ cancel' = FALSE /\ steady' = TRUE
    /\ UNCHANGED <<foreign, portal, metadata, shifts, sourceRow, genre, change, review, known, unseen>>

Start ==
    /\ scan.at = "idle" /\ genre.enabled
    /\ scan' = [NoScan EXCEPT !.at = "first", !.tracked = genre.baseline]
    /\ cancel' = FALSE /\ steady' = TRUE
    /\ UNCHANGED <<foreign, portal, metadata, shifts, sourceRow, genre, change, review, known, unseen>>

(* A failing first page raises out of the job.                                 *)
Abandon == scan.at = "first" /\ scan' = NoScan /\ Reading

ExpectedPages == (scan.total + PageSize - 1) \div PageSize
UncappedPages == ExpectedPages      \* mutant: the page budget is forgotten
LastPage == Least(Budget, ExpectedPages)

FirstPage ==
    /\ scan.at = "first"
    /\ \E reported \in BOOLEAN :
         LET total == IF reported THEN Len(portal) ELSE 0 IN
         scan' = [scan EXCEPT !.pages = <<Kept(1)>>, !.total = total, !.page = 2,
                              !.complete = TRUE,
                              !.at = IF total > 0 THEN "batch"
                                     ELSE IF Len(Kept(1)) >= PageSize THEN "serial" ELSE "store"]
    /\ Reading

(* With a total the other pages go out in batches; a page that fails is        *)
(* skipped.                                                                    *)
NextBatch ==
    /\ scan.at = "batch" /\ scan.page <= LastPage /\ ~cancel
    /\ LET last == Least(scan.page + Batch - 1, LastPage) IN
       \E failing \in SUBSET (scan.page .. last) :
         LET pages == [k \in 1 .. last - scan.page + 1 |-> scan.page + k - 1]
             ok == Only(pages, Range(pages) \ failing) IN
         scan' = [scan EXCEPT !.page = last + 1, !.failed = @ \/ failing # {},
                              !.pages = @ \o [k \in DOMAIN ok |-> Kept(ok[k])]]
    /\ Reading

BatchesEndCareless ==     \* mutant: failed pages do not count against the walk
    /\ scan.at = "batch" /\ (scan.page > LastPage \/ cancel)
    /\ scan' = [scan EXCEPT !.at = "store", !.complete = LastPage >= ExpectedPages /\ ~cancel]
    /\ Reading

BatchesEnd ==
    /\ scan.at = "batch" /\ (scan.page > LastPage \/ cancel)
    /\ scan' = [scan EXCEPT !.at = "store",
                            !.complete = LastPage >= ExpectedPages /\ ~scan.failed /\ ~cancel]
    /\ Reading

(* Without one the pages are read until one of which less than a page is kept. *)
SerialPage ==
    /\ scan.at = "serial" /\ scan.page <= Budget /\ ~cancel
    /\ LET short == Len(Kept(scan.page)) < PageSize IN
       scan' = [scan EXCEPT !.pages = Append(@, Kept(scan.page)), !.page = @ + 1,
                            !.complete = short, !.at = IF short THEN "store" ELSE "serial"]
    /\ Reading

SerialEnd ==
    /\ scan.at = "serial"      \* the budget is spent, the job cancelled or the page failed
    /\ scan' = [scan EXCEPT !.at = "store", !.complete = FALSE]
    /\ Reading

StorePage ==
    /\ scan.at = "store" /\ scan.pages # <<>> /\ ~cancel
    /\ Upsert(Head(scan.pages), scan.tracked)
    /\ scan' = [scan EXCEPT !.pages = Tail(@)]
    /\ Walk /\ UNCHANGED steady

StoreEnd ==
    /\ scan.at = "store" /\ (scan.pages = <<>> \/ cancel)
    /\ scan' = [scan EXCEPT !.at = "finish", !.complete = @ /\ ~cancel, !.pages = <<>>]
    /\ Reading

(* The walk went by a total the panel reported, or its pages came unfiltered.  *)
Measured == scan.total > 0 \/ foreign = {}

(* Even a cancelled walk counts as fetched; only a complete one is a baseline. *)
SetBaseline(complete) ==
    /\ genre' = [genre EXCEPT !.fetched = TRUE, !.baseline = @ \/ complete]
    /\ known' = IF complete /\ steady /\ Measured /\ ~genre.baseline
                THEN ToSet(portal) \ foreign ELSE known
    /\ scan' = NoScan
    /\ UNCHANGED <<foreign, portal, metadata, shifts, sourceRow, change, cancel, review, steady, unseen>>

Finish == scan.at = "finish" /\ SetBaseline(scan.complete)

(* Live genres first ask for every channel in one request.                     *)
AllChannels ==
    /\ scan.at = "first" /\ portal # <<>> /\ foreign = {}
    /\ scan' = [scan EXCEPT !.at = "all", !.pages = <<Entries(1, Len(portal))>>]
    /\ Reading

StoreAll ==
    /\ scan.at = "all"
    /\ IF cancel THEN scan' = NoScan /\ UNCHANGED <<sourceRow, change, unseen>>
       ELSE /\ Upsert(Head(scan.pages), scan.tracked)
            /\ scan' = [scan EXCEPT !.at = "allDone", !.pages = <<>>]
    /\ Walk /\ UNCHANGED steady

FinishAll == scan.at = "allDone" /\ SetBaseline(TRUE)

Scan == \/ Start \/ Abandon \/ FirstPage \/ NextBatch \/ BatchesEnd \/ SerialPage \/ SerialEnd
        \/ StorePage \/ StoreEnd \/ Finish \/ AllChannels \/ StoreAll \/ FinishAll

-----------------------------------------------------------------------------
(* Handlers.                                                                   *)

CancelScan ==
    /\ scan.at # "idle" /\ ~cancel /\ cancel' = TRUE
    /\ UNCHANGED <<foreign, portal, metadata, shifts, sourceRow, genre, change, scan, review, steady, known, unseen>>

ToggleGenre ==
    /\ genre' = [genre EXCEPT !.enabled = ~@]
    /\ UNCHANGED <<foreign, portal, metadata, shifts, sourceRow, change, scan, cancel, review, steady, known, unseen>>

(* review_catalog_changes: the pending rows are read, other queries awaited,   *)
(* and their status written by the commit.                                     *)
ReviewReads(ids) ==
    /\ review = {} /\ ids # {}
    /\ \A i \in ids : change[i].status = "pending"
    /\ review' = ids /\ unseen' = unseen \ ids
    /\ UNCHANGED <<foreign, portal, metadata, shifts, sourceRow, genre, change, scan, cancel, steady, known>>

ReviewWrites(verdict) ==
    /\ review # {}
    /\ change' = [i \in Items |-> IF i \in review THEN [change[i] EXCEPT !.status = verdict]
                                  ELSE change[i]]
    /\ review' = {}
    /\ UNCHANGED <<foreign, portal, metadata, shifts, sourceRow, genre, scan, cancel, steady, known, unseen>>

ScanNext ==
    \/ PortalChanges \/ Scan \/ CancelScan \/ ToggleGenre
    \/ (\E ids \in SUBSET Items : ReviewReads(ids))
    \/ (\E verdict \in {"reviewed", "ignored"} : ReviewWrites(verdict))

ScanSpec == ScanInit /\ [][ScanNext]_scanVars

-----------------------------------------------------------------------------
(* An item the panel already listed when a walk set the baseline is never      *)
(* reported as new: the baseline is only set by a walk that stored everything, *)
(* whichever pages failed, were cut off by the budget or were cancelled.  This *)
(* holds of walks that go by the panel's total and of lists of one kind; where *)
(* neither is so, a full page with rows of the other kind looks short, ends    *)
(* the walk as complete, and what comes after it is reported as new later on.  *)
NoWallOfNew == \A i \in known : change[i].type # "new"

(* A difference found by a tracked scan waits for review until a review has    *)
(* read it, also when the item had been reviewed or ignored before, and when   *)
(* reviews and scans overlap.  One found between the read and the write of a   *)
(* review of that very item is marked as reviewed with it and is not meant.    *)
ChangesNotLost == \A i \in unseen : change[i].status = "pending"

(* The first walk of a genre reports nothing, and a walk that ends without a   *)
(* baseline leaves the next one untracked: no change is on record before the   *)
(* baseline is.                                                                *)
NothingBeforeBaseline == (\E i \in Items : change[i] # NoChange) => genre.baseline

(* Nothing is reported falsely and nothing lost, whichever pages failed, were  *)
(* cut off or cancelled, and whichever walk and review overlap.                *)
ChangesAreTrue == NoWallOfNew /\ NothingBeforeBaseline /\ ChangesNotLost
=============================================================================
