------------------------------- MODULE FeedSync -------------------------------
(***************************************************************************)
(* Bringing the vulnerability feeds up to date: internal/feeds/runner      *)
(* (Sync, process, settle), the cache directory of internal/feeds/fetch    *)
(* and the loads of internal/storepg/feeds.go.                             *)
(*                                                                         *)
(* Several runs of defendsec-feeds may be under way, the timer's and one   *)
(* started by hand.  A run downloads every feed into the cache directory,  *)
(* which they share, then takes the database lock and loads what changed:  *)
(* range feeds first, the KEV catalog last.  The lock is let go before the *)
(* run decides which downloads stay in the cache.                          *)
(*                                                                         *)
(* A publisher's files are numbered in the order they appear; 0 is no      *)
(* file.  What a file holds is the set of advisory ids (range feeds) or of *)
(* CVEs (KEV) that parsing it yields; the empty set is a file that does    *)
(* not parse or yields nothing, which the loaders refuse alike.            *)
(***************************************************************************)
EXTENDS Integers, Sequences, FiniteSets

CONSTANTS
    Runs,           \* runs that may be under way together
    Nobody,
    KEV,            \* the feed of exploited CVEs
    Specs,          \* the enabled feeds, in catalogue order
    Published,      \* [feed -> sequence of what its successive files hold]
    CveOf,          \* [advisory id -> its CVE]: a distribution's id is the CVE
    ShrinkFloor,    \* a feed with fewer records may shrink freely (1000)
    MaxFaults       \* bound: failed steps and crashes

Feeds == {Specs[i] : i \in DOMAIN Specs}
Ids == DOMAIN CveOf
Cves == {CveOf[id] : id \in Ids}

ASSUME RunsAssumption == Nobody \notin Runs
ASSUME SpecsAssumption ==
    Specs \in Seq(Feeds) /\ \A i, j \in DOMAIN Specs : Specs[i] = Specs[j] => i = j
ASSUME PublishedAssumption ==
    \A f \in Feeds :
        /\ Published[f] \in Seq(SUBSET (IF f = KEV THEN Cves ELSE Ids)) /\ Published[f] # <<>>
        /\ \A i \in DOMAIN Published[f] : IsFiniteSet(Published[f][i])
ASSUME CveOfAssumption == Cves \subseteq Ids /\ (\A c \in Cves : CveOf[c] = c)
ASSUME BoundsAssumption == ShrinkFloor \in Nat /\ MaxFaults \in Nat

VARIABLES
    upstream,   \* the file each publisher serves
    data, meta,             \* the cache: <feed>/data and <feed>/meta.json
    prevData, prevMeta,     \* and what Stash put aside
    lock,       \* the run that holds the feed lock
    status,     \* feed_status: the file last loaded, and its record count
    loaded,     \* what each feed's scope holds; for KEV, the catalog applied
    rows,       \* advisories: ids that have a row
    flagged,    \* and those with kev set
    run,        \* each run's local state
    faults,     \* how many steps have failed
    misread     \* history: a run loaded another file than the one it downloaded

cache == <<data, meta, prevData, prevMeta>>
db == <<status, loaded, rows, flagged>>
vars == <<upstream, cache, lock, db, run, faults, misread>>

NoFiles == [f \in Feeds |-> 0]
NoStatus == [f \in Feeds |-> [file |-> 0, count |-> 0]]
NewRun == [pc |-> "stash", todo |-> Feeds, reply |-> 0, item |-> NoFiles, st |-> NoStatus,
           result |-> [f \in Feeds |-> ""], reload |-> FALSE, wrote |-> {}]
Idle == [NewRun EXCEPT !.pc = "idle", !.todo = {}]

At(r, label) == run[r].pc = label
More(r) == run[r].todo # {}
Items(rec) == {f \in Feeds : rec.item[f] # 0}

Serves(f, file) == IF file = 0 THEN {} ELSE Published[f][file]
Cached(f) == data[f] # 0 /\ meta[f] # 0

\* phase: ranges, then KEV, so that enrichment comes last.
RangesLast(f) == IF f = KEV THEN 0 ELSE 1
Phase(f) == IF f = KEV THEN 1 ELSE 0

\* A run takes the feeds in catalogue order, and loads them phase by phase.
Place(f) == CHOOSE i \in DOMAIN Specs : Specs[i] = f
Precedes(f, g, loading) ==
    IF loading /\ Phase(f) # Phase(g) THEN Phase(f) < Phase(g) ELSE Place(f) < Place(g)
First(feeds, loading) == CHOOSE f \in feeds : \A g \in feeds \ {f} : Precedes(f, g, loading)
Loading(rec) == rec.pc \in {"load", "record"}
Feed(r) == First(run[r].todo, Loading(run[r]))

-------------------------------------------------------------------------------
(* The publishers, and the start of a run.                                 *)

Publish(f) ==
    /\ upstream[f] < Len(Published[f])
    /\ upstream' = [upstream EXCEPT ![f] = @ + 1]
    /\ UNCHANGED <<cache, lock, db, run, faults, misread>>

Start(r) ==
    /\ At(r, "idle")
    /\ run' = [run EXCEPT ![r] = NewRun]
    /\ UNCHANGED <<upstream, cache, lock, db, faults, misread>>

-------------------------------------------------------------------------------
(* Downloading, feed by feed, outside the lock.                            *)

Stash(r) ==
    /\ At(r, "stash") /\ More(r)
    /\ LET f == Feed(r) IN
       IF Cached(f)
       THEN /\ prevData' = [prevData EXCEPT ![f] = data[f]]
            /\ prevMeta' = [prevMeta EXCEPT ![f] = meta[f]]
       ELSE UNCHANGED <<prevData, prevMeta>>
    /\ run' = [run EXCEPT ![r].pc = "request"]
    /\ UNCHANGED <<upstream, data, meta, lock, db, faults, misread>>

\* A conditional request: the publisher answers 304 when the cached metadata
\* names the file it serves, and then only the metadata is written again.
Request(r) ==
    /\ At(r, "request")
    /\ LET f == Feed(r)
           notModified == Cached(f) /\ meta[f] = upstream[f] IN
       run' = [run EXCEPT ![r].reply = upstream[f],
                          ![r].pc = IF notModified THEN "meta" ELSE "install"]
    /\ UNCHANGED <<upstream, cache, lock, db, faults, misread>>

\* The whole body has arrived: it is renamed into place.
Install(r) ==
    /\ At(r, "install")
    /\ LET f == Feed(r) IN
       data' = [data EXCEPT ![f] = run[r].reply]
    /\ run' = [run EXCEPT ![r].pc = "meta"]
    /\ UNCHANGED <<upstream, meta, prevData, prevMeta, lock, db, faults, misread>>

SaveMeta(r) ==
    /\ At(r, "meta")
    /\ LET f == Feed(r) IN
       /\ meta' = [meta EXCEPT ![f] = run[r].reply]
       /\ run' = [run EXCEPT ![r].item[f] = run[r].reply, ![r].pc = "stash", ![r].todo = @ \ {Feed(r)}]
    /\ UNCHANGED <<upstream, data, prevData, prevMeta, lock, db, faults, misread>>

Discarded(f) ==
    /\ prevData' = [prevData EXCEPT ![f] = 0]
    /\ prevMeta' = [prevMeta EXCEPT ![f] = 0]

\* RecordFeedFailure leaves what the last success wrote, so status is as it was.
FetchFails(r) ==
    /\ At(r, "request")
    /\ faults < MaxFaults /\ faults' = faults + 1
    /\ Discarded(Feed(r))
    /\ run' = [run EXCEPT ![r].result[Feed(r)] = "failed", ![r].pc = "stash", ![r].todo = @ \ {Feed(r)}]
    /\ UNCHANGED <<upstream, data, meta, lock, db, misread>>

-------------------------------------------------------------------------------
(* Loading, under the lock.                                                *)

Settling(rec) == [rec EXCEPT !.pc = "settle", !.todo = Items(rec)]

Lock(r) ==
    /\ At(r, "stash") /\ ~More(r)
    /\ lock = Nobody
    /\ lock' = r
    /\ run' = [run EXCEPT ![r].pc = "load", ![r].todo = Items(run[r]), ![r].st = status]
    /\ UNCHANGED <<upstream, cache, db, faults, misread>>

\* Another run holds the lock, or the lock, the status or the snapshot fails.
NoLock(r) ==
    /\ At(r, "stash") /\ ~More(r)
    /\ \/ lock # Nobody /\ UNCHANGED faults
       \/ faults < MaxFaults /\ faults' = faults + 1
    /\ run' = [run EXCEPT ![r] = Settling(@)]
    /\ UNCHANGED <<upstream, cache, lock, db, misread>>

Changed(r, f) == run[r].st[f].file # run[r].item[f]

\* KEV is applied again when this run loaded ranges, whether it changed or not.
Due(r, f) == Changed(r, f) \/ (f = KEV /\ run[r].reload)

\* No shrinkGuard.
AcceptsAny(f, prev, records) == records # {}
Accepts(f, prev, records) ==
    /\ records # {}
    /\ ~(prev.count >= ShrinkFloor /\ Cardinality(records) * 2 < prev.count)

Done(r, outcome) ==
    run' = [run EXCEPT ![r].result[Feed(r)] = outcome, ![r].pc = "load", ![r].todo = @ \ {Feed(r)}]

Unchanged(r) ==
    /\ At(r, "load") /\ More(r) /\ ~Due(r, Feed(r))
    /\ Done(r, "unchanged")
    /\ UNCHANGED <<upstream, cache, lock, db, faults, misread>>

\* ApplyKEV: the flag mirrors the catalog; a CVE no advisory describes gets a row.
Stubs(catalog) == {c \in catalog : \A id \in rows : CveOf[id] # c}
Flag(catalog) == {id \in rows \cup Stubs(catalog) : CveOf[id] \in catalog}

\* Commit: the scope is replaced, the advisories merged, in one transaction.  The
\* file is whatever lies in the cache by now.
Load(r) ==
    LET f == Feed(r)
        records == Serves(f, data[f]) IN
    /\ At(r, "load") /\ More(r) /\ Due(r, f)
    /\ Accepts(f, run[r].st[f], records)
    /\ loaded' = [loaded EXCEPT ![f] = records]
    /\ IF f = KEV
       THEN rows' = rows \cup Stubs(records) /\ flagged' = Flag(records)
       ELSE rows' = rows \cup records /\ UNCHANGED flagged
    /\ run' = [run EXCEPT ![r].pc = "record",
                          ![r].wrote = IF f = KEV THEN @ ELSE @ \cup records]
    /\ misread' = (misread \/ data[f] # run[r].item[f])
    /\ UNCHANGED <<upstream, cache, lock, status, faults>>

\* A failed load that is remembered as loaded.
FailureIsLoaded(r) ==
    LET f == Feed(r) IN
    /\ At(r, "load") /\ More(r) /\ Due(r, f)
    /\ \/ ~Accepts(f, run[r].st[f], Serves(f, data[f])) /\ UNCHANGED faults
       \/ faults < MaxFaults /\ faults' = faults + 1
    /\ status' = [status EXCEPT ![f].file = run[r].item[f]]
    /\ Done(r, "failed")
    /\ UNCHANGED <<upstream, cache, lock, loaded, rows, flagged, misread>>

LoadFails(r) ==
    LET f == Feed(r) IN
    /\ At(r, "load") /\ More(r) /\ Due(r, f)
    /\ \/ ~Accepts(f, run[r].st[f], Serves(f, data[f])) /\ UNCHANGED faults
       \/ faults < MaxFaults /\ faults' = faults + 1
    /\ Done(r, "failed")
    /\ UNCHANGED <<upstream, cache, lock, db, misread>>

\* RecordFeedSuccess names the file that was downloaded.
Recorded(r, f) == [file |-> run[r].item[f], count |-> Cardinality(loaded[f])]

Record(r) ==
    LET f == Feed(r) IN
    /\ At(r, "record")
    /\ status' = [status EXCEPT ![f] = Recorded(r, f)]
    /\ run' = [run EXCEPT ![r].result[f] = "loaded", ![r].pc = "load", ![r].todo = @ \ {Feed(r)},
                          ![r].reload = @ \/ f # KEV]
    /\ UNCHANGED <<upstream, cache, lock, loaded, rows, flagged, faults, misread>>

RecordFails(r) ==
    /\ At(r, "record")
    /\ faults < MaxFaults /\ faults' = faults + 1
    /\ Done(r, "failed")
    /\ UNCHANGED <<upstream, cache, lock, db, misread>>

Finish(r) ==
    /\ At(r, "load") /\ ~More(r)
    /\ lock' = Nobody
    /\ run' = [run EXCEPT ![r] = Settling(@)]
    /\ UNCHANGED <<upstream, cache, db, faults, misread>>

-------------------------------------------------------------------------------
(* Which downloads stay in the cache, decided after the lock is let go.    *)

Settled(r) == run' = [run EXCEPT ![r].pc = "settle", ![r].todo = @ \ {Feed(r)}]

\* Discard: the download stays.
Keep(r) ==
    /\ At(r, "settle") /\ More(r) /\ run[r].result[Feed(r)] # "failed"
    /\ Discarded(Feed(r))
    /\ Settled(r)
    /\ UNCHANGED <<upstream, data, meta, lock, db, faults, misread>>

NothingToRestore(r) ==
    /\ At(r, "settle") /\ More(r) /\ run[r].result[Feed(r)] = "failed"
    /\ prevData[Feed(r)] = 0
    /\ Settled(r)
    /\ UNCHANGED <<upstream, cache, lock, db, faults, misread>>

\* Restore renames the data file, then the metadata.
RestoreData(r) ==
    LET f == Feed(r) IN
    /\ At(r, "settle") /\ More(r) /\ run[r].result[f] = "failed"
    /\ prevData[f] # 0
    /\ data' = [data EXCEPT ![f] = prevData[f]]
    /\ prevData' = [prevData EXCEPT ![f] = 0]
    /\ run' = [run EXCEPT ![r].pc = "restore"]
    /\ UNCHANGED <<upstream, meta, prevMeta, lock, db, faults, misread>>

RestoreMeta(r) ==
    LET f == Feed(r) IN
    /\ At(r, "restore")
    /\ meta' = [meta EXCEPT ![f] = IF prevMeta[f] = 0 THEN @ ELSE prevMeta[f]]
    /\ prevMeta' = [prevMeta EXCEPT ![f] = 0]
    /\ Settled(r)
    /\ UNCHANGED <<upstream, data, prevData, lock, db, faults, misread>>

End(r) ==
    /\ At(r, "settle") /\ ~More(r)
    /\ run' = [run EXCEPT ![r] = Idle]
    /\ UNCHANGED <<upstream, cache, lock, db, faults, misread>>

\* The process dies; the connection that held the lock goes with it.
Crash(r) ==
    /\ ~At(r, "idle")
    /\ faults < MaxFaults /\ faults' = faults + 1
    /\ lock' = IF lock = r THEN Nobody ELSE lock
    /\ run' = [run EXCEPT ![r] = Idle]
    /\ UNCHANGED <<upstream, cache, db, misread>>

-------------------------------------------------------------------------------
Init ==
    /\ upstream = [f \in Feeds |-> 1]
    /\ data = NoFiles /\ meta = NoFiles
    /\ prevData = NoFiles /\ prevMeta = NoFiles
    /\ lock = Nobody
    /\ status = NoStatus
    /\ loaded = [f \in Feeds |-> {}]
    /\ rows = {} /\ flagged = {}
    /\ run = [r \in Runs |-> Idle]
    /\ faults = 0
    /\ misread = FALSE

Fetch(r) == Stash(r) \/ Request(r) \/ Install(r) \/ SaveMeta(r)
Process(r) ==
    Lock(r) \/ NoLock(r) \/ Unchanged(r) \/ Load(r) \/ LoadFails(r) \/ Record(r) \/ Finish(r)
Settle(r) == Keep(r) \/ NothingToRestore(r) \/ RestoreData(r) \/ RestoreMeta(r) \/ End(r)

Next ==
    \/ \E f \in Feeds : Publish(f)
    \/ \E r \in Runs : \/ Start(r) \/ Fetch(r) \/ Process(r) \/ Settle(r)
                       \/ FetchFails(r) \/ RecordFails(r) \/ Crash(r)

Spec == Init /\ [][Next]_vars

\* The timer starts a run every day and a run goes on: Start and every step of one.
FairSpec ==
    /\ Spec
    /\ \A r \in Runs : WF_vars(Start(r)) /\ WF_vars(Fetch(r) \/ Process(r) \/ Settle(r))

-------------------------------------------------------------------------------
\* When a run in which no feed failed is done loading, every advisory it wrote that
\* the KEV catalog covers is flagged, KEV being unchanged or not: "enrichment is
\* applied last so it lands on advisories this run created" (process).
EnrichmentLands ==
    \A r \in Runs :
        /\ At(r, "settle")
        /\ \A f \in Feeds : run[r].result[f] \in {"loaded", "unchanged"}
        => \A id \in run[r].wrote : CveOf[id] \in loaded[KEV] => id \in flagged

\* A feed of substance is never replaced by less than half of it: a truncated
\* download hides exposure (shrinkGuard).  Where the status of the load before was
\* lost the guard knows an older count; that case is left out by its condition.
NeverTruncated ==
    [][\A f \in Feeds :
         /\ loaded'[f] # loaded[f]
         /\ status[f].count = Cardinality(loaded[f]) /\ status[f].count >= ShrinkFloor
         => Cardinality(loaded'[f]) * 2 >= Cardinality(loaded[f])]_vars

\* Whatever failed on the way, a publisher that stops at a usable file has that file
\* loaded in the end, unless a run once read another file than it downloaded: no status
\* row claims a file before it is loaded, no cached copy is passed off as loaded
\* (process, needs, settle, Fetch).
CaughtUp ==
    misread \/ \A f \in Feeds :
        Accepts(f, status[f], Serves(f, upstream[f])) => loaded[f] = Serves(f, upstream[f])
CatchesUp == <>[]CaughtUp

===============================================================================
