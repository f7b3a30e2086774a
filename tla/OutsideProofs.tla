---------------------------- MODULE OutsideProofs -----------------------------
EXTENDS Outside, FiniteSetTheorems, WellFoundedInduction, TLAPS

Files(f) == 0 .. Len(Published[f])
Fetching == {"stash", "request", "install", "meta"}
Labels == {"idle", "load", "record", "settle", "restore"} \cup Fetching
Outcomes == {"", "loaded", "unchanged", "failed"}
Statuses == [Feeds -> [file : Nat, count : Nat]]
Recs == [pc : Labels, todo : SUBSET Feeds, reply : Nat, item : [Feeds -> Nat], st : Statuses,
         result : [Feeds -> Outcomes], reload : BOOLEAN, wrote : SUBSET Ids]

\* The shape of the cache and the database.
StoreOK ==
    /\ \A c \in {upstream, data, prevData} : c \in [Feeds -> Nat] /\ \A f \in Feeds : c[f] \in Files(f)
    /\ lock \in Runs \cup {Nobody}
    /\ status \in Statuses
    /\ DOMAIN loaded = Feeds /\ \A f \in Feeds : IsFiniteSet(loaded[f]) /\ loaded[f] \subseteq Ids
    /\ rows \subseteq Ids

Good(rec) == {f \in Feeds : rec.result[f] \in {"loaded", "unchanged"}}
Current(rec) == First(rec.todo, Loading(rec))
Landed(rec) == \A id \in rec.wrote : CveOf[id] \in loaded[KEV] => id \in flagged

\* A run is at a feed where it downloads, loads or restores one, and what it downloads
\* is a file of the publisher.
PlaceOK(rec) ==
    /\ rec.pc \in {"request", "install", "meta", "record", "restore"} => rec.todo # {}
    /\ rec.pc \in {"install", "meta"} => rec.reply \in Files(Current(rec))

\* Nothing is good before a run loads, what it has yet to load is not, and it will apply
\* KEV to what it wrote unless something failed.
LoadOK(rec) ==
    /\ rec.pc \in {"idle"} \cup Fetching => Good(rec) = {} /\ rec.wrote = {} /\ ~rec.reload
    /\ Loading(rec) => rec.todo \cap Good(rec) = {} /\ (KEV \in Good(rec) => rec.todo = {})
    /\ Loading(rec) /\ Feeds \subseteq Good(rec) \cup rec.todo /\ rec.wrote # {} =>
          rec.reload \/ (rec.pc = "record" /\ Current(rec) # KEV)

\* The run that loads, and only that, has the lock; no other has changed a status since.
LockOK(r, rec) ==
    /\ Loading(rec) <=> lock = r
    /\ Loading(rec) => \A f \in rec.todo : rec.st[f] = status[f]

\* Once the catalog has been applied to what a run wrote, it stays applied.
LandedOK(rec) ==
    /\ rec.wrote \subseteq rows
    /\ KEV \in Good(rec) /\ Good(rec) = Feeds => Landed(rec)
    /\ rec.pc = "record" /\ Current(rec) = KEV => Landed(rec)

RunOK(r, rec) == PlaceOK(rec) /\ LoadOK(rec) /\ LockOK(r, rec) /\ LandedOK(rec)

IInv ==
    /\ StoreOK
    /\ run \in [Runs -> Recs]
    /\ \A r \in Runs : RunOK(r, run[r])

-----------------------------------------------------------------------------
(* The order of the feeds.                                                 *)

LEMMA PlaceIs ==
    ASSUME NEW f \in Feeds
    PROVE Place(f) \in Nat /\ Place(f) \in DOMAIN Specs /\ Specs[Place(f)] = f
<1>1. \E i \in DOMAIN Specs : Specs[i] = f
    BY DEF Feeds
<1>2. Place(f) \in DOMAIN Specs /\ Specs[Place(f)] = f
    BY <1>1 DEF Place
<1>3. DOMAIN Specs \subseteq Nat
    BY SpecsAssumption
<1> QED
    BY <1>2, <1>3

\* Of some feeds one comes first in the catalogue.
LEMMA FirstPlace ==
    ASSUME NEW T \in SUBSET Feeds, T # {}
    PROVE \E f \in T : \A g \in T \ {f} : Place(f) < Place(g)
<1> DEFINE N == {Place(f) : f \in T}
<1>1. N \subseteq Nat /\ N # {}
    BY PlaceIs
<1>2. PICK x \in N : \A y \in N : ~(<<y, x>> \in OpToRel(<, Nat))
    BY <1>1, NatLessThanWellFounded, WFMin
<1>3. PICK f \in T : x = Place(f)
    BY <1>2
<1>4. ASSUME NEW g \in T \ {f} PROVE Place(f) < Place(g)
    <2>1. Place(g) \in N /\ Place(g) \in Nat /\ Place(f) \in Nat
        BY PlaceIs
    <2>2. ~(Place(g) < Place(f))
        BY <1>2, <1>3, <2>1 DEF OpToRel
    <2>3. Place(g) # Place(f)
        BY <1>4, PlaceIs
    <2> QED
        BY <2>1, <2>2, <2>3
<1> QED
    BY <1>4

\* While a run loads, the catalog comes when nothing else is left.
LEMMA FirstIs ==
    ASSUME NEW T \in SUBSET Feeds, T # {}, NEW loading \in BOOLEAN
    PROVE /\ First(T, loading) \in T
          /\ loading /\ First(T, loading) = KEV => T = {KEV}
<1> DEFINE P == IF loading /\ T \ {KEV} # {} THEN T \ {KEV} ELSE T
<1>1. PICK m \in P : \A g \in P \ {m} : Place(m) < Place(g)
    <2>1. P \in SUBSET Feeds /\ P # {}
        OBVIOUS
    <2> HIDE DEF P
    <2> QED
        BY <2>1, FirstPlace
<1>2. ASSUME NEW g \in T \ {m} PROVE Precedes(m, g, loading)
    <2>1. CASE g \in P
        <3>1. loading => Phase(m) = Phase(g)
            BY <2>1 DEF Phase
        <3> QED
            BY <1>1, <1>2, <2>1, <3>1 DEF Precedes
    <2>2. CASE g \notin P
        <3>1. loading /\ g = KEV /\ m # KEV
            BY <1>2, <2>2
        <3> QED
            BY <3>1 DEF Precedes, Phase
    <2> QED
        BY <2>1, <2>2
<1>3. m \in T
    OBVIOUS
<1> HIDE DEF P
<1>4. First(T, loading) \in T /\ \A g \in T \ {First(T, loading)} : Precedes(First(T, loading), g, loading)
    BY <1>2, <1>3 DEF First
<1>5. ASSUME loading, First(T, loading) = KEV, NEW g \in T \ {KEV} PROVE FALSE
    <2>1. Precedes(KEV, g, TRUE)
        BY <1>4, <1>5
    <2> QED
        BY <1>5, <2>1 DEF Precedes, Phase
<1> QED
    BY <1>4, <1>5

-----------------------------------------------------------------------------
(* The steps of a run.                                                     *)

\* The run's state after a step, field by field.
Becomes(r, pc, todo, reply, item, st, result, reload, wrote) ==
    /\ run' \in [Runs -> Recs]
    /\ \A o \in Runs : o # r => run'[o] = run[o]
    /\ run'[r].pc = pc /\ run'[r].todo = todo /\ run'[r].reply = reply /\ run'[r].item = item
    /\ run'[r].st = st /\ run'[r].result = result /\ run'[r].reload = reload
    /\ run'[r].wrote = wrote

\* A step that changes neither the lock nor the database leaves the other runs as good.
LEMMA QuietStep ==
    ASSUME IInv, NEW r \in Runs, StoreOK', run' \in [Runs -> Recs], UNCHANGED <<lock, db>>,
           \A o \in Runs : o # r => run'[o] = run[o],
           PlaceOK(run'[r]), LoadOK(run'[r]), LockOK(r, run'[r]), LandedOK(run'[r])
    PROVE IInv'
<1>1. ASSUME NEW o \in Runs PROVE RunOK(o, run[o])'
    <2>1. RunOK(o, run'[o])
        BY DEF IInv, RunOK
    <2> QED
        BY <2>1 DEF db, RunOK, PlaceOK, LoadOK, LockOK, LandedOK, Landed
<1> QED
    BY <1>1 DEF IInv

\* What holds of a run before a step of it.
LEMMA RunTyped ==
    ASSUME IInv, NEW r \in Runs
    PROVE /\ run \in [Runs -> Recs] /\ run[r] \in Recs
          /\ run[r].pc \in Labels /\ run[r].todo \in SUBSET Feeds /\ run[r].reply \in Nat
          /\ run[r].item \in [Feeds -> Nat] /\ run[r].st \in Statuses
          /\ run[r].result \in [Feeds -> Outcomes] /\ run[r].reload \in BOOLEAN
          /\ run[r].wrote \in SUBSET Ids
          /\ PlaceOK(run[r]) /\ LoadOK(run[r]) /\ LockOK(r, run[r]) /\ LandedOK(run[r])
          /\ StoreOK /\ Feed(r) = Current(run[r])
BY DEF IInv, RunOK, Recs, Feed, Current

\* The feed a run is at.
LEMMA FeedIs ==
    ASSUME IInv, NEW r \in Runs, run[r].todo # {}
    PROVE /\ Feed(r) \in run[r].todo /\ Feed(r) \in Feeds
          /\ Loading(run[r]) /\ Feed(r) = KEV => run[r].todo = {KEV}
<1>1. run[r].todo \in SUBSET Feeds /\ Loading(run[r]) \in BOOLEAN
    BY RunTyped DEF Loading
<1> QED
    BY <1>1, FirstIs DEF Feed

LEMMA Downloads ==
    ASSUME IInv, NEW r \in Runs, Fetch(r) \/ FetchFails(r)
    PROVE IInv'
<1> DEFINE rec == run[r]
           f == Feed(r)
<1>1. /\ rec \in Recs /\ run \in [Runs -> Recs] /\ StoreOK /\ f = Current(rec)
      /\ PlaceOK(rec) /\ LoadOK(rec) /\ LockOK(r, rec) /\ LandedOK(rec)
      /\ rec.todo \in SUBSET Feeds /\ rec.reply \in Nat /\ rec.item \in [Feeds -> Nat]
      /\ rec.st \in Statuses /\ rec.result \in [Feeds -> Outcomes]
    BY RunTyped
<1>2. rec.pc \in Fetching /\ rec.todo # {}
    BY <1>1 DEF Fetch, Stash, Request, Install, SaveMeta, FetchFails, At, More, PlaceOK, Fetching
<1>3. f \in rec.todo /\ f \in Feeds
    BY <1>2, FeedIs
<1>4. Good(rec) = {} /\ rec.wrote = {} /\ ~rec.reload /\ ~Loading(rec)
    BY <1>1, <1>2 DEF LoadOK, Loading, Fetching
<1> HIDE DEF f
<1>5. /\ UNCHANGED <<lock, db, upstream>>
      /\ \A c \in {data', prevData'} : c \in [Feeds -> Nat] /\ \A g \in Feeds : c[g] \in Files(g)
    <2>1. CASE Stash(r)
        BY <1>1, <1>3, <2>1 DEF Stash, StoreOK, f
    <2>2. CASE Request(r)
        BY <1>1, <2>2 DEF Request, StoreOK, cache
    <2>3. CASE Install(r)
        BY <1>1, <1>3, <2>3 DEF Install, StoreOK, PlaceOK, At, f
    <2>4. CASE SaveMeta(r)
        BY <1>1, <2>4 DEF SaveMeta, StoreOK
    <2>5. CASE FetchFails(r)
        <3>1. 0 \in Files(f)
            BY <1>3, PublishedAssumption DEF Files
        <3> QED
            BY <1>1, <1>3, <2>5, <3>1 DEF FetchFails, Discarded, StoreOK, f
    <2> QED
        BY <2>1, <2>2, <2>3, <2>4, <2>5 DEF Fetch
<1>6. StoreOK'
    BY <1>1, <1>5 DEF StoreOK, db
<1>7. \E pc \in Fetching, todo \in SUBSET Feeds, reply \in Nat, item \in [Feeds -> Nat], result \in [Feeds -> Outcomes] :
        /\ Becomes(r, pc, todo, reply, item, rec.st, result, rec.reload, rec.wrote)
        /\ pc # "stash" => todo = rec.todo
        /\ pc \in {"install", "meta"} => reply \in Files(f)
        /\ \A g \in Feeds : result[g] = rec.result[g] \/ result[g] = "failed"
    <2>1. CASE Stash(r)
        <3>1. run' = [run EXCEPT ![r].pc = "request"]
            BY <2>1 DEF Stash
        <3>2. Becomes(r, "request", rec.todo, rec.reply, rec.item, rec.st, rec.result, rec.reload, rec.wrote)
            BY <1>1, <3>1 DEF Becomes, Recs, Labels, Fetching
        <3> QED
            BY <1>1, <3>2 DEF Fetching
    <2>2. CASE Request(r)
        <3>1. PICK pc \in {"install", "meta"} : run' = [run EXCEPT ![r].reply = upstream[f], ![r].pc = pc]
            BY <2>2 DEF Request, f
        <3>2. upstream[f] \in Files(f) /\ upstream[f] \in Nat
            BY <1>1, <1>3 DEF StoreOK
        <3>3. Becomes(r, pc, rec.todo, upstream[f], rec.item, rec.st, rec.result, rec.reload, rec.wrote)
            BY <1>1, <3>1, <3>2 DEF Becomes, Recs, Labels, Fetching
        <3> QED
            BY <1>1, <3>2, <3>3 DEF Fetching
    <2>3. CASE Install(r)
        <3>1. run' = [run EXCEPT ![r].pc = "meta"] /\ rec.reply \in Files(f)
            BY <1>1, <2>3 DEF Install, At, PlaceOK
        <3>2. Becomes(r, "meta", rec.todo, rec.reply, rec.item, rec.st, rec.result, rec.reload, rec.wrote)
            BY <1>1, <3>1 DEF Becomes, Recs, Labels, Fetching
        <3> QED
            BY <1>1, <3>1, <3>2 DEF Fetching
    <2>4. CASE SaveMeta(r)
        <3> DEFINE item == [rec.item EXCEPT ![f] = rec.reply]
        <3>1. run' = [run EXCEPT ![r].item[f] = rec.reply, ![r].pc = "stash", ![r].todo = @ \ {f}]
            BY <2>4 DEF SaveMeta, f
        <3>2. item \in [Feeds -> Nat]
            BY <1>1
        <3>3. Becomes(r, "stash", rec.todo \ {f}, rec.reply, item, rec.st, rec.result, rec.reload, rec.wrote)
            BY <1>1, <3>1, <3>2 DEF Becomes, Recs, Labels, Fetching
        <3> HIDE DEF item
        <3> QED
            BY <1>1, <3>2, <3>3 DEF Fetching
    <2>5. CASE FetchFails(r)
        <3> DEFINE result == [rec.result EXCEPT ![f] = "failed"]
        <3>1. run' = [run EXCEPT ![r].result[f] = "failed", ![r].pc = "stash", ![r].todo = @ \ {f}]
            BY <2>5 DEF FetchFails, f
        <3>2. result \in [Feeds -> Outcomes] /\ \A g \in Feeds : result[g] = rec.result[g] \/ result[g] = "failed"
            BY <1>1 DEF Outcomes
        <3>3. Becomes(r, "stash", rec.todo \ {f}, rec.reply, rec.item, rec.st, result, rec.reload, rec.wrote)
            BY <1>1, <3>1, <3>2 DEF Becomes, Recs, Labels, Fetching
        <3> HIDE DEF result
        <3> QED
            BY <1>1, <3>2, <3>3 DEF Fetching
    <2> QED
        BY <2>1, <2>2, <2>3, <2>4, <2>5 DEF Fetch
<1>8. PICK pc \in Fetching, todo \in SUBSET Feeds, reply \in Nat, item \in [Feeds -> Nat], result \in [Feeds -> Outcomes] :
        /\ Becomes(r, pc, todo, reply, item, rec.st, result, rec.reload, rec.wrote)
        /\ pc # "stash" => todo = rec.todo
        /\ pc \in {"install", "meta"} => reply \in Files(f)
        /\ \A g \in Feeds : result[g] = rec.result[g] \/ result[g] = "failed"
    BY <1>7
<1>9. Good(run'[r]) = {} /\ run'[r].wrote = {} /\ ~run'[r].reload /\ ~Loading(run'[r])
    BY <1>4, <1>8 DEF Becomes, Good, Loading, Fetching
<1>10. PlaceOK(run'[r])
    <2>1. Loading(run'[r]) = FALSE /\ Loading(rec) = FALSE
        BY <1>4, <1>9 DEF Loading
    <2>2. pc # "stash" => run'[r].todo = rec.todo
        BY <1>8 DEF Becomes
    <2>3. pc # "stash" => Current(run'[r]) = f
        BY <1>1, <2>1, <2>2 DEF Current
    <2> QED
        BY <1>2, <1>8, <2>3 DEF PlaceOK, Becomes, Fetching
<1>11. LoadOK(run'[r]) /\ LockOK(r, run'[r]) /\ LandedOK(run'[r])
    <2>1. lock # r
        BY <1>1, <1>4 DEF LockOK
    <2>2. run'[r].pc # "record"
        BY <1>9 DEF Loading
    <2> QED
        BY <1>9, <2>1, <2>2 DEF LoadOK, LockOK, LandedOK, Landed
<1> QED
    BY <1>5, <1>6, <1>8, <1>10, <1>11, QuietStep DEF Becomes

\* A run that has not done anything.
Fresh(rec) == rec.pc \in {"idle", "stash"} /\ rec.wrote = {} /\ ~rec.reload /\ Good(rec) = {}

LEMMA NewRuns == \A new \in {NewRun, Idle} : new \in Recs /\ Fresh(new)
<1>1. NewRun \in Recs /\ NewRun.result = [f \in Feeds |-> ""]
    BY DEF NewRun, Recs, Labels, Fetching, NoFiles, NoStatus, Statuses, Outcomes
<1>2. Fresh(NewRun)
    BY <1>1 DEF Fresh, Good, NewRun
<1>3. Idle \in Recs /\ Idle.result = NewRun.result /\ Idle.pc = "idle" /\ Idle.wrote = NewRun.wrote
      /\ Idle.reload = NewRun.reload
    BY <1>1 DEF Idle, Recs, Labels
<1>4. Fresh(Idle)
    BY <1>2, <1>3 DEF Fresh, Good
<1> QED
    BY <1>1, <1>2, <1>3, <1>4

\* A run begins, is settled, or ends without the lock.
LEMMA Elsewhere ==
    ASSUME IInv, NEW r \in Runs, Start(r) \/ NoLock(r) \/ Settle(r)
    PROVE IInv'
<1> DEFINE rec == run[r]
           f == Feed(r)
<1>1. /\ rec \in Recs /\ run \in [Runs -> Recs] /\ StoreOK /\ f = Current(rec)
      /\ PlaceOK(rec) /\ LoadOK(rec) /\ LockOK(r, rec) /\ LandedOK(rec)
      /\ rec.todo \in SUBSET Feeds /\ rec.reply \in Nat /\ rec.item \in [Feeds -> Nat]
      /\ rec.st \in Statuses /\ rec.result \in [Feeds -> Outcomes]
    BY RunTyped
<1>2. ~Loading(rec) /\ lock # r
    BY <1>1 DEF Start, NoLock, Settle, Keep, NothingToRestore, RestoreData, RestoreMeta, End, At,
       Loading, LockOK
<1>3. rec.pc \in {"settle", "restore"} /\ (rec.pc = "restore" \/ More(r)) => f \in rec.todo /\ f \in Feeds
    BY <1>1, FeedIs DEF PlaceOK, More
<1>4. \A new \in {NewRun, Idle} : new \in Recs /\ Fresh(new)
    BY NewRuns
<1> HIDE DEF f
<1>5. /\ UNCHANGED <<lock, db, upstream>>
      /\ \A c \in {data', prevData'} : c \in [Feeds -> Nat] /\ \A g \in Feeds : c[g] \in Files(g)
    <2>1. CASE Start(r) \/ NoLock(r) \/ NothingToRestore(r) \/ End(r) \/ RestoreMeta(r)
        BY <1>1, <2>1 DEF Start, NoLock, NothingToRestore, End, RestoreMeta, cache, StoreOK
    <2>2. CASE Keep(r) \/ RestoreData(r)
        <3>1. f \in Feeds
            BY <1>3, <2>2 DEF Keep, RestoreData, At
        <3>2. 0 \in Files(f)
            BY <3>1, PublishedAssumption DEF Files
        <3> QED
            BY <1>1, <2>2, <3>1, <3>2 DEF Keep, Discarded, RestoreData, StoreOK, f
    <2> QED
        BY <2>1, <2>2 DEF Settle
<1>6. StoreOK'
    BY <1>1, <1>5 DEF StoreOK, db
<1>7. CASE Start(r) \/ End(r)
    <2>1. PICK new \in {NewRun, Idle} : run' = [run EXCEPT ![r] = new]
        BY <1>7 DEF Start, End
    <2>2. run' \in [Runs -> Recs] /\ run'[r] = new /\ \A o \in Runs : o # r => run'[o] = run[o]
        BY <1>1, <1>4, <2>1
    <2>3. new.pc \in {"idle", "stash"} /\ new.wrote = {} /\ ~new.reload /\ Good(new) = {}
        BY <1>4 DEF Fresh
    <2>4. PlaceOK(new) /\ LoadOK(new) /\ LockOK(r, new) /\ LandedOK(new)
        BY <1>2, <2>3 DEF PlaceOK, LoadOK, LockOK, LandedOK, Landed, Loading
    <2> QED
        BY <1>5, <1>6, <2>2, <2>4, QuietStep
<1>8. CASE NoLock(r) \/ Keep(r) \/ NothingToRestore(r) \/ RestoreData(r) \/ RestoreMeta(r)
    <2>1. \E pc \in {"settle", "restore"}, todo \in SUBSET Feeds :
            /\ Becomes(r, pc, todo, rec.reply, rec.item, rec.st, rec.result, rec.reload, rec.wrote)
            /\ pc = "restore" => todo # {}
        <3>1. CASE NoLock(r)
            <4>1. run' = [run EXCEPT ![r] = [@ EXCEPT !.pc = "settle", !.todo = Items(rec)]]
                BY <3>1 DEF NoLock, Settling
            <4>2. Items(rec) \in SUBSET Feeds
                BY DEF Items
            <4> QED
                BY <1>1, <4>1, <4>2 DEF Becomes, Recs, Labels
        <3>2. CASE Keep(r) \/ NothingToRestore(r) \/ RestoreMeta(r)
            <4>1. run' = [run EXCEPT ![r].pc = "settle", ![r].todo = @ \ {f}]
                BY <3>2 DEF Keep, NothingToRestore, RestoreMeta, Settled, f
            <4>2. rec.todo \ {f} \in SUBSET Feeds
                BY <1>1
            <4> QED
                BY <1>1, <4>1, <4>2 DEF Becomes, Recs, Labels
        <3>3. CASE RestoreData(r)
            <4>1. run' = [run EXCEPT ![r].pc = "restore"] /\ rec.todo # {}
                BY <3>3 DEF RestoreData, More
            <4> QED
                BY <1>1, <4>1 DEF Becomes, Recs, Labels
        <3> QED
            BY <1>8, <3>1, <3>2, <3>3
    <2>2. PICK pc \in {"settle", "restore"}, todo \in SUBSET Feeds :
            /\ Becomes(r, pc, todo, rec.reply, rec.item, rec.st, rec.result, rec.reload, rec.wrote)
            /\ pc = "restore" => todo # {}
        BY <2>1
    <2>3. Good(run'[r]) = Good(rec) /\ run'[r].wrote = rec.wrote /\ run'[r].pc = pc /\ run'[r].todo = todo
        BY <2>2 DEF Becomes, Good
    <2>4. PlaceOK(run'[r]) /\ LoadOK(run'[r]) /\ LockOK(r, run'[r]) /\ LandedOK(run'[r])
        BY <1>1, <1>2, <2>2, <2>3 DEF PlaceOK, LoadOK, LockOK, LandedOK, Landed, Loading, Fetching
    <2> QED
        BY <1>5, <1>6, <2>2, <2>4, QuietStep DEF Becomes
<1> QED
    BY <1>7, <1>8 DEF Settle

\* A run that loads has the lock, so no other run loads.
LEMMA Alone ==
    ASSUME IInv, NEW r \in Runs, Loading(run[r])
    PROVE lock = r /\ \A o \in Runs : o # r => ~Loading(run[o])
BY RunTyped DEF LockOK

\* A step of one run that leaves the lock of the others, and what landed, alone.
LEMMA RunStep ==
    ASSUME IInv, NEW r \in Runs, StoreOK', run' \in [Runs -> Recs], RunOK(r, run[r])',
           \A o \in Runs : o # r =>
              /\ run'[o] = run[o]
              /\ lock' = o <=> lock = o
              /\ Loading(run[o]) => status' = status
              /\ KEV \in Feeds /\ Landed(run[o]) => Landed(run[o])',
           rows \subseteq rows'
    PROVE IInv'
<1>1. ASSUME NEW o \in Runs PROVE RunOK(o, run[o])'
    <2>1. CASE o = r
        BY <2>1
    <2>2. CASE o # r
        <3>1. PlaceOK(run[o]) /\ LoadOK(run[o]) /\ LockOK(o, run[o]) /\ LandedOK(run[o])
            BY DEF IInv, RunOK
        <3>2. run'[o] = run[o]
            BY <2>2
        <3>3. PlaceOK(run'[o]) /\ LoadOK(run'[o])
            BY <3>1, <3>2
        <3>4. LockOK(o, run[o])'
            BY <2>2, <3>1, <3>2 DEF LockOK
        <3>5. KEV \in Good(run[o]) \/ (run[o].pc = "record" /\ Current(run[o]) = KEV) => KEV \in Feeds
            BY <3>1, FeedIs, RunTyped DEF Good, PlaceOK
        <3>6. LandedOK(run[o])'
            BY <2>2, <3>1, <3>2, <3>5 DEF LandedOK
        <3> QED
            BY <3>3, <3>4, <3>6 DEF RunOK
    <2> QED
        BY <2>1, <2>2
<1> QED
    BY <1>1 DEF IInv

LEMMA Locks ==
    ASSUME IInv, NEW r \in Runs, Lock(r)
    PROVE IInv'
<1> DEFINE rec == run[r]
<1>1. /\ rec \in Recs /\ run \in [Runs -> Recs] /\ StoreOK /\ LoadOK(rec) /\ LandedOK(rec)
    BY RunTyped
<1>2. /\ rec.pc = "stash" /\ lock = Nobody /\ lock' = r /\ UNCHANGED <<upstream, cache, db>>
      /\ run' = [run EXCEPT ![r].pc = "load", ![r].todo = Items(rec), ![r].st = status]
    BY DEF Lock, At
<1>3. Good(rec) = {} /\ rec.wrote = {} /\ ~rec.reload
    BY <1>1, <1>2 DEF LoadOK, Fetching
<1>4. Items(rec) \in SUBSET Feeds /\ status \in Statuses
    BY <1>1 DEF Items, StoreOK
<1>5. Becomes(r, "load", Items(rec), rec.reply, rec.item, status, rec.result, rec.reload, rec.wrote)
    BY <1>1, <1>2, <1>4 DEF Becomes, Recs, Labels
<1>6. StoreOK'
    BY <1>1, <1>2 DEF StoreOK, cache, db
<1>7. RunOK(r, run[r])'
    <2>1. Good(run'[r]) = {} /\ run'[r].wrote = {} /\ run'[r].pc = "load" /\ run'[r].st = status'
        BY <1>2, <1>3, <1>5 DEF Becomes, Good, db
    <2>2. PlaceOK(run'[r])
        BY <2>1 DEF PlaceOK
    <2>3. LoadOK(run'[r])
        BY <2>1 DEF LoadOK, Fetching
    <2>4. LockOK(r, run[r])'
        BY <1>2, <2>1 DEF LockOK, Loading
    <2>5. LandedOK(run[r])'
        BY <2>1 DEF LandedOK, Landed
    <2> QED
        BY <2>2, <2>3, <2>4, <2>5 DEF RunOK
<1>8. ASSUME NEW o \in Runs, o # r
      PROVE /\ run'[o] = run[o] /\ (lock' = o <=> lock = o) /\ status' = status
            /\ Landed(run[o]) => Landed(run[o])'
    BY <1>2, <1>5, <1>8, RunsAssumption DEF Becomes, Landed, db
<1>9. rows \subseteq rows'
    BY <1>2 DEF db
<1> QED
    BY <1>5, <1>6, <1>7, <1>8, <1>9, RunStep DEF Becomes

\* The lock is let go, by the run at its end or with the process.
LEMMA LetsGo ==
    ASSUME IInv, NEW r \in Runs, Finish(r) \/ Crash(r)
    PROVE IInv'
<1> DEFINE rec == run[r]
<1>1. /\ rec \in Recs /\ run \in [Runs -> Recs] /\ StoreOK /\ LoadOK(rec) /\ LandedOK(rec)
    BY RunTyped
<1>2. /\ UNCHANGED <<upstream, cache, db>> /\ lock' \in {lock, Nobody} /\ lock' # r
      /\ \A o \in Runs : o # r => (lock' = o <=> lock = o)
    <2>1. CASE Finish(r)
        <3>1. lock = r
            BY <2>1, Alone DEF Finish, At, Loading
        <3> QED
            BY <2>1, <3>1, RunsAssumption DEF Finish
    <2>2. CASE Crash(r)
        BY <2>2, RunsAssumption DEF Crash
    <2> QED
        BY <2>1, <2>2
<1>3. StoreOK'
    BY <1>1, <1>2 DEF StoreOK, cache, db
<1>4. run' \in [Runs -> Recs] /\ (\A o \in Runs : o # r => run'[o] = run[o]) /\ RunOK(r, run[r])'
    <2>1. CASE Finish(r)
        <3>1. run' = [run EXCEPT ![r] = [@ EXCEPT !.pc = "settle", !.todo = Items(rec)]]
            BY <2>1 DEF Finish, Settling
        <3>2. Items(rec) \in SUBSET Feeds
            BY DEF Items
        <3>3. Becomes(r, "settle", Items(rec), rec.reply, rec.item, rec.st, rec.result, rec.reload, rec.wrote)
            BY <1>1, <3>1, <3>2 DEF Becomes, Recs, Labels
        <3>4. Good(run'[r]) = Good(rec) /\ run'[r].wrote = rec.wrote /\ run'[r].pc = "settle"
            BY <3>3 DEF Becomes, Good
        <3>5. PlaceOK(run'[r]) /\ LoadOK(run'[r])
            BY <3>4 DEF PlaceOK, LoadOK, Loading, Fetching
        <3>6. LockOK(r, run[r])'
            BY <1>2, <3>4 DEF LockOK, Loading
        <3>7. LandedOK(run[r])'
            BY <1>1, <1>2, <3>4 DEF LandedOK, Landed, db
        <3> QED
            BY <3>3, <3>5, <3>6, <3>7 DEF Becomes, RunOK
    <2>2. CASE Crash(r)
        <3>1. run' = [run EXCEPT ![r] = Idle] /\ Idle \in Recs /\ Fresh(Idle) /\ Idle.pc = "idle"
            BY <2>2, NewRuns DEF Crash, Idle
        <3>2. run' \in [Runs -> Recs] /\ (\A o \in Runs : o # r => run'[o] = run[o]) /\ run'[r] = Idle
            BY <1>1, <3>1
        <3>3. PlaceOK(run'[r]) /\ LoadOK(run'[r])
            BY <3>1, <3>2 DEF Fresh, PlaceOK, LoadOK, Loading
        <3>4. LockOK(r, run[r])'
            BY <1>2, <3>1, <3>2 DEF LockOK, Loading
        <3>5. LandedOK(run[r])'
            BY <3>1, <3>2 DEF Fresh, LandedOK, Landed
        <3> QED
            BY <3>2, <3>3, <3>4, <3>5 DEF RunOK
    <2> QED
        BY <2>1, <2>2
<1>5. ASSUME NEW o \in Runs, o # r
      PROVE status' = status /\ (Landed(run[o]) => Landed(run[o])')
    BY <1>2, <1>4, <1>5 DEF Landed, db
<1>6. rows \subseteq rows'
    BY <1>2 DEF db
<1> QED
    BY <1>2, <1>3, <1>4, <1>5, <1>6, RunStep

\* A run is done with a feed: as good, without touching the database, or as failed.
LEMMA DoneWith ==
    ASSUME IInv, NEW r \in Runs, Unchanged(r) \/ LoadFails(r) \/ RecordFails(r)
    PROVE IInv'
<1> DEFINE rec == run[r]
           f == Feed(r)
<1>1. /\ rec \in Recs /\ run \in [Runs -> Recs] /\ StoreOK /\ f = Current(rec)
      /\ PlaceOK(rec) /\ LoadOK(rec) /\ LockOK(r, rec) /\ LandedOK(rec)
      /\ rec.todo \in SUBSET Feeds /\ rec.result \in [Feeds -> Outcomes]
    BY RunTyped
<1>2. Loading(rec) /\ rec.todo # {} /\ (Unchanged(r) => rec.pc = "load")
    BY <1>1 DEF Unchanged, LoadFails, RecordFails, At, More, Loading, PlaceOK
<1>3. f \in rec.todo /\ f \in Feeds /\ (f = KEV => rec.todo = {KEV}) /\ f \notin Good(rec)
    BY <1>1, <1>2, FeedIs DEF LoadOK
<1>4. Unchanged(r) /\ f = KEV => ~rec.reload
    BY DEF Unchanged, Due
<1> HIDE DEF f
<1>5. PICK outcome \in {"unchanged", "failed"} :
        /\ outcome = "unchanged" => Unchanged(r)
        /\ run' = [run EXCEPT ![r].result[f] = outcome, ![r].pc = "load", ![r].todo = @ \ {f}]
    BY DEF Unchanged, LoadFails, RecordFails, Done, f
<1> DEFINE result == [rec.result EXCEPT ![f] = outcome]
<1>6. result \in [Feeds -> Outcomes] /\ result[f] = outcome /\ \A g \in Feeds : g # f => result[g] = rec.result[g]
    BY <1>1, <1>3 DEF Outcomes
<1>7. Becomes(r, "load", rec.todo \ {f}, rec.reply, rec.item, rec.st, result, rec.reload, rec.wrote)
    <2>1. rec.todo \ {f} \in SUBSET Feeds
        BY <1>1
    <2> QED
        BY <1>1, <1>5, <1>6, <2>1 DEF Becomes, Recs, Labels
<1> HIDE DEF result
<1>8. /\ run'[r].pc = "load" /\ run'[r].todo = rec.todo \ {f} /\ run'[r].reload = rec.reload
      /\ run'[r].wrote = rec.wrote /\ run'[r].st = rec.st
      /\ Good(run'[r]) = IF outcome = "unchanged" THEN Good(rec) \cup {f} ELSE Good(rec)
    <2>1. \A g \in Feeds : run'[r].result[g] = IF g = f THEN outcome ELSE rec.result[g]
        BY <1>6, <1>7 DEF Becomes
    <2> QED
        BY <1>3, <1>7, <2>1 DEF Becomes, Good
<1>9. UNCHANGED <<upstream, cache, lock, db>>
    BY DEF Unchanged, LoadFails, RecordFails
<1>10. StoreOK'
    BY <1>1, <1>9 DEF StoreOK, cache, db
<1>11. PlaceOK(run'[r])
    BY <1>8 DEF PlaceOK
<1>12. KEV \notin Good(rec)
    BY <1>1, <1>2 DEF LoadOK
<1>13. LoadOK(run'[r])
    <2>1. run'[r].todo \cap Good(run'[r]) = {} /\ (KEV \in Good(run'[r]) => run'[r].todo = {})
        BY <1>1, <1>2, <1>3, <1>8, <1>12 DEF LoadOK
    <2>2. Feeds \subseteq Good(run'[r]) \cup run'[r].todo => outcome = "unchanged" /\ Feeds \subseteq Good(rec) \cup rec.todo
        BY <1>3, <1>8
    <2>3. Feeds \subseteq Good(run'[r]) \cup run'[r].todo /\ run'[r].wrote # {} => run'[r].reload
        BY <1>1, <1>2, <1>5, <1>8, <2>2 DEF LoadOK
    <2> QED
        BY <1>8, <2>1, <2>3 DEF LoadOK, Fetching
<1>14. LockOK(r, run'[r])
    BY <1>1, <1>2, <1>8 DEF LockOK, Loading
<1>15. LandedOK(run'[r])
    <2>1. ASSUME KEV \in Good(run'[r]), Good(run'[r]) = Feeds PROVE rec.wrote = {}
        <3>1. outcome = "unchanged" /\ f = KEV
            BY <1>8, <1>12, <2>1
        <3>2. Feeds \subseteq Good(rec) \cup rec.todo /\ ~rec.reload /\ rec.pc = "load"
            BY <1>2, <1>3, <1>4, <1>5, <1>8, <2>1, <3>1
        <3> QED
            BY <1>1, <1>2, <3>2 DEF LoadOK
    <2> QED
        BY <1>1, <1>8, <2>1 DEF LandedOK, Landed
<1> QED
    BY <1>7, <1>9, <1>10, <1>11, <1>13, <1>14, <1>15, QuietStep DEF Becomes

-----------------------------------------------------------------------------
(* Loading a feed.                                                         *)

\* What a file holds.
LEMMA FileHolds ==
    ASSUME NEW f \in Feeds, NEW n \in Files(f)
    PROVE IsFiniteSet(Serves(f, n)) /\ Serves(f, n) \subseteq Ids
<1>1. CASE n = 0
    BY <1>1, FS_EmptySet DEF Serves
<1>2. CASE n # 0
    <2> DEFINE S == IF f = KEV THEN Cves ELSE Ids
    <2>1. Published[f] \in Seq(SUBSET S)
        BY PublishedAssumption
    <2>2. S \subseteq Ids
        BY CveOfAssumption
    <2> HIDE DEF S
    <2>3. n \in 1 .. Len(Published[f])
        <3>1. Len(Published[f]) \in Nat /\ n \in 0 .. Len(Published[f])
            BY <2>1 DEF Files
        <3> QED
            BY <1>2, <3>1
    <2>4. n \in DOMAIN Published[f] /\ Published[f][n] \in SUBSET S
        BY <2>1, <2>3
    <2>5. IsFiniteSet(Published[f][n])
        BY <2>4, PublishedAssumption
    <2> QED
        BY <1>2, <2>2, <2>5, <2>4 DEF Serves
<1> QED
    BY <1>1, <1>2

LEMMA Loads ==
    ASSUME IInv, NEW r \in Runs, Load(r)
    PROVE IInv'
<1> DEFINE rec == run[r]
           f == Feed(r)
           records == Serves(f, data[f])
           wrote == IF f = KEV THEN rec.wrote ELSE rec.wrote \cup records
<1>1. /\ rec \in Recs /\ run \in [Runs -> Recs] /\ StoreOK /\ f = Current(rec)
      /\ PlaceOK(rec) /\ LoadOK(rec) /\ LockOK(r, rec) /\ LandedOK(rec)
      /\ rec.todo \in SUBSET Feeds /\ rec.wrote \in SUBSET Ids
    BY RunTyped
<1>2. Loading(rec) /\ rec.todo # {} /\ rec.pc = "load"
    BY DEF Load, At, More, Loading
<1>3. f \in rec.todo /\ f \in Feeds /\ (f = KEV => rec.todo = {KEV})
    BY <1>1, <1>2, FeedIs
<1>4. IsFiniteSet(records) /\ records \subseteq Ids
    <2>1. data[f] \in Files(f)
        BY <1>1, <1>3 DEF StoreOK
    <2> QED
        BY <1>3, <2>1, FileHolds
<1>5. /\ run' = [run EXCEPT ![r].pc = "record", ![r].wrote = IF f = KEV THEN @ ELSE @ \cup records]
      /\ loaded' = [loaded EXCEPT ![f] = records]
      /\ f = KEV => rows' = rows \cup Stubs(records) /\ flagged' = Flag(records)
      /\ f # KEV => rows' = rows \cup records /\ flagged' = flagged
      /\ UNCHANGED <<upstream, cache, lock, status>>
    BY DEF Load
<1> HIDE DEF f, records
<1>6. /\ \A g \in Feeds : loaded'[g] = IF g = f THEN records ELSE loaded[g]
      /\ DOMAIN loaded' = Feeds
    BY <1>1, <1>3, <1>5 DEF StoreOK
<1>7. StoreOK'
    <2>1. rows' \subseteq Ids
        BY <1>1, <1>4, <1>5 DEF StoreOK, Stubs
    <2> QED
        BY <1>1, <1>4, <1>5, <1>6, <2>1 DEF StoreOK, cache
<1>8. wrote \in SUBSET Ids
    BY <1>1, <1>4
<1>9. Becomes(r, "record", rec.todo, rec.reply, rec.item, rec.st, rec.result, rec.reload, wrote)
    BY <1>1, <1>5, <1>8 DEF Becomes, Recs, Labels
<1>10. /\ run'[r].pc = "record" /\ run'[r].todo = rec.todo /\ run'[r].reload = rec.reload
       /\ run'[r].wrote = wrote /\ run'[r].st = rec.st /\ Good(run'[r]) = Good(rec)
       /\ Loading(run'[r]) /\ Current(run'[r]) = f
    <2>1. Loading(run'[r]) = TRUE /\ Loading(rec) = TRUE /\ run'[r].todo = rec.todo
        BY <1>2, <1>9 DEF Becomes, Loading
    <2>2. Current(run'[r]) = f
        BY <1>1, <2>1 DEF Current
    <2> QED
        BY <1>9, <2>1, <2>2 DEF Becomes, Good
<1>11. rows \subseteq rows' /\ wrote \subseteq rows'
    BY <1>1, <1>5 DEF LandedOK
<1>12. ASSUME f = KEV, NEW x \in Runs, run[x].wrote \subseteq rows,
              NEW id \in run[x].wrote, CveOf[id] \in loaded'[KEV]
       PROVE id \in flagged'
    BY <1>3, <1>5, <1>6, <1>12 DEF Flag
<1>13. RunOK(r, run[r])'
    <2>1. PlaceOK(run'[r])
        BY <1>2, <1>10 DEF PlaceOK
    <2>2. LoadOK(run'[r])
        BY <1>1, <1>2, <1>10 DEF LoadOK, Fetching
    <2>3. LockOK(r, run[r])'
        BY <1>1, <1>2, <1>5, <1>10 DEF LockOK
    <2>4. KEV \notin Good(rec)
        BY <1>1, <1>2 DEF LoadOK
    <2>5. f = KEV => Landed(run[r])'
        BY <1>1, <1>10, <1>12 DEF Landed, LandedOK
    <2>6. LandedOK(run[r])'
        BY <1>10, <1>11, <2>4, <2>5 DEF LandedOK
    <2> QED
        BY <2>1, <2>2, <2>3, <2>6 DEF RunOK
<1>14. ASSUME NEW o \in Runs, o # r
       PROVE /\ run'[o] = run[o] /\ (lock' = o <=> lock = o) /\ status' = status
             /\ KEV \in Feeds /\ Landed(run[o]) => Landed(run[o])'
    <2>1. run'[o] = run[o] /\ lock' = lock /\ status' = status /\ run[o].wrote \subseteq rows
        BY <1>5, <1>9, <1>14, RunTyped DEF Becomes, LandedOK
    <2>2. CASE f = KEV
        BY <1>12, <2>1, <2>2 DEF Landed
    <2>3. CASE f # KEV
        BY <1>5, <1>6, <2>1, <2>3 DEF Landed
    <2> QED
        BY <2>1, <2>2, <2>3
<1> QED
    BY <1>7, <1>9, <1>11, <1>13, <1>14, RunStep DEF Becomes

LEMMA Records ==
    ASSUME IInv, NEW r \in Runs, Record(r)
    PROVE IInv'
<1> DEFINE rec == run[r]
           f == Feed(r)
           result == [rec.result EXCEPT ![f] = "loaded"]
<1>1. /\ rec \in Recs /\ run \in [Runs -> Recs] /\ StoreOK /\ f = Current(rec)
      /\ PlaceOK(rec) /\ LoadOK(rec) /\ LockOK(r, rec) /\ LandedOK(rec)
      /\ rec.todo \in SUBSET Feeds /\ rec.result \in [Feeds -> Outcomes]
      /\ rec.item \in [Feeds -> Nat] /\ rec.reload \in BOOLEAN
    BY RunTyped
<1>2. Loading(rec) /\ rec.todo # {} /\ rec.pc = "record"
    BY <1>1 DEF Record, At, Loading, PlaceOK
<1>3. f \in rec.todo /\ f \in Feeds /\ (f = KEV => rec.todo = {KEV}) /\ KEV \notin Good(rec)
    BY <1>1, <1>2, FeedIs DEF LoadOK
<1>4. /\ run' = [run EXCEPT ![r].result[f] = "loaded", ![r].pc = "load", ![r].todo = @ \ {f},
                            ![r].reload = @ \/ f # KEV]
      /\ status' = [status EXCEPT ![f] = Recorded(r, f)]
      /\ UNCHANGED <<upstream, cache, lock, loaded, rows, flagged>>
    BY DEF Record
<1> HIDE DEF f
<1>5. Recorded(r, f) \in [file : Nat, count : Nat]
    <2>1. Cardinality(loaded[f]) \in Nat
        BY <1>1, <1>3, FS_CardinalityType DEF StoreOK
    <2> QED
        BY <1>1, <1>3, <2>1 DEF Recorded
<1>6. status' \in Statuses /\ \A g \in Feeds : g # f => status'[g] = status[g]
    BY <1>1, <1>4, <1>5 DEF StoreOK, Statuses
<1>7. StoreOK'
    BY <1>1, <1>4, <1>6 DEF StoreOK, cache
<1>8. result \in [Feeds -> Outcomes] /\ \A g \in Feeds : result[g] = IF g = f THEN "loaded" ELSE rec.result[g]
    BY <1>1, <1>3 DEF Outcomes
<1>9. Becomes(r, "load", rec.todo \ {f}, rec.reply, rec.item, rec.st, result, rec.reload \/ f # KEV, rec.wrote)
    <2>1. rec.todo \ {f} \in SUBSET Feeds /\ (rec.reload \/ f # KEV) \in BOOLEAN
        BY <1>1
    <2> QED
        BY <1>1, <1>4, <1>8, <2>1 DEF Becomes, Recs, Labels
<1> HIDE DEF result
<1>10. /\ run'[r].pc = "load" /\ run'[r].todo = rec.todo \ {f} /\ run'[r].wrote = rec.wrote
       /\ run'[r].reload <=> (rec.reload \/ f # KEV)
       /\ run'[r].st = rec.st /\ Good(run'[r]) = Good(rec) \cup {f} /\ Loading(run'[r])
    BY <1>3, <1>8, <1>9 DEF Becomes, Good, Loading
<1>11. RunOK(r, run[r])'
    <2>1. PlaceOK(run'[r])
        BY <1>10 DEF PlaceOK
    <2>2. LoadOK(run'[r])
        <3>1. run'[r].todo \cap Good(run'[r]) = {} /\ (KEV \in Good(run'[r]) => run'[r].todo = {})
            BY <1>1, <1>2, <1>3, <1>10 DEF LoadOK
        <3>2. Feeds \subseteq Good(run'[r]) \cup run'[r].todo => Feeds \subseteq Good(rec) \cup rec.todo
            BY <1>3, <1>10
        <3>3. Feeds \subseteq Good(run'[r]) \cup run'[r].todo /\ run'[r].wrote # {} => run'[r].reload
            BY <1>1, <1>2, <1>10, <3>2 DEF LoadOK
        <3> QED
            BY <1>10, <3>1, <3>3 DEF LoadOK, Fetching
    <2>3. LockOK(r, run[r])'
        <3>1. \A g \in rec.todo \ {f} : rec.st[g] = status'[g]
            BY <1>1, <1>2, <1>6 DEF LockOK
        <3> QED
            BY <1>1, <1>2, <1>4, <1>10, <3>1 DEF LockOK
    <2>4. LandedOK(run[r])'
        <3>1. KEV \in Good(run'[r]) => f = KEV
            BY <1>3, <1>10
        <3> QED
            BY <1>1, <1>2, <1>4, <1>10, <3>1 DEF LandedOK, Landed
    <2> QED
        BY <2>1, <2>2, <2>3, <2>4 DEF RunOK
<1>12. ASSUME NEW o \in Runs, o # r
       PROVE run'[o] = run[o] /\ lock' = lock /\ ~Loading(run[o]) /\ (Landed(run[o]) => Landed(run[o])')
    BY <1>2, <1>4, <1>9, <1>12, Alone DEF Becomes, Landed
<1> QED
    BY <1>4, <1>7, <1>9, <1>11, <1>12, RunStep DEF Becomes

-----------------------------------------------------------------------------
(* The invariant, and what it says.                                        *)

LEMMA Publishes ==
    ASSUME IInv, NEW f \in Feeds, Publish(f)
    PROVE IInv'
<1>1. /\ upstream \in [Feeds -> Nat] /\ \A g \in Feeds : upstream[g] \in Files(g)
      /\ Published[f] \in Seq(SUBSET (IF f = KEV THEN Cves ELSE Ids))
    BY PublishedAssumption DEF IInv, StoreOK
<1>2. upstream[f] + 1 \in Files(f) /\ upstream[f] + 1 \in Nat
    <2>1. upstream[f] \in Nat /\ upstream[f] < Len(Published[f]) /\ Len(Published[f]) \in Nat
        BY <1>1 DEF Publish
    <2> QED
        BY <2>1 DEF Files
<1>3. upstream' \in [Feeds -> Nat] /\ \A g \in Feeds : upstream'[g] \in Files(g)
    BY <1>1, <1>2 DEF Publish
<1>4. UNCHANGED <<cache, lock, db, run>>
    BY DEF Publish
<1>5. StoreOK'
    BY <1>3, <1>4 DEF IInv, StoreOK, cache, db
<1>6. ASSUME NEW o \in Runs PROVE RunOK(o, run[o])'
    <2>1. RunOK(o, run[o])
        BY DEF IInv
    <2> QED
        BY <1>4, <2>1 DEF db, RunOK, LockOK, LandedOK, Landed
<1> QED
    BY <1>4, <1>5, <1>6 DEF IInv

LEMMA StepKeeps == IInv /\ [Next]_vars => IInv'
<1> SUFFICES ASSUME IInv, [Next]_vars PROVE IInv'
    OBVIOUS
<1>1. CASE UNCHANGED vars
    <2>1. UNCHANGED <<upstream, cache, lock, db, run>>
        BY <1>1 DEF vars
    <2>2. StoreOK'
        BY <2>1 DEF IInv, StoreOK, cache, db
    <2>3. ASSUME NEW o \in Runs PROVE RunOK(o, run[o])'
        <3>1. RunOK(o, run[o])
            BY DEF IInv
        <3> QED
            BY <2>1, <3>1 DEF db, RunOK, LockOK, LandedOK, Landed
    <2> QED
        BY <2>1, <2>2, <2>3 DEF IInv
<1>2. CASE \E f \in Feeds : Publish(f)
    BY <1>2, Publishes
<1>3. ASSUME NEW r \in Runs, Start(r) \/ NoLock(r) \/ Settle(r) PROVE IInv'
    BY <1>3, Elsewhere
<1>4. ASSUME NEW r \in Runs, Fetch(r) \/ FetchFails(r) PROVE IInv'
    BY <1>4, Downloads
<1>5. ASSUME NEW r \in Runs, Lock(r) PROVE IInv'
    BY <1>5, Locks
<1>6. ASSUME NEW r \in Runs, Finish(r) \/ Crash(r) PROVE IInv'
    BY <1>6, LetsGo
<1>7. ASSUME NEW r \in Runs, Unchanged(r) \/ LoadFails(r) \/ RecordFails(r) PROVE IInv'
    BY <1>7, DoneWith
<1>8. ASSUME NEW r \in Runs, Load(r) PROVE IInv'
    BY <1>8, Loads
<1>9. ASSUME NEW r \in Runs, Record(r) PROVE IInv'
    BY <1>9, Records
<1> QED
    BY <1>1, <1>2, <1>3, <1>4, <1>5, <1>6, <1>7, <1>8, <1>9 DEF Next, Process

LEMMA InitHolds == Init => IInv
<1> SUFFICES ASSUME Init PROVE IInv
    OBVIOUS
<1>1. StoreOK
    <2>1. \A f \in Feeds : 0 \in Files(f) /\ 1 \in Files(f)
        <3>1. ASSUME NEW f \in Feeds PROVE 0 \in Files(f) /\ 1 \in Files(f)
            <4>1. Published[f] \in Seq(SUBSET (IF f = KEV THEN Cves ELSE Ids)) /\ Published[f] # <<>>
                BY PublishedAssumption
            <4>2. Len(Published[f]) \in Nat \ {0}
                BY <4>1
            <4> QED
                BY <4>2 DEF Files
        <3> QED
            BY <3>1
    <2>2. status \in Statuses
        BY DEF Init, NoStatus, Statuses
    <2>3. IsFiniteSet({})
        BY FS_EmptySet
    <2>4. \A c \in {upstream, data, prevData} : c \in [Feeds -> Nat] /\ \A f \in Feeds : c[f] \in Files(f)
        BY <2>1 DEF Init, NoFiles
    <2> QED
        BY <2>2, <2>3, <2>4 DEF Init, StoreOK
<1>2. run = [r \in Runs |-> Idle] /\ Idle \in Recs /\ Fresh(Idle) /\ Idle.pc = "idle"
    BY NewRuns DEF Init, Idle
<1>3. ASSUME NEW r \in Runs PROVE RunOK(r, run[r])
    <2>1. run[r] = Idle /\ lock # r
        BY <1>2, RunsAssumption DEF Init
    <2> QED
        BY <1>2, <2>1 DEF Fresh, RunOK, PlaceOK, LoadOK, LockOK, LandedOK, Landed, Loading
<1> QED
    BY <1>1, <1>2, <1>3 DEF IInv

LEMMA InvariantSays == KEV \in Feeds /\ IInv => EnrichmentLands
<1> SUFFICES ASSUME KEV \in Feeds, IInv, NEW r \in Runs,
                    \A f \in Feeds : run[r].result[f] \in {"loaded", "unchanged"},
                    NEW id \in run[r].wrote, CveOf[id] \in loaded[KEV]
             PROVE id \in flagged
    BY DEF EnrichmentLands
<1>1. Good(run[r]) = Feeds
    BY DEF Good
<1>2. LandedOK(run[r])
    BY RunTyped
<1> QED
    BY <1>1, <1>2 DEF LandedOK, Landed

LEMMA StepTruncates ==
    ASSUME IInv, [Next]_vars, NEW f \in Feeds, loaded'[f] # loaded[f],
           status[f].count = Cardinality(loaded[f]), status[f].count >= ShrinkFloor
    PROVE Cardinality(loaded'[f]) * 2 >= Cardinality(loaded[f])
<1>1. PICK r \in Runs : Load(r)
    <2>1. loaded' # loaded
        OBVIOUS
    <2>2. ASSUME NEW r \in Runs, Fetch(r) \/ FetchFails(r) PROVE FALSE
        BY <2>1, <2>2 DEF Fetch, Stash, Request, Install, SaveMeta, FetchFails, db
    <2>3. ASSUME NEW r \in Runs, Process(r) \/ RecordFails(r), ~Load(r) PROVE FALSE
        BY <2>1, <2>3 DEF Process, Lock, NoLock, Unchanged, LoadFails, Record, RecordFails, Finish, db
    <2>4. ASSUME NEW r \in Runs, Settle(r) PROVE FALSE
        BY <2>1, <2>4 DEF Settle, Keep, NothingToRestore, RestoreData, RestoreMeta, End, db
    <2>5. ASSUME NEW r \in Runs, Start(r) \/ Crash(r) PROVE FALSE
        BY <2>1, <2>5 DEF Start, Crash, db
    <2>6. ~UNCHANGED vars /\ \A g \in Feeds : ~Publish(g)
        BY <2>1 DEF vars, Publish, db
    <2> QED
        BY <2>2, <2>3, <2>4, <2>5, <2>6 DEF Next
<1>2. StoreOK /\ LockOK(r, run[r]) /\ run[r].todo \in SUBSET Feeds
    BY RunTyped
<1>3. Loading(run[r]) /\ run[r].todo # {}
    BY <1>1 DEF Load, At, More, Loading
<1>4. Feed(r) \in run[r].todo /\ Feed(r) \in Feeds
    BY <1>3, FeedIs
<1> DEFINE records == Serves(Feed(r), data[Feed(r)])
<1>5. loaded' = [loaded EXCEPT ![Feed(r)] = records] /\ Accepts(Feed(r), run[r].st[Feed(r)], records)
    BY <1>1 DEF Load
<1>6. IsFiniteSet(records)
    BY <1>2, <1>4, FileHolds DEF StoreOK
<1> HIDE DEF records
<1>7. f = Feed(r) /\ loaded'[f] = records
    BY <1>2, <1>5 DEF StoreOK
<1>8. run[r].st[f] = status[f]
    BY <1>2, <1>3, <1>4, <1>7 DEF LockOK
<1>9. Cardinality(records) \in Nat /\ Cardinality(loaded[f]) \in Nat
    BY <1>2, <1>6, FS_CardinalityType DEF StoreOK
<1>10. ~(Cardinality(records) * 2 < Cardinality(loaded[f]))
    BY <1>5, <1>7, <1>8 DEF Accepts
<1> QED
    BY <1>7, <1>9, <1>10

-----------------------------------------------------------------------------
(***************************************************************************)
(* The reads of an identity tenant (IdentityRuns).                         *)
(***************************************************************************)

-----------------------------------------------------------------------------
(* Stretches of reads, of the reads that say a finding and those that deny it. *)

\* The least of a set of numbers, and where a stretch that begins at i is denied.
LeastOf(T) == CHOOSE x \in T : \A y \in T : x <= y
Later(D, i) == {k \in D : k > i}
Ends(D, i) == IF Later(D, i) = {} THEN 0 ELSE LeastOf(Later(D, i))

Begins(S, D) == {i \in S : \A j \in S : j < i => \E k \in D : j < k /\ k < i}
StretchesOf(S, D) == {[first |-> i, resolved |-> Ends(D, i)] : i \in Begins(S, D)}

\* A stretch that no read has denied.
Lasting(S, D) == \E i \in S : Later(D, i) = {}

LEMMA LeastExists ==
    ASSUME NEW T, T \subseteq Nat, T # {}
    PROVE LeastOf(T) \in T /\ \A y \in T : LeastOf(T) <= y
<1>1. PICK x \in T : \A y \in T : ~ (<<y, x>> \in OpToRel(<, Nat))
    BY WFMin, NatLessThanWellFounded
<1>2. ASSUME NEW y \in T PROVE x <= y
    <2>1. ~(y < x)
        BY <1>1 DEF OpToRel
    <2> QED
        BY <2>1
<1> QED
    BY <1>1, <1>2 DEF LeastOf

LEMMA LeastIs ==
    ASSUME NEW T, T \subseteq Nat, NEW m \in T, \A y \in T : m <= y
    PROVE LeastOf(T) = m
<1>1. LeastOf(T) \in T /\ LeastOf(T) <= m /\ m <= LeastOf(T)
    BY LeastExists
<1>2. m \in Nat /\ LeastOf(T) \in Nat
    BY <1>1
<1> QED
    BY <1>1, <1>2

\* The number that stands for a denial to come, one past the last read, drops out.
LEMMA EndsAsWritten ==
    ASSUME NEW n \in Nat, NEW D \in SUBSET (1 .. n), NEW i \in 1 .. n
    PROVE Identity!Min({k \in D : k > i} \cup {n + 1}) % (n + 1) = Ends(D, i)
<1> DEFINE T == Later(D, i) \cup {n + 1}
<1>1. Later(D, i) \subseteq 1 .. n /\ T \subseteq Nat
    <2>1. Later(D, i) \subseteq D
        BY DEF Later
    <2>2. Later(D, i) \subseteq 1 .. n
        BY <2>1
    <2>3. 1 .. n \subseteq Nat /\ n + 1 \in Nat
        OBVIOUS
    <2> QED
        BY <2>2, <2>3
<1>2. Identity!Min({k \in D : k > i} \cup {n + 1}) = LeastOf(T)
    BY DEF Identity!Min, LeastOf, Later
<1>3. CASE Later(D, i) = {}
    <2>1. LeastOf(T) = n + 1
        BY <1>1, <1>3, LeastIs
    <2>2. (n + 1) % (n + 1) = 0
        OBVIOUS
    <2> QED
        BY <1>2, <1>3, <2>1, <2>2 DEF Ends
<1>4. CASE Later(D, i) # {}
    <2> DEFINE m == LeastOf(Later(D, i))
    <2>1. m \in Later(D, i) /\ \A y \in Later(D, i) : m <= y
        BY <1>1, <1>4, LeastExists
    <2>2. m \in 1 .. n
        BY <1>1, <2>1
    <2> HIDE DEF m
    <2>3. LeastOf(T) = m
        BY <1>1, <2>1, <2>2, LeastIs
    <2>4. m % (n + 1) = m
        BY <2>2
    <2> QED
        BY <1>2, <1>4, <2>3, <2>4 DEF Ends, m
<1> QED
    BY <1>3, <1>4

\* A read that says the finding: it begins a stretch unless one lasts.
LEMMA SaidAgain ==
    ASSUME NEW n \in Nat, NEW S \in SUBSET (1 .. n), NEW D \in SUBSET (1 .. n)
    PROVE StretchesOf(S \cup {n + 1}, D) =
            StretchesOf(S, D) \cup
                (IF Lasting(S, D) THEN {} ELSE {[first |-> n + 1, resolved |-> 0]})
<1>1. \A i \in S : i \in Begins(S \cup {n + 1}, D) <=> i \in Begins(S, D)
    BY DEF Begins
<1>2. n + 1 \in Begins(S \cup {n + 1}, D) <=> ~Lasting(S, D)
    <2>1. \A j \in S : j < n + 1
        OBVIOUS
    <2>2. \A k \in D : k < n + 1 /\ ~(n + 1 < n + 1)
        OBVIOUS
    <2>3. n + 1 \in Begins(S \cup {n + 1}, D) <=> \A j \in S : \E k \in D : j < k
        BY <2>1, <2>2 DEF Begins
    <2>4. \A j \in S, k \in D : j < k <=> k > j
        OBVIOUS
    <2> QED
        BY <2>3, <2>4 DEF Lasting, Later
<1>3. Begins(S \cup {n + 1}, D) = Begins(S, D) \cup (IF Lasting(S, D) THEN {} ELSE {n + 1})
    BY <1>1, <1>2 DEF Begins
<1>4. Ends(D, n + 1) = 0
    <2>1. \A k \in D : ~(k > n + 1)
        OBVIOUS
    <2> QED
        BY <2>1 DEF Ends, Later
<1> QED
    BY <1>3, <1>4 DEF StretchesOf

\* A read that denies it: the stretch that lasts is at its end.
LEMMA DeniedThen ==
    ASSUME NEW n \in Nat, NEW S \in SUBSET (1 .. n), NEW D \in SUBSET (1 .. n)
    PROVE StretchesOf(S, D \cup {n + 1}) =
            {IF p.resolved = 0 THEN [p EXCEPT !.resolved = n + 1] ELSE p : p \in StretchesOf(S, D)}
<1>1. Begins(S, D \cup {n + 1}) = Begins(S, D) /\ Begins(S, D) \subseteq 1 .. n
    <2>1. \A i \in S : ~(n + 1 < i)
        OBVIOUS
    <2> QED
        BY <2>1 DEF Begins
<1>2. ASSUME NEW i \in 1 .. n
      PROVE Ends(D \cup {n + 1}, i) = IF Ends(D, i) = 0 THEN n + 1 ELSE Ends(D, i)
    <2>1. Later(D \cup {n + 1}, i) = Later(D, i) \cup {n + 1} /\ Later(D, i) \subseteq 1 .. n
        <3>1. n + 1 > i /\ Later(D, i) \subseteq D
            BY DEF Later
        <3> QED
            BY <3>1 DEF Later
    <2>2. CASE Later(D, i) = {}
        <3>1. LeastOf({n + 1}) = n + 1
            BY LeastIs
        <3> QED
            BY <2>1, <2>2, <3>1 DEF Ends
    <2>3. CASE Later(D, i) # {}
        <3> DEFINE m == LeastOf(Later(D, i))
        <3>1. m \in Later(D, i) /\ \A y \in Later(D, i) : m <= y
            BY <2>1, <2>3, LeastExists
        <3> HIDE DEF m
        <3>2. LeastOf(Later(D, i) \cup {n + 1}) = m /\ m # 0
            BY <2>1, <3>1, LeastIs
        <3> QED
            BY <2>1, <2>3, <3>2 DEF Ends, m
    <2> QED
        BY <2>2, <2>3
<1> DEFINE p(i) == [first |-> i, resolved |-> Ends(D, i)]
           q(i) == [first |-> i, resolved |-> Ends(D \cup {n + 1}, i)]
           late(x) == IF x.resolved = 0 THEN [x EXCEPT !.resolved = n + 1] ELSE x
<1>3. \A i \in Begins(S, D) : q(i) = late(p(i))
    BY <1>1, <1>2
<1>4. StretchesOf(S, D \cup {n + 1}) = {q(i) : i \in Begins(S, D)}
    BY <1>1 DEF StretchesOf
<1>5. {late(x) : x \in StretchesOf(S, D)} = {late(p(i)) : i \in Begins(S, D)}
    BY DEF StretchesOf
<1> HIDE DEF p, q, late
<1>6. {q(i) : i \in Begins(S, D)} = {late(p(i)) : i \in Begins(S, D)}
    BY <1>3
<1>7. StretchesOf(S, D \cup {n + 1}) = {late(x) : x \in StretchesOf(S, D)}
    BY <1>4, <1>5, <1>6
<1> QED
    BY <1>7 DEF late

-----------------------------------------------------------------------------
(* The invariant.                                                          *)

ReadLabels == {"idle", "claim", "read", "collect", "release"}
Readers == [pc : ReadLabels, tenant : Tenants \cup {NoTenant}]
ReadRuns == [tenant : Tenants \cup {NoTenant}, says : SUBSET Findings, denies : SUBSET Findings]

\* Which reads of a sequence say a finding, and which deny it.
Saying(s, f) == {i \in DOMAIN s : f \in s[i].says}
Denying(s, f) == {i \in DOMAIN s : f \in s[i].denies}

\* The shape of what is stored.
ReadsTypeOK ==
    /\ tenant \in Tenants \cup {NoTenant}
    /\ reads \in Seq(ReadRuns)
    /\ idRows \in [Findings -> [first : Nat, resolved : Nat]]
    /\ DOMAIN past = Findings
    /\ reader \in [Workers -> Readers]

\* The row of a finding is its last stretch, and open as long as no read denies it.
RowInv ==
    \A f \in Findings :
        /\ \A p \in past[f] : p.resolved # 0
        /\ f \in Identity!Open <=> Lasting(Saying(reads, f), Denying(reads, f))

ReadsIInv == ReadsTypeOK /\ RowInv /\ Identity!IntervalsFollowReads

LEMMA StretchesAsWritten ==
    ASSUME NEW s \in Seq(ReadRuns), NEW f
    PROVE LET saying == {i \in DOMAIN s : f \in s[i].says}
              denying == {i \in DOMAIN s : f \in s[i].denies}
              begins == {i \in saying : \A j \in saying : j < i => \E k \in denying : j < k /\ k < i} IN
          {[first |-> i, resolved |-> Identity!Min({j \in denying : j > i} \cup {Len(s) + 1}) % (Len(s) + 1)]
              : i \in begins} = StretchesOf(Saying(s, f), Denying(s, f))
<1> DEFINE n == Len(s)
           S == Saying(s, f)
           D == Denying(s, f)
           B == {i \in S : \A j \in S : j < i => \E k \in D : j < k /\ k < i}
<1>1. n \in Nat /\ S \in SUBSET (1 .. n) /\ D \in SUBSET (1 .. n) /\ B = Begins(S, D)
    BY DEF Saying, Denying, Begins
<1>2. SUFFICES {[first |-> i, resolved |-> Identity!Min({k \in D : k > i} \cup {n + 1}) % (n + 1)] : i \in B} = StretchesOf(S, D)
    BY DEF Saying, Denying
<1> HIDE DEF n, S, D, B
<1>3. \A i \in B : Identity!Min({k \in D : k > i} \cup {n + 1}) % (n + 1) = Ends(D, i)
    BY <1>1, EndsAsWritten DEF Begins
<1> QED
    BY <1>1, <1>3 DEF StretchesOf

\* What one more read says and denies.
LEMMA OneMore ==
    ASSUME NEW s \in Seq(ReadRuns), NEW entry \in ReadRuns, NEW f
    PROVE LET t == Append(s, entry) IN
          /\ t \in Seq(ReadRuns)
          /\ Saying(t, f) = Saying(s, f) \cup (IF f \in entry.says THEN {Len(s) + 1} ELSE {})
          /\ Denying(t, f) = Denying(s, f) \cup (IF f \in entry.denies THEN {Len(s) + 1} ELSE {})
<1> DEFINE n == Len(s)
           t == Append(s, entry)
<1>1. /\ t \in Seq(ReadRuns) /\ DOMAIN t = 1 .. (n + 1) /\ DOMAIN s = 1 .. n
      /\ t[n + 1] = entry /\ n \in Nat /\ \A i \in 1 .. n : t[i] = s[i]
    OBVIOUS
<1>2. 1 .. (n + 1) = (1 .. n) \cup {n + 1} /\ n + 1 \notin 1 .. n
    BY <1>1
<1> HIDE DEF n, t
<1>3. \A i : i \in Saying(t, f) <=> i \in Saying(s, f) \/ (i = n + 1 /\ f \in entry.says)
    BY <1>1, <1>2 DEF Saying
<1>4. \A i : i \in Denying(t, f) <=> i \in Denying(s, f) \/ (i = n + 1 /\ f \in entry.denies)
    BY <1>1, <1>2 DEF Denying
<1> QED
    BY <1>1, <1>3, <1>4 DEF n, t

LEMMA LastingThen ==
    ASSUME NEW n \in Nat, NEW S \in SUBSET (1 .. n), NEW D \in SUBSET (1 .. n)
    PROVE Lasting(S \cup {n + 1}, D) /\ ~Lasting(S, D \cup {n + 1})
<1>1. (\A k \in D : ~(k > n + 1)) /\ \A i \in S : n + 1 > i
    OBVIOUS
<1> QED
    BY <1>1 DEF Lasting, Later

\* What a read makes of the row of a finding and of its earlier intervals.
LEMMA RowCases ==
    ASSUME NEW report \in Identity!Reports, NEW f \in Findings, NEW t
    PROVE /\ f \in Identity!Reported(report) => f \notin Identity!Denied(report)
          /\ CASE f \in Identity!Reported(report) /\ f \notin Identity!Open ->
                    /\ Identity!Row(f, report, t) = [first |-> t, resolved |-> 0]
                    /\ Identity!Intervals(f, report) = past[f] \cup ({idRows[f]} \ {Identity!NoRow})
               [] f \in Identity!Denied(report) /\ f \in Identity!Open ->
                    /\ Identity!Row(f, report, t) = [idRows[f] EXCEPT !.resolved = t]
                    /\ Identity!Intervals(f, report) = past[f]
               [] OTHER -> Identity!Row(f, report, t) = idRows[f] /\ Identity!Intervals(f, report) = past[f]
<1>1. f \in Identity!Reported(report) <=> f \in report.seen /\ GroupOf[f] \in report.assessed
    BY DEF Identity!Reported
<1>2. f \in Identity!Denied(report) <=> f \notin report.seen /\ f \notin report.blind /\ GroupOf[f] \in report.assessed
    BY DEF Identity!Denied
<1>3. f \in Identity!Resolved(report) <=> f \in Identity!Denied(report) /\ f \in Identity!Open
    BY <1>2 DEF Identity!Resolved
<1>4. f \in Identity!Reported(report) => f \notin Identity!Denied(report)
    BY <1>1, <1>2
<1>5. CASE f \in Identity!Reported(report) /\ f \notin Identity!Open
    BY <1>3, <1>4, <1>5 DEF Identity!Row, Identity!Intervals
<1>6. CASE f \in Identity!Denied(report) /\ f \in Identity!Open
    BY <1>3, <1>4, <1>6 DEF Identity!Row, Identity!Intervals
<1>7. CASE ~(f \in Identity!Reported(report) /\ f \notin Identity!Open) /\ ~(f \in Identity!Denied(report) /\ f \in Identity!Open)
    BY <1>3, <1>4, <1>7 DEF Identity!Row, Identity!Intervals
<1> QED
    BY <1>4, <1>5, <1>6, <1>7

\* A read that is recorded, for one finding.
LEMMA RecordsOne ==
    ASSUME ReadsIInv, NEW report \in Identity!Reports, NEW who \in Tenants \cup {NoTenant}, NEW f \in Findings
    PROVE LET t == Len(reads) + 1
              entry == [tenant |-> who, says |-> Identity!Reported(report), denies |-> Identity!Denied(report)]
              S == Saying(Append(reads, entry), f)
              D == Denying(Append(reads, entry), f)
              row == Identity!Row(f, report, t) IN
          /\ Append(reads, entry) \in Seq(ReadRuns)
          /\ row \in [first : Nat, resolved : Nat]
          /\ \A p \in Identity!Intervals(f, report) : p.resolved # 0
          /\ row # Identity!NoRow /\ row.resolved = 0 <=> Lasting(S, D)
          /\ Identity!Intervals(f, report) \cup ({row} \ {Identity!NoRow}) = StretchesOf(S, D)
<1> DEFINE n == Len(reads)
           S == Saying(reads, f)
           D == Denying(reads, f)
           entry == [tenant |-> who, says |-> Identity!Reported(report), denies |-> Identity!Denied(report)]
           row == idRows[f]
           new == Identity!Row(f, report, n + 1)
           S2 == Saying(Append(reads, entry), f)
           D2 == Denying(Append(reads, entry), f)
           old == Identity!Intervals(f, report)
<1>1. /\ n \in Nat /\ S \in SUBSET (1 .. n) /\ D \in SUBSET (1 .. n)
      /\ reads \in Seq(ReadRuns) /\ row \in [first : Nat, resolved : Nat]
    BY DEF ReadsIInv, ReadsTypeOK, Saying, Denying
<1>2. past[f] \cup ({row} \ {Identity!NoRow}) = StretchesOf(S, D)
    BY <1>1, StretchesAsWritten DEF ReadsIInv, Identity!IntervalsFollowReads,
       Identity!Stretches
<1>3. /\ \A p \in past[f] : p.resolved # 0
      /\ f \in Identity!Open <=> Lasting(S, D)
      /\ f \in Identity!Open <=> row # Identity!NoRow /\ row.resolved = 0
    BY DEF ReadsIInv, RowInv, Identity!Open
<1>4. entry \in ReadRuns
    BY DEF ReadRuns, Identity!Reported, Identity!Denied, Identity!Reports
<1>5. /\ Append(reads, entry) \in Seq(ReadRuns)
      /\ S2 = S \cup (IF f \in Identity!Reported(report) THEN {n + 1} ELSE {})
      /\ D2 = D \cup (IF f \in Identity!Denied(report) THEN {n + 1} ELSE {})
    BY <1>1, <1>4, OneMore
<1>6. /\ f \in Identity!Reported(report) => f \notin Identity!Denied(report)
      /\ CASE f \in Identity!Reported(report) /\ f \notin Identity!Open ->
                new = [first |-> n + 1, resolved |-> 0] /\ old = past[f] \cup ({row} \ {Identity!NoRow})
           [] f \in Identity!Denied(report) /\ f \in Identity!Open ->
                new = [row EXCEPT !.resolved = n + 1] /\ old = past[f]
           [] OTHER -> new = row /\ old = past[f]
    BY RowCases
<1> SUFFICES /\ new \in [first : Nat, resolved : Nat]
             /\ \A p \in old : p.resolved # 0
             /\ new # Identity!NoRow /\ new.resolved = 0 <=> Lasting(S2, D2)
             /\ old \cup ({new} \ {Identity!NoRow}) = StretchesOf(S2, D2)
    BY <1>5
<1> HIDE DEF n, S, D, entry, new, S2, D2, old
<1>7. CASE f \in Identity!Reported(report) /\ f \notin Identity!Open
    <2>1. new = [first |-> n + 1, resolved |-> 0] /\ old = StretchesOf(S, D) /\ new # Identity!NoRow
        <3>1. new = [first |-> n + 1, resolved |-> 0] /\ old = past[f] \cup ({row} \ {Identity!NoRow})
            BY <1>6, <1>7
        <3>2. new.first # 0 /\ Identity!NoRow.first = 0
            BY <1>1, <3>1 DEF Identity!NoRow
        <3> QED
            BY <1>2, <3>1, <3>2
    <2>2. S2 = S \cup {n + 1} /\ D2 = D
        BY <1>5, <1>6, <1>7
    <2>3. StretchesOf(S2, D2) = StretchesOf(S, D) \cup {new}
        BY <1>1, <1>3, <1>7, <2>1, <2>2, SaidAgain
    <2>4. Lasting(S2, D2)
        BY <1>1, <2>2, LastingThen
    <2>5. \A p \in old : p.resolved # 0
        BY <1>2, <1>3, <1>7, <2>1
    <2> QED
        BY <1>1, <2>1, <2>3, <2>4, <2>5
<1>8. CASE f \in Identity!Reported(report) /\ f \in Identity!Open
    <2>1. new = row /\ old = past[f] /\ S2 = S \cup {n + 1} /\ D2 = D
        BY <1>5, <1>6, <1>8
    <2>2. StretchesOf(S2, D2) = StretchesOf(S, D)
        BY <1>1, <1>3, <1>8, <2>1, SaidAgain
    <2>3. Lasting(S2, D2)
        BY <1>1, <2>1, LastingThen
    <2> QED
        BY <1>1, <1>2, <1>3, <1>8, <2>1, <2>2, <2>3
<1>9. CASE f \in Identity!Denied(report)
    <2> DEFINE late(p) == IF p.resolved = 0 THEN [p EXCEPT !.resolved = n + 1] ELSE p
    <2>1. S2 = S /\ D2 = D \cup {n + 1}
        BY <1>5, <1>6, <1>9
    <2>2. StretchesOf(S2, D2) = {late(p) : p \in StretchesOf(S, D)} /\ ~Lasting(S2, D2)
        BY <1>1, <2>1, DeniedThen, LastingThen
    <2>3. \A p \in past[f] : late(p) = p
        BY <1>3
    <2>4. CASE f \in Identity!Open
        <3>1. new = [row EXCEPT !.resolved = n + 1] /\ old = past[f]
            BY <1>6, <1>9, <2>4
        <3>2. late(row) = new /\ new \in [first : Nat, resolved : Nat] /\ new.resolved = n + 1
            BY <1>1, <1>3, <2>4, <3>1
        <3>3. new # Identity!NoRow /\ new.resolved # 0
            BY <1>1, <3>2 DEF Identity!NoRow
        <3> HIDE DEF late
        <3>4. StretchesOf(S, D) = past[f] \cup {row}
            BY <1>2, <1>3, <2>4
        <3>5. {late(p) : p \in StretchesOf(S, D)} = past[f] \cup {new}
            BY <2>3, <3>2, <3>4
        <3> QED
            BY <1>3, <2>2, <3>1, <3>2, <3>3, <3>5
    <2>5. CASE f \notin Identity!Open
        <3>1. new = row /\ old = past[f]
            BY <1>6, <1>9, <2>5
        <3>2. \A p \in StretchesOf(S, D) : late(p) = p
            BY <1>2, <1>3, <2>3, <2>5
        <3> HIDE DEF late
        <3>3. {late(p) : p \in StretchesOf(S, D)} = StretchesOf(S, D)
            BY <3>2
        <3> QED
            BY <1>1, <1>2, <1>3, <2>2, <2>5, <3>1, <3>3
    <2> QED
        BY <2>4, <2>5
<1>10. CASE f \notin Identity!Reported(report) /\ f \notin Identity!Denied(report)
    <2>1. new = row /\ old = past[f] /\ S2 = S /\ D2 = D
        BY <1>5, <1>6, <1>10
    <2> QED
        BY <1>1, <1>2, <1>3, <2>1
<1> QED
    BY <1>7, <1>8, <1>9, <1>10

\* Only a read that is recorded changes what is stored.
LEMMA ReadsStep ==
    ASSUME ReadsIInv, [Identity!Next]_(Identity!vars)
    PROVE ReadsIInv'
<1>1. /\ tenant \in Tenants \cup {NoTenant} /\ reads \in Seq(ReadRuns)
      /\ idRows \in [Findings -> [first : Nat, resolved : Nat]] /\ DOMAIN past = Findings
      /\ reader \in [Workers -> Readers]
    BY DEF ReadsIInv, ReadsTypeOK
<1>2. ASSUME UNCHANGED <<reads, idRows, past>>, tenant' \in Tenants \cup {NoTenant},
             reader' \in [Workers -> Readers]
      PROVE ReadsIInv'
    <2>1. ReadsTypeOK'
        BY <1>1, <1>2 DEF ReadsTypeOK
    <2>2. RowInv'
        BY <1>2 DEF ReadsIInv, RowInv, Identity!Open
    <2>3. \A f : Identity!Stretches(f)' = Identity!Stretches(f)
        BY <1>2 DEF Identity!Stretches
    <2>4. Identity!IntervalsFollowReads'
        BY <1>2, <2>3 DEF ReadsIInv, Identity!IntervalsFollowReads
    <2> QED
        BY <2>1, <2>2, <2>4 DEF ReadsIInv
<1>3. ASSUME NEW w \in Workers, NEW pc \in ReadLabels
      PROVE [reader EXCEPT ![w].pc = pc] \in [Workers -> Readers]
    <2>1. [reader[w] EXCEPT !.pc = pc] \in Readers
        BY <1>1 DEF Readers
    <2> QED
        BY <1>1, <2>1
<1>4. CASE Identity!SetSettings \/ Identity!Elapse
    BY <1>1, <1>2, <1>4 DEF Identity!SetSettings, Identity!Elapse
<1>5. ASSUME NEW w \in Workers, Identity!Request(w) \/ Identity!Claim(w) \/ Identity!Release(w) PROVE ReadsIInv'
    <2>1. /\ UNCHANGED <<tenant, reads, idRows, past>>
          /\ \E pc \in {"claim", "idle", "read"} : reader' = [reader EXCEPT ![w].pc = pc]
        BY <1>5 DEF Identity!Request, Identity!Claim, Identity!Release, Identity!Goto
    <2>2. PICK pc \in ReadLabels : reader' = [reader EXCEPT ![w].pc = pc]
        BY <2>1 DEF ReadLabels
    <2>3. reader' \in [Workers -> Readers]
        BY <1>3, <2>2
    <2> QED
        BY <1>1, <1>2, <2>1, <2>3
<1>6. CASE Identity!Pass
    <2>1. /\ UNCHANGED <<tenant, reads, idRows, past>>
          /\ reader' = [reader EXCEPT ![Schedule].pc = "claim"]
        BY <1>6 DEF Identity!Pass, Identity!Goto
    <2>2. reader' \in [Workers -> Readers]
        <3>1. CASE Schedule \in Workers
            BY <1>3, <2>1, <3>1 DEF ReadLabels
        <3>2. CASE Schedule \notin Workers
            BY <1>1, <2>1, <3>2
        <3> QED
            BY <3>1, <3>2
    <2> QED
        BY <1>1, <1>2, <2>1, <2>2
<1>7. CASE Identity!Restart
    <2>1. UNCHANGED <<tenant, reads, idRows, past>> /\ reader' = [w \in Workers |-> Identity!Idle]
        BY <1>7 DEF Identity!Restart
    <2>2. Identity!Idle \in Readers
        BY DEF Identity!Idle, Readers, ReadLabels
    <2> QED
        BY <1>1, <1>2, <2>1, <2>2
<1>8. ASSUME NEW w \in Workers, Identity!ReadSettings(w) PROVE ReadsIInv'
    <2> DEFINE r == [pc |-> IF tenant = NoTenant THEN "release" ELSE "collect", tenant |-> tenant]
    <2>1. UNCHANGED <<tenant, reads, idRows, past>> /\ reader' = [reader EXCEPT ![w] = r]
        BY <1>8 DEF Identity!ReadSettings
    <2>2. r \in Readers
        BY <1>1 DEF Readers, ReadLabels
    <2> QED
        BY <1>1, <1>2, <2>1, <2>2
<1>9. ASSUME NEW w \in Workers, Identity!Record(w) PROVE ReadsIInv'
    <2>1. UNCHANGED tenant /\ reader' = [reader EXCEPT ![w].pc = "release"]
        BY <1>9 DEF Identity!Record, Identity!Goto
    <2>2. CASE UNCHANGED <<reads, idRows, past>>
        BY <1>1, <1>2, <1>3, <2>1, <2>2 DEF ReadLabels
    <2>3. ASSUME NEW report \in Identity!Reports,
                 reads' = Append(reads, [tenant |-> reader[w].tenant,
                                       says |-> Identity!Reported(report), denies |-> Identity!Denied(report)]),
                 idRows' = [f \in Findings |-> Identity!Row(f, report, Len(reads) + 1)],
                 past' = [f \in Findings |-> Identity!Intervals(f, report)]
          PROVE ReadsIInv'
        <3>1. reader[w].tenant \in Tenants \cup {NoTenant}
            BY <1>1 DEF Readers
        <3>2. ASSUME NEW f \in Findings
              PROVE /\ reads' \in Seq(ReadRuns)
                    /\ idRows'[f] \in [first : Nat, resolved : Nat]
                    /\ \A p \in past'[f] : p.resolved # 0
                    /\ idRows'[f] # Identity!NoRow /\ idRows'[f].resolved = 0
                          <=> Lasting(Saying(reads', f), Denying(reads', f))
                    /\ past'[f] \cup ({idRows'[f]} \ {Identity!NoRow})
                          = StretchesOf(Saying(reads', f), Denying(reads', f))
            BY <2>3, <3>1, RecordsOne
        <3>3. reads' \in Seq(ReadRuns)
            <4>1. [tenant |-> reader[w].tenant, says |-> Identity!Reported(report), denies |-> Identity!Denied(report)] \in ReadRuns
                BY <3>1 DEF ReadRuns, Identity!Reported, Identity!Denied,
                   Identity!Reports
            <4> QED
                BY <1>1, <2>3, <4>1
        <3>4. \A f \in Findings : Identity!Stretches(f)' = StretchesOf(Saying(reads', f), Denying(reads', f))
            BY <3>3, StretchesAsWritten DEF Identity!Stretches
        <3>5. ReadsTypeOK'
            <4>1. idRows' \in [Findings -> [first : Nat, resolved : Nat]] /\ DOMAIN past' = Findings
                BY <2>3, <3>2
            <4> QED
                BY <1>1, <1>3, <2>1, <3>3, <4>1 DEF ReadsTypeOK, ReadLabels
        <3>6. RowInv'
            BY <3>2 DEF RowInv, Identity!Open
        <3>7. Identity!IntervalsFollowReads'
            BY <3>2, <3>4 DEF Identity!IntervalsFollowReads
        <3> QED
            BY <3>5, <3>6, <3>7 DEF ReadsIInv
    <2> QED
        BY <1>9, <2>2, <2>3 DEF Identity!Record
<1>10. CASE UNCHANGED Identity!vars
    BY <1>1, <1>2, <1>10 DEF Identity!vars
<1> QED
    BY <1>4, <1>5, <1>6, <1>7, <1>8, <1>9, <1>10 DEF Identity!Next, Identity!Read

LEMMA ReadsInit == Identity!Init => ReadsIInv
<1> SUFFICES ASSUME Identity!Init PROVE ReadsIInv
    OBVIOUS
<1>1. /\ tenant = NoTenant /\ reads = <<>> /\ idRows = [f \in Findings |-> Identity!NoRow]
      /\ past = [f \in Findings |-> {}] /\ reader = [w \in Workers |-> Identity!Idle]
    BY DEF Identity!Init
<1>2. ReadsTypeOK
    <2>1. Identity!Idle \in Readers /\ Identity!NoRow \in [first : Nat, resolved : Nat]
        BY DEF Identity!Idle, Readers, ReadLabels, Identity!NoRow
    <2> QED
        BY <1>1, <2>1 DEF ReadsTypeOK
<1>3. \A f : Saying(reads, f) = {} /\ Denying(reads, f) = {}
    BY <1>1 DEF Saying, Denying
<1>4. RowInv
    BY <1>1, <1>3 DEF RowInv, Identity!Open, Lasting
<1>5. \A f \in Findings : Identity!Stretches(f) = {}
    BY <1>1 DEF Identity!Stretches
<1> QED
    BY <1>1, <1>2, <1>4, <1>5 DEF ReadsIInv, Identity!IntervalsFollowReads

-----------------------------------------------------------------------------
(***************************************************************************)
(* The calls of the API clients (ApiCalls).                                *)
(***************************************************************************)

\* The shape of what a call has come to.
CallsTypeOK ==
    /\ call \in Calls
    /\ got \in Seq(Nat) /\ carriedOut \in Nat

\* A read under way has pages to come; one that is done has them all.
ReadInv ==
    call.kind = "read" =>
        /\ got = [i \in 1 .. Len(got) |-> i]
        /\ answer = Api!Open => Len(got) < Len(call.pages)
        /\ answer.kind = "done" => Len(got) = Len(call.pages)

\* A creation under way has not been made; one that ended was made at most once.
CreateInv ==
    call.kind = "create" =>
        /\ answer = Api!Open => carriedOut = 0
        /\ carriedOut <= 1
        /\ answer.kind = "done" => carriedOut = 1
        /\ carriedOut = 1 => answer.ambiguous \/ answer.kind \in {"done", "bad_response"}

CallsIInv == CallsTypeOK /\ ReadInv /\ CreateInv

-----------------------------------------------------------------------------
\* Whatever a client makes of an answer that is an error, it is not success.
LEMMA NoAnswerIsDone ==
    ASSUME NEW client \in Api!Clients, NEW reply \in Api!Answers, reply # "ok"
    PROVE Api!KindOf(client, reply) \notin {"done", "open"}
<1>1. Api!GraphKind(reply) \notin {"done", "open"}
    BY DEF Api!GraphKind, Api!Kind, Api!Answers
<1> QED
    BY <1>1 DEF Api!KindOf, Api!GoogleKind, Api!DattoKind, Api!AutotaskKind,
       Api!Clients, Api!Answers

\* A page: the next one, and the end of the read where none follows.
LEMMA PageDoes ==
    ASSUME Api!WellFormed, CallsIInv, call.kind = "read", answer = Api!Open, Api!Page
    PROVE /\ got' \in Seq(Nat) /\ got' = [i \in 1 .. Len(got') |-> i]
          /\ answer' = Api!Open => Len(got') < Len(call.pages)
          /\ answer'.kind = "done" => Len(got') = Len(call.pages)
<1> DEFINE n == Len(got) + 1
           link == call.pages[n]
<1>1. /\ got' = Append(got, n)
      /\ answer' = CASE link = "end" -> Api!Done
                      [] link = "foreign" -> Api!Error("bad_response", FALSE)
                      [] link = "next" -> IF n >= MaxPages THEN Api!Error("bad_response", FALSE) ELSE Api!Open
    BY DEF Api!Page
<1>2. /\ got \in Seq(Nat) /\ got = [i \in 1 .. Len(got) |-> i] /\ Len(got) \in Nat
      /\ call.pages \in Seq(Api!Links) /\ Len(call.pages) \in Nat /\ n \in 1 .. Len(call.pages)
    BY DEF CallsIInv, CallsTypeOK, ReadInv, Api!WellFormed
<1>3. got' \in Seq(Nat) /\ Len(got') = n /\ got' = [i \in 1 .. n |-> i]
    BY <1>1, <1>2
<1>4. link \in Api!Links /\ (link = "next" <=> n # Len(call.pages))
    BY <1>2 DEF Api!WellFormed, CallsIInv, CallsTypeOK
<1> HIDE DEF n, link
<1>5. CASE link = "next"
    <2>1. n < Len(call.pages)
        BY <1>2, <1>4, <1>5
    <2>2. answer' \in {Api!Error("bad_response", FALSE), Api!Open}
        BY <1>1, <1>5
    <2> QED
        BY <1>3, <2>1, <2>2 DEF Api!Error, Api!Open
<1>6. CASE link # "next"
    <2>1. n = Len(call.pages) /\ link \in {"end", "foreign"}
        BY <1>4, <1>6 DEF Api!Links
    <2>2. answer' \in {Api!Error("bad_response", FALSE), Api!Done}
        BY <1>1, <2>1
    <2> QED
        BY <1>3, <2>1, <2>2 DEF Api!Error, Api!Open, Api!Done
<1> QED
    BY <1>5, <1>6

\* How a request may end.
LEMMA RequestCases ==
    ASSUME Api!Request
    PROVE /\ answer = Api!Open /\ call' = call
          /\ \E reply \in Api!Answers, long \in BOOLEAN :
                /\ \E n \in Api!MayCarryOut(reply) : carriedOut' = carriedOut + n
                /\ \/ reply = "ok" /\ Api!Take(reply)
                   \/ /\ reply # "ok" /\ (Api!Renews(reply) \/ Api!Again(reply, long))
                      /\ UNCHANGED <<got, answer>>
                   \/ reply # "ok" /\ ~Api!Renews(reply) /\ ~Api!Again(reply, long) /\ Api!Fail(reply)
<1>1. /\ answer = Api!Open /\ call' = call
      /\ \E reply \in Api!Answers, long \in BOOLEAN :
            /\ \E n \in Api!MayCarryOut(reply) : carriedOut' = carriedOut + n
            /\ IF reply = "ok" THEN Api!Take(reply)
               ELSE IF Api!Renews(reply) THEN UNCHANGED <<got, answer>>
               ELSE IF Api!Again(reply, long) THEN UNCHANGED <<got, answer>>
               ELSE Api!Fail(reply)
    BY DEF Api!Request
<1> QED
    BY <1>1

LEMMA RequestKeeps ==
    ASSUME Api!WellFormed, CallsIInv, Api!Request
    PROVE CallsIInv'
<1>1. PICK reply \in Api!Answers, long \in BOOLEAN :
        /\ \E n \in Api!MayCarryOut(reply) : carriedOut' = carriedOut + n
        /\ \/ reply = "ok" /\ Api!Take(reply)
           \/ reply # "ok" /\ (Api!Renews(reply) \/ Api!Again(reply, long)) /\ UNCHANGED <<got, answer>>
           \/ reply # "ok" /\ ~Api!Renews(reply) /\ ~Api!Again(reply, long) /\ Api!Fail(reply)
    BY RequestCases
<1>2. PICK n \in Api!MayCarryOut(reply) : carriedOut' = carriedOut + n
    BY <1>1
<1>3. /\ answer = Api!Open /\ call' = call /\ call \in Calls /\ call.client \in Api!Clients
      /\ got \in Seq(Nat) /\ carriedOut \in Nat /\ n \in {0, 1}
    BY <1>2, RequestCases DEF CallsIInv, CallsTypeOK, Api!WellFormed, Api!MayCarryOut
<1>4. carriedOut' \in Nat
    BY <1>2, <1>3
<1>5. got' \in Seq(Nat) /\ ReadInv'
    <2>1. CASE UNCHANGED <<got, answer>>
        BY <1>3, <2>1 DEF CallsIInv, ReadInv
    <2>2. CASE call.kind = "read" /\ Api!Page
        BY <1>3, <2>2, PageDoes DEF ReadInv
    <2>3. CASE call.kind # "read" /\ got' = got
        BY <1>3, <2>3 DEF ReadInv
    <2>4. CASE reply # "ok" /\ got' = got /\ answer' = Api!Error(Api!KindOf(call.client, reply), Api!Ambiguous(reply))
        <3>1. answer'.kind # "done" /\ answer' # Api!Open
            BY <1>3, <2>4, NoAnswerIsDone DEF Api!Error, Api!Open
        <3> QED
            BY <1>3, <2>4, <3>1 DEF CallsIInv, ReadInv
    <2> QED
        BY <1>1, <2>1, <2>2, <2>3, <2>4 DEF Api!Take, Api!Fail
<1>6. CreateInv'
    <2> SUFFICES ASSUME call.kind = "create" PROVE CreateInv'
        BY <1>3 DEF CreateInv
    <2>1. call.client = "autotask" /\ carriedOut = 0 /\ carriedOut' = n
        BY <1>2, <1>3 DEF Api!WellFormed, CallsIInv, CreateInv
    <2>2. ~Api!NeedsSize
        BY DEF Api!NeedsSize
    <2>3. CASE reply = "ok"
        <3>1. n = 1
            BY <2>3 DEF Api!MayCarryOut
        <3>2. answer' = Api!Done
            BY <1>1, <2>2, <2>3 DEF Api!Take
        <3> QED
            BY <2>1, <3>1, <3>2 DEF CreateInv, Api!Done, Api!Open
    <2>4. CASE reply # "ok" /\ (Api!Renews(reply) \/ Api!Again(reply, long)) /\ UNCHANGED <<got, answer>>
        <3>1. reply = "429"
            BY <2>1, <2>4 DEF Api!Renews, Api!Again, Api!AutotaskRetries, Api!Repeatable
        <3>2. n = 0
            BY <3>1 DEF Api!MayCarryOut
        <3> QED
            BY <1>3, <2>1, <2>4, <3>2 DEF CreateInv, Api!Open
    <2>5. CASE reply # "ok" /\ Api!Fail(reply)
        <3>1. answer' = Api!Error(Api!KindOf("autotask", reply), Api!Ambiguous(reply))
            BY <2>1, <2>2, <2>5 DEF Api!Fail
        <3>2. Api!KindOf("autotask", reply) \notin {"done", "open"}
            BY <2>5, NoAnswerIsDone DEF Api!Clients
        <3>3. n = 1 => reply \in {"garbled", "lost", "503", "500"}
            BY <2>5 DEF Api!MayCarryOut
        <3>4. reply \in {"lost", "503", "500"} => Api!Ambiguous(reply)
            BY DEF Api!Ambiguous, Api!Repeatable
        <3>5. reply = "garbled" => Api!KindOf("autotask", reply) = "bad_response"
            BY DEF Api!KindOf, Api!AutotaskKind, Api!GraphKind, Api!Kind
        <3> QED
            BY <1>3, <2>1, <3>1, <3>2, <3>3, <3>4, <3>5 DEF CreateInv, Api!Error,
               Api!Open
    <2> QED
        BY <1>1, <2>3, <2>4, <2>5
<1> QED
    BY <1>3, <1>4, <1>5, <1>6 DEF CallsIInv, CallsTypeOK

LEMMA CallsStep ==
    ASSUME Api!WellFormed, CallsIInv, [Api!Next]_(Api!vars)
    PROVE CallsIInv'
<1>1. ASSUME Api!OutOfBudget \/ Api!FetchToken PROVE CallsIInv'
    <2>1. /\ UNCHANGED <<call, got, carriedOut>> /\ answer = Api!Open
          /\ \/ answer' = answer
             \/ \E kind \in {"budget", "credentials", "throttled", "server", "network", "bad_response"} :
                    answer' = Api!Error(kind, FALSE)
        BY <1>1 DEF Api!OutOfBudget, Api!FetchToken
    <2>2. answer' = answer \/ (answer'.kind # "done" /\ answer' # Api!Open)
        BY <2>1 DEF Api!Error, Api!Open
    <2> QED
        BY <2>1, <2>2 DEF CallsIInv, CallsTypeOK, ReadInv, CreateInv
<1>2. CASE UNCHANGED Api!vars
    BY <1>2 DEF Api!vars, CallsIInv, CallsTypeOK, ReadInv, CreateInv
<1> QED
    BY <1>1, <1>2, RequestKeeps DEF Api!Next

LEMMA CallsInit ==
    ASSUME Api!WellFormed, Api!Init
    PROVE CallsIInv
<1>1. call \in Calls /\ got = <<>> /\ carriedOut = 0 /\ answer = Api!Open
    BY DEF Api!Init
<1>2. call.kind = "read" => Len(call.pages) \in Nat /\ Len(call.pages) # 0
    BY <1>1 DEF Api!WellFormed
<1> QED
    BY <1>1, <1>2 DEF CallsIInv, CallsTypeOK, ReadInv, CreateInv, Api!Open

LEMMA CallsSay == CallsIInv => Api!CallsKeepTheirWord
    BY DEF CallsIInv, ReadInv, CreateInv, Api!CallsKeepTheirWord, Api!ReadsAreWhole,
       Api!ChangesAreKnown, Api!Done

-----------------------------------------------------------------------------
(* The parts at work beside one another.                                   *)

LEMMA FeedsInvariance == Init /\ [][Next]_vars => []IInv
<1>1. IInv /\ [Next]_vars => IInv'
    BY StepKeeps
<1> QED
    BY <1>1, InitHolds, PTL

LEMMA ReadsInvariance == Identity!Init /\ [][Identity!Next]_(Identity!vars) => []ReadsIInv
<1>1. ReadsIInv /\ [Identity!Next]_(Identity!vars) => ReadsIInv'
    BY ReadsStep
<1> QED
    BY <1>1, ReadsInit, PTL

LEMMA CallsInvariance ==
    Api!WellFormed => (Api!Init /\ [][Api!Next]_(Api!vars) => []CallsIInv)
<1> SUFFICES ASSUME Api!WellFormed PROVE Api!Init /\ [][Api!Next]_(Api!vars) => []CallsIInv
    OBVIOUS
<1>1. CallsIInv /\ [Api!Next]_(Api!vars) => CallsIInv'
    BY CallsStep
<1>2. Api!Init => CallsIInv
    BY CallsInit
<1> QED
    BY <1>1, <1>2, PTL

\* process: "enrichment is applied last so it lands on advisories this run created".  When
\* a run in which no feed failed is done loading, every advisory it wrote that the catalog
\* covers is flagged, whatever other runs did to the shared cache or loaded after it.
THEOREM EnrichmentIsLast == KEV \in Feeds => (OutsideSpec => []EnrichmentLands)
<1> SUFFICES ASSUME KEV \in Feeds PROVE OutsideSpec => []EnrichmentLands
    OBVIOUS
<1>1. IInv => EnrichmentLands
    BY InvariantSays
<1>2. OutsideInit => Init
    BY DEF OutsideInit
<1>3. [OutsideNext]_all => [Next]_vars
    BY DEF OutsideNext, all, vars
<1> QED
    BY <1>1, <1>2, <1>3, FeedsInvariance, PTL DEF OutsideSpec

\* shrinkGuard: no step of any run replaces what a feed of substance holds by less than
\* half of it, where the recorded count is of what is loaded: under the lock, the count a
\* run read at its start is still the recorded one.
THEOREM NoTruncation == OutsideSpec => NeverTruncated
<1> DEFINE Halved(f) ==
               /\ loaded'[f] # loaded[f]
               /\ status[f].count = Cardinality(loaded[f]) /\ status[f].count >= ShrinkFloor
               => Cardinality(loaded'[f]) * 2 >= Cardinality(loaded[f])
<1>1. IInv /\ [Next]_vars => [\A f \in Feeds : Halved(f)]_vars
    BY StepTruncates
<1>2. OutsideInit => Init
    BY DEF OutsideInit
<1>3. [OutsideNext]_all => [Next]_vars
    BY DEF OutsideNext, all, vars
<1> QED
    BY <1>1, <1>2, <1>3, FeedsInvariance, PTL DEF OutsideSpec, NeverTruncated

\* RecordIdentityRun: the row of a finding and the intervals before it are the
\* stretches of reads that say it, each ended by the read that denies it, whatever
\* settings, restarts and other readers came between.
THEOREM RowsAreStretches == OutsideSpec => []IntervalsFollowReads
<1>1. ReadsIInv => IntervalsFollowReads
    BY DEF ReadsIInv, IntervalsFollowReads
<1>2. OutsideInit => Identity!Init
    BY DEF OutsideInit
<1>3. [OutsideNext]_all => [Identity!Next]_(Identity!vars)
    BY DEF OutsideNext, all, identity, Identity!vars
<1> QED
    BY <1>1, <1>2, <1>3, ReadsInvariance, PTL DEF OutsideSpec

\* m365/graph, gws/google, rmm/datto, autotask/client: a paged read gives every page in
\* order or an error, and what must not be repeated is made once or said to be uncertain,
\* through every retry, renewed token and page, for any bounds on them.
THEOREM CallsAreKept == Api!WellFormed => (OutsideSpec => []CallsKeepTheirWord)
<1> SUFFICES ASSUME Api!WellFormed PROVE OutsideSpec => []CallsKeepTheirWord
    OBVIOUS
<1>1. CallsIInv => CallsKeepTheirWord
    BY CallsSay DEF CallsKeepTheirWord
<1>2. OutsideInit => Api!Init
    BY DEF OutsideInit
<1>3. [OutsideNext]_all => [Api!Next]_(Api!vars)
    BY DEF OutsideNext, all, api, Api!vars
<1>4. Api!Init /\ [][Api!Next]_(Api!vars) => []CallsIInv
    BY CallsInvariance
<1> QED
    BY <1>1, <1>2, <1>3, <1>4, PTL DEF OutsideSpec
=============================================================================
