------------------------------- MODULE RmmSync -------------------------------
(***************************************************************************)
(* Reads of the site of a remote-management system (rmm/sync.go), what     *)
(* they leave in the database (storepg/rmm.go), and the rematch of stored  *)
(* update lists when a feed is loaded, which the refresh of the findings   *)
(* starts beside them (control/rmm.go, control/vuln.go).                   *)
(*                                                                         *)
(* One read runs at a time; a rematch does not wait for it.  A finding is  *)
(* the update that is missing: the feed says which updates are security    *)
(* updates.  A device stores its facts, its list, its findings and its     *)
(* coverage in transactions of their own.                                  *)
(***************************************************************************)
EXTENDS Integers, FiniteSets

CONSTANTS
    Devices, Updates,
    Sites, NoSite,
    NoFeed,
    MaxChanges,     \* bound: what administrators, devices and the clock change
    MaxLoads,       \* bound: runs of the feed runner
    MaxFaults       \* bound: requests and statements that fail, and restarts

VARIABLES
    site,       \* rmm_settings
    world,      \* what the RMM lists: the devices of each site, the facts of each device
    feed,       \* [snapshot, loading, known]: the newest snapshot, the updates known
    db,         \* devices, rmm_devices, rmm_patches, findings and host_patch_state
    last,       \* the latest read: its site, and whether it is younger than the interval
    sync,       \* the read that holds the claim
    rematch,    \* the rematch under way
    spent

vars == <<site, world, feed, db, last, sync, rematch, spent>>

Use(what, max) == spent[what] < max /\ spent' = [spent EXCEPT ![what] = @ + 1]
Fault == Use("faults", MaxFaults)

NoDevice == [live |-> FALSE, site |-> NoSite, list |-> {}, open |-> {}, coverage |-> "none",
             snapshot |-> 0]
IdleSync == [pc |-> "idle", site |-> NoSite, snapshot |-> 0, keep |-> {}, todo |-> {},
             stopped |-> FALSE, list |-> {}, found |-> {}, coverage |-> "none"]
IdleRematch == [pc |-> "idle", snapshot |-> 0, todo |-> {}, lists |-> <<>>, found |-> {}]

Current(job) == CHOOSE d \in job.todo : TRUE

-------------------------------------------------------------------------------
(* The world around.                                                       *)

\* The first choice of a site is not counted.
SetSite ==
    /\ IF site = NoSite THEN UNCHANGED spent ELSE Use("changes", MaxChanges)
    /\ \E s \in Sites : s # site /\ site' = s
    /\ UNCHANGED <<world, feed, db, last, sync, rematch>>

\* A device moves to another site or leaves, or the RMM says something else of it.
Audits == {"fresh", "old", "never"}
Statuses == {"managed", "no_policy", "no_data"}
WorldChanges ==
    /\ Use("changes", MaxChanges)
    /\ \E d \in Devices :
          \/ \E s \in Sites \cup {NoSite} : world' = [world EXCEPT ![d].site = s]
          \/ \E m \in SUBSET Updates : world' = [world EXCEPT ![d].missing = m]
          \/ \E s \in Statuses : world' = [world EXCEPT ![d].status = s]
          \/ \E a \in Audits : world' = [world EXCEPT ![d].audit = a]
    /\ world' # world
    /\ UNCHANGED <<site, feed, db, last, sync, rematch>>

\* The feed runner's snapshot row comes first, then the load; a load can fail.
LoadStarts ==
    /\ Use("loads", MaxLoads) /\ ~ feed.loading
    /\ feed' = [feed EXCEPT !.snapshot = @ + 1, !.loading = TRUE]
    /\ UNCHANGED <<site, world, db, last, sync, rematch>>

LoadEnds ==
    /\ feed.loading
    /\ \E known \in SUBSET Updates \cup {feed.known} :
          feed' = [feed EXCEPT !.loading = FALSE, !.known = known]
    /\ UNCHANGED <<site, world, db, last, sync, rematch, spent>>

\* The interval since the latest read passes.
Elapse ==
    /\ last.recent /\ last' = [last EXCEPT !.recent = FALSE]
    /\ UNCHANGED <<site, world, feed, db, sync, rematch, spent>>

-------------------------------------------------------------------------------
(* A read.                                                                 *)

\* rmmScheduleOnce: the latest read was of another site, or the interval has passed.
Pass ==
    /\ sync.pc = "idle" /\ site # NoSite
    /\ last.site # site \/ ~ last.recent
    /\ sync' = [sync EXCEPT !.pc = "settings"]
    /\ UNCHANGED <<site, world, feed, db, last, rematch, spent>>

\* rmmSync, at any time the claim is free.
Request ==
    /\ sync.pc = "idle" /\ site # NoSite /\ Use("changes", MaxChanges)
    /\ sync' = [sync EXCEPT !.pc = "settings"]
    /\ UNCHANGED <<site, world, feed, db, last, rematch>>

ReadSettings ==
    /\ sync.pc = "settings"
    /\ sync' = [sync EXCEPT !.pc = "list", !.site = site]
    /\ UNCHANGED <<site, world, feed, db, last, rematch, spent>>

\* The devices of the site.  A listing that cannot be read is a read not assessed.
ListDevices ==
    /\ sync.pc = "list"
    /\ LET listed == {d \in Devices : world[d].site = sync.site} IN
       \/ sync' = [sync EXCEPT !.pc = "device", !.keep = listed, !.todo = listed,
                               !.snapshot = feed.snapshot]
          /\ UNCHANGED spent
       \/ Fault /\ sync' = [sync EXCEPT !.pc = "finish"]
    /\ UNCHANGED <<site, world, feed, db, last, rematch>>

\* No list is only clean where the RMM manages the updates of the device, and where it
\* has no data of them the list says nothing at all (noPatchEvidence).
NoEvidence(fact) ==
    fact.status = "no_data" \/ (fact.status = "no_policy" /\ fact.missing = {})

\* What the RMM says of the next device decides what can be said of its updates.
\* A failure may be one that stops the read.
Ask ==
    /\ sync.pc = "device" /\ sync.todo # {} /\ ~ sync.stopped
    /\ LET fact == world[Current(sync)] IN
       \/ /\ sync' = [sync EXCEPT !.pc = "upsert", !.list = fact.missing,
                !.coverage = CASE fact.audit = "old" -> "stale"
                               [] fact.audit = "never" -> "not_read"
                               [] fact.audit = "fresh" /\ NoEvidence(fact) -> "no_data"
                               [] OTHER -> "covered"]
          /\ UNCHANGED spent
       \/ /\ fact.audit = "fresh" /\ Fault
          /\ \E stop \in BOOLEAN :
                sync' = [sync EXCEPT !.pc = "upsert", !.coverage = "not_read", !.stopped = stop]
    /\ UNCHANGED <<site, world, feed, db, last, rematch>>

\* A known device keeps its retirement.
UpsertStaysRetired ==
    /\ sync.pc = "upsert"
    /\ LET d == Current(sync) IN
       db' = [db EXCEPT ![d].live = @ \/ db[d].site = NoSite, ![d].site = sync.site]
    /\ sync' = [sync EXCEPT !.pc = IF sync.coverage \in {"stale", "not_read"}
                                   THEN "coverage" ELSE "patches"]
    /\ UNCHANGED <<site, world, feed, last, rematch, spent>>

\* UpsertRMMDevice: a device that had been retired comes back.
Upsert ==
    /\ sync.pc = "upsert"
    /\ LET d == Current(sync) IN db' = [db EXCEPT ![d].live = TRUE, ![d].site = sync.site]
    /\ sync' = [sync EXCEPT !.pc = IF sync.coverage \in {"stale", "not_read"}
                                   THEN "coverage" ELSE "patches"]
    /\ UNCHANGED <<site, world, feed, last, rematch, spent>>

ReplacePatches ==
    /\ sync.pc = "patches"
    /\ db' = [db EXCEPT ![Current(sync)].list = sync.list]
    /\ sync' = [sync EXCEPT !.pc = IF sync.coverage = "no_data" THEN "coverage" ELSE "match"]
    /\ UNCHANGED <<site, world, feed, last, rematch, spent>>

\* MatchWindows, from the list that was read and the feed of now.
Match ==
    /\ sync.pc = "match"
    /\ sync' = IF feed.known = NoFeed
               THEN [sync EXCEPT !.pc = "coverage", !.coverage = "no_feed"]
               ELSE [sync EXCEPT !.pc = "record", !.found = sync.list \cap feed.known]
    /\ UNCHANGED <<site, world, feed, db, last, rematch, spent>>

NextDevice ==
    sync' = [sync EXCEPT !.pc = "device", !.todo = @ \ {Current(sync)}, !.list = {},
                         !.found = {}, !.coverage = "none"]

\* SetHostPatchState: the findings stay as they were.
SetCoverage ==
    /\ sync.pc = "coverage"
    /\ db' = [db EXCEPT ![Current(sync)].coverage =
                            IF sync.coverage = "not_read" THEN "no_data" ELSE sync.coverage,
                        ![Current(sync)].snapshot = sync.snapshot]
    /\ NextDevice
    /\ UNCHANGED <<site, world, feed, last, rematch, spent>>

\* RecordPatchFindings: findings and coverage in one transaction.
Record ==
    /\ sync.pc = "record"
    /\ db' = [db EXCEPT ![Current(sync)].open = sync.found,
                        ![Current(sync)].coverage = "covered",
                        ![Current(sync)].snapshot = sync.snapshot]
    /\ NextDevice
    /\ UNCHANGED <<site, world, feed, last, rematch, spent>>

\* RetireRMMDevices, unless the read was stopped on its way.
Retire ==
    /\ sync.pc = "device" /\ (sync.todo = {} \/ sync.stopped)
    /\ db' = [d \in Devices |->
                IF ~ sync.stopped /\ (d \notin sync.keep \/ db[d].site # sync.site)
                THEN [db[d] EXCEPT !.live = FALSE] ELSE db[d]]
    /\ sync' = [sync EXCEPT !.pc = "finish"]
    /\ UNCHANGED <<site, world, feed, last, rematch, spent>>

\* RecordRMMSync, and the claim is given back.
Finish ==
    /\ sync.pc = "finish"
    /\ last' = [site |-> sync.site, recent |-> TRUE]
    /\ sync' = IdleSync
    /\ UNCHANGED <<site, world, feed, db, rematch, spent>>

\* A statement fails: the read ends without a record.
Abort ==
    /\ sync.pc # "idle" /\ Fault
    /\ sync' = IdleSync
    /\ UNCHANGED <<site, world, feed, db, last, rematch>>

-------------------------------------------------------------------------------
(* A rematch.                                                              *)

Look ==
    /\ rematch.pc = "idle" /\ feed.snapshot > 0
    /\ rematch' = [rematch EXCEPT !.pc = "pick", !.snapshot = feed.snapshot]
    /\ UNCHANGED <<site, world, feed, db, last, sync, spent>>

\* RMMRematchCandidates, less those whose evidence has aged since.
Pick ==
    /\ rematch.pc = "pick"
    /\ LET old == {d \in Devices : /\ db[d].live /\ db[d].coverage = "covered"
                                   /\ db[d].snapshot # rematch.snapshot} IN
       \E todo \in SUBSET old :
          rematch' = IF todo = {} THEN IdleRematch
                     ELSE [rematch EXCEPT !.pc = "lists", !.todo = todo]
    /\ UNCHANGED <<site, world, feed, db, last, sync, spent>>

ReadLists ==
    /\ rematch.pc = "lists"
    /\ rematch' = [rematch EXCEPT !.pc = "match", !.lists = [d \in rematch.todo |-> db[d].list]]
    /\ UNCHANGED <<site, world, feed, db, last, sync, spent>>

Rest == rematch.todo \ {Current(rematch)}
NextRematch ==
    IF Rest = {} THEN IdleRematch
    ELSE [rematch EXCEPT !.pc = "match", !.todo = Rest, !.found = {}]

RematchMatch ==
    /\ rematch.pc = "match"
    /\ rematch' = IF feed.known = NoFeed THEN NextRematch
                  ELSE [rematch EXCEPT !.pc = "record",
                                       !.found = rematch.lists[Current(rematch)] \cap feed.known]
    /\ UNCHANGED <<site, world, feed, db, last, sync, spent>>

RematchRecord ==
    /\ rematch.pc = "record"
    /\ db' = [db EXCEPT ![Current(rematch)].open = rematch.found,
                        ![Current(rematch)].coverage = "covered",
                        ![Current(rematch)].snapshot = rematch.snapshot]
    /\ rematch' = NextRematch
    /\ UNCHANGED <<site, world, feed, last, sync, spent>>

Restart ==
    /\ Fault
    /\ sync' = IdleSync /\ rematch' = IdleRematch
    /\ UNCHANGED <<site, world, feed, db, last>>

-------------------------------------------------------------------------------
Init ==
    /\ site = NoSite
    /\ world \in [Devices -> [site : Sites, missing : {Updates}, status : {"managed"}, audit : {"fresh"}]]
    /\ feed = [snapshot |-> 0, loading |-> FALSE, known |-> NoFeed]
    /\ db = [d \in Devices |-> NoDevice]
    /\ last = [site |-> NoSite, recent |-> FALSE]
    /\ sync = IdleSync /\ rematch = IdleRematch
    /\ spent = [what \in {"changes", "loads", "faults"} |-> 0]

SyncGoesOn ==
    \/ ReadSettings \/ ListDevices \/ Ask \/ Upsert \/ ReplacePatches \/ Match
    \/ SetCoverage \/ Record \/ Retire \/ Finish
RematchGoesOn == Look \/ Pick \/ ReadLists \/ RematchMatch \/ RematchRecord

Next ==
    \/ SetSite \/ WorldChanges \/ LoadStarts \/ LoadEnds \/ Elapse
    \/ Pass \/ Request \/ SyncGoesOn \/ Abort \/ RematchGoesOn \/ Restart

\* Intervals pass and the schedule comes round; what was begun goes on.
Fairness ==
    /\ WF_vars(LoadEnds) /\ WF_vars(Elapse) /\ WF_vars(Pass)
    /\ WF_vars(SyncGoesOn) /\ WF_vars(RematchGoesOn)

Spec == Init /\ [][Next]_vars /\ Fairness

-------------------------------------------------------------------------------
\* What the database should say of a device as the RMM and the feed are now.
Settled(d) ==
    LET fact == world[d] IN
    IF world[d].site # site \/ site = NoSite THEN ~ db[d].live
    ELSE /\ db[d].live
         /\ fact.audit = "old" => db[d].coverage = "stale"
         /\ fact.audit = "never" => db[d].coverage = "no_data"
         /\ fact.audit = "fresh" /\ NoEvidence(fact) => db[d].coverage = "no_data"
         /\ fact.audit = "fresh" /\ ~ NoEvidence(fact) =>
               IF feed.known = NoFeed THEN db[d].coverage = "no_feed"
               ELSE db[d].coverage = "covered" /\ db[d].open = fact.missing \cap feed.known

\* Once site, RMM and feed are left alone the database comes to say what they say,
\* whatever was read, matched, stopped or lost while they changed: a device that came
\* back is live, one that left is retired, and a rematch that was under way with an
\* old list does not have the last word (Sync, Rematch).
RmmSettles == <>[](\A d \in Devices : Settled(d))
===============================================================================
