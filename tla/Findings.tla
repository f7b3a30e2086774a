------------------------------- MODULE Findings -------------------------------
(***************************************************************************)
(* The life of one host's findings: internal/control/vuln.go (matchDevice, *)
(* refreshFindings, the memory of the last match) and the transaction that *)
(* records a match, internal/storepg/findings.go (RecordFindingsFor).      *)
(*                                                                         *)
(* Two goroutines match the host: the call that reports its inventory and  *)
(* the refresh timer, which took its list of devices earlier.  The feed    *)
(* runner, a process of its own, creates a snapshot and then loads.        *)
(*                                                                         *)
(* What an inventory says of a key is one word per advisory key            *)
(* ("vulnerable", "patched", "absent") and one per repository ("broken",   *)
(* "healthy", "gone"); module Matcher is about how the words come about.   *)
(* Transactions are READ COMMITTED: a statement sees what is committed and *)
(* what its own transaction wrote; a row that another transaction has      *)
(* written makes it wait.                                                  *)
(***************************************************************************)
EXTENDS Integers, FiniteSets

CONSTANTS
    VulnKeys,       \* (advisory, family) keys of advisories
    RepoKeys,       \* keys of repository-health findings
    Inventories,    \* reports a host may send, see InventoriesAssumption
    Matchers,       \* goroutines that match: the reports, and the refresh
    Refresh,        \* the one that is the refresh timer
    Nobody,
    MaxMatches,     \* bound: transactions begun
    MaxReports,     \* bound: inventories reported
    MaxLoads        \* bound: runs of the feed runner

Keys == VulnKeys \cup RepoKeys

ASSUME KeysAssumption == VulnKeys \cap RepoKeys = {}
ASSUME MatchersAssumption == Refresh \in Matchers /\ Nobody \notin Matchers
ASSUME InventoriesAssumption ==
    Inventories \subseteq [packages : [VulnKeys -> {"vulnerable", "patched", "absent"}],
                           repos : [RepoKeys -> {"broken", "healthy", "gone"}],
                           assessed : BOOLEAN]
ASSUME BoundsAssumption == {MaxMatches, MaxReports, MaxLoads} \subseteq Nat

VARIABLES
    host,       \* the inventory in the presence store
    reports,    \* how many inventories were reported
    snapshot,   \* the newest feed snapshot
    loading,    \* the feed runner is between its snapshot and its end
    ranges,     \* the advisory keys the loaded ranges know
    seen,       \* vulnState: what the last match was computed from
    job,        \* each goroutine's matchDevice call
    rows,       \* vuln_findings of the host, as committed
    intervals,  \* vuln_finding_intervals
    locks,      \* who has written a row and not committed
    clock,      \* now() of the youngest transaction
    batch,      \* history: the matches committed since transactions last overlapped none
    before      \* history: the rows when the first of them began

data == <<rows, intervals, locks, clock, batch, before>>
feed == <<snapshot, loading, ranges>>
vars == <<host, reports, feed, seen, job, data>>

NoRow == [open |-> FALSE, first |-> 0, last |-> 0, closed |-> 0, why |-> ""]
Resolutions == {"", "fixed", "package_removed", "no_longer_affected"}

\* What Match finds: known advisories of vulnerable packages, and, only when the
\* report carries repository evidence, repositories with a problem.
Found(inv, known) ==
    {k \in known : inv.packages[k] = "vulnerable"}
        \cup {r \in RepoKeys : inv.assessed /\ inv.repos[r] = "broken"}

\* Why a finding that is not confirmed is closed: Classify and ClassifyRepo.
Classify(inv, k) ==
    CASE k \in VulnKeys /\ inv.packages[k] = "absent" -> "package_removed"
      [] k \in VulnKeys /\ inv.packages[k] = "patched" -> "fixed"
      [] k \in VulnKeys /\ inv.packages[k] = "vulnerable" -> "no_longer_affected"
      [] k \in RepoKeys /\ ~inv.assessed -> ""
      [] k \in RepoKeys /\ inv.assessed ->
         IF inv.repos[k] = "gone" THEN "no_longer_affected" ELSE "fixed"

Fingerprint(inv, snap) == [inv |-> inv, snap |-> snap]
NoPrint == [snap |-> -1]
Idle == [pc |-> "idle"]

InTx(m) == job[m].pc \in {"archive", "upsert", "close", "commit"}
Running == {m \in Matchers : InTx(m)}

-----------------------------------------------------------------------------
Init ==
    /\ host \in Inventories
    /\ reports = 0
    /\ snapshot = 0 /\ loading = FALSE /\ ranges = {}
    /\ seen = NoPrint
    /\ job = [m \in Matchers |-> Idle]
    /\ rows = [k \in Keys |-> NoRow]
    /\ intervals = {}
    /\ locks = [k \in Keys |-> Nobody]
    /\ clock = 0
    /\ batch = {}
    /\ before = rows

-----------------------------------------------------------------------------
\* The feed runner: the snapshot row first, then one transaction per feed.

LoadStarts ==
    /\ ~loading /\ snapshot < MaxLoads
    /\ snapshot' = snapshot + 1
    /\ loading' = TRUE
    /\ UNCHANGED <<host, reports, ranges, seen, job, data>>

LoadCommits ==
    /\ loading
    /\ ranges' \in SUBSET VulnKeys
    /\ UNCHANGED <<host, reports, snapshot, loading, seen, job, data>>

LoadEnds ==
    /\ loading
    /\ loading' = FALSE
    /\ UNCHANGED <<host, reports, snapshot, ranges, seen, job, data>>

-----------------------------------------------------------------------------
\* matchDevice

\* ReportInventory has stored the inventory and matches it in its own call.
ReportInventory(m) ==
    /\ m # Refresh /\ job[m] = Idle /\ reports < MaxReports
    /\ \E inv \in Inventories :
         /\ host' = inv
         /\ job' = [job EXCEPT ![m] = [pc |-> "lookup", inv |-> inv]]
    /\ reports' = reports + 1
    /\ UNCHANGED <<feed, seen, data>>

\* refreshFindings lists the devices, and comes to this one some time later.
ListDevices(m) ==
    /\ m = Refresh /\ job[m] = Idle /\ clock < MaxMatches
    /\ job' = [job EXCEPT ![m] = [pc |-> "lookup", inv |-> host]]
    /\ UNCHANGED <<host, reports, feed, seen, data>>

LookUpSnapshot(m) ==
    /\ job[m].pc = "lookup"
    /\ job' = [job EXCEPT ![m] =
                  [pc |-> "match", inv |-> @.inv, print |-> Fingerprint(@.inv, snapshot)]]
    /\ UNCHANGED <<host, reports, feed, seen, data>>

Unchanged(m) ==
    /\ job[m].pc = "match" /\ seen = job[m].print
    /\ job' = [job EXCEPT ![m] = Idle]
    /\ UNCHANGED <<host, reports, feed, seen, data>>

QueryRanges(m) ==
    /\ job[m].pc = "match" /\ seen # job[m].print
    /\ job' = [job EXCEPT ![m] =
                  [pc |-> "begin", inv |-> @.inv, print |-> @.print,
                   found |-> Found(@.inv, ranges)]]
    /\ UNCHANGED <<host, reports, feed, seen, data>>

\* A query fails or the minute is over: the host is matched again another time.
GiveUp(m) ==
    /\ job[m].pc \in {"lookup", "match", "begin"}
    /\ job' = [job EXCEPT ![m] = Idle]
    /\ UNCHANGED <<host, reports, feed, seen, data>>

-----------------------------------------------------------------------------
\* RecordFindingsFor

\* own: the rows this transaction has written; alone: it has met no other.
BeginTx(m) ==
    /\ job[m].pc = "begin" /\ clock < MaxMatches
    /\ clock' = clock + 1
    /\ job' = [n \in Matchers |->
                 IF n = m
                 THEN [pc |-> "archive", inv |-> job[m].inv, print |-> job[m].print,
                       found |-> job[m].found, start |-> clock + 1, own |-> [k \in {} |-> NoRow],
                       kept |-> {}, stale |-> {}, alone |-> Running = {}]
                 ELSE IF n \in Running THEN [job[n] EXCEPT !.alone = FALSE] ELSE job[n]]
    /\ batch' = IF Running = {} THEN {} ELSE batch
    /\ before' = IF Running = {} THEN rows ELSE before
    /\ UNCHANGED <<host, reports, feed, seen, rows, intervals, locks>>

\* What a statement of m sees of row k.
Seen(m, k) == IF k \in DOMAIN job[m].own THEN job[m].own[k] ELSE rows[k]

\* The row exists and is closed.
Closed(row) == row.closed > 0 /\ ~row.open
Interval(k, row) == [key |-> k, opened |-> row.first, closed |-> row.closed, why |-> row.why]

\* Mutant of Archive: the rows are looked up after they were reopened.
ArchiveLate(m) ==
    /\ job[m].pc = "archive"
    /\ job' = [job EXCEPT ![m].pc = "upsert"]
    /\ UNCHANGED <<host, reports, feed, seen, data>>

\* The intervals of the closed rows among those found; one that another
\* transaction is about to archive makes this one wait (unique index).
Archive(m) ==
    LET mine == {Interval(k, rows[k]) : k \in {k \in job[m].found : Closed(rows[k])}}
    IN  /\ job[m].pc = "archive"
        /\ \A n \in Running \ {m} : job[n].kept \cap mine = {}
        /\ job' = [job EXCEPT ![m].pc = "upsert", ![m].kept = mine]
        /\ UNCHANGED <<host, reports, feed, seen, data>>

\* The row after the upsert by a transaction that began at start.
Confirmed(row, start) ==
    [open |-> TRUE, first |-> IF row.open THEN row.first ELSE start,
     last |-> start, closed |-> 0, why |-> ""]

Upsert(m, k) ==
    /\ job[m].pc = "upsert"
    /\ k \in job[m].found \ DOMAIN job[m].own
    /\ locks[k] = Nobody
    /\ locks' = [locks EXCEPT ![k] = m]
    /\ job' = [job EXCEPT ![m].own =
                  [x \in DOMAIN @ \cup {k} |->
                     IF x = k THEN Confirmed(rows[k], job[m].start) ELSE @[x]]]
    /\ UNCHANGED <<host, reports, feed, seen, rows, intervals, clock, batch, before>>

\* Mutant of Unconfirmed: a report without repository evidence closes them too.
UnconfirmedAll(m) ==
    {k \in Keys : Seen(m, k).open /\ Seen(m, k).last < job[m].start}

\* The open rows this run did not confirm; repository findings only if it judged
\* the repositories.
Unconfirmed(m) ==
    {k \in Keys : /\ Seen(m, k).open /\ Seen(m, k).last < job[m].start
                  /\ k \in RepoKeys => job[m].inv.assessed}

SelectStale(m) ==
    /\ job[m].pc = "upsert" /\ job[m].found = DOMAIN job[m].own
    /\ job' = [job EXCEPT ![m].pc = "close", ![m].stale = Unconfirmed(m)]
    /\ UNCHANGED <<host, reports, feed, seen, data>>

\* By id alone: a row confirmed since the SELECT is closed all the same.
CloseStale(m) ==
    /\ job[m].pc = "close"
    /\ \A k \in job[m].stale : locks[k] = Nobody
    /\ locks' = [k \in Keys |-> IF k \in job[m].stale THEN m ELSE locks[k]]
    /\ job' = [job EXCEPT ![m].pc = "commit",
                          ![m].own = [k \in DOMAIN @ \cup job[m].stale |->
                              IF k \in job[m].stale
                              THEN [rows[k] EXCEPT !.open = FALSE, !.closed = job[m].start,
                                                   !.why = Classify(job[m].inv, k)]
                              ELSE @[k]]]
    /\ UNCHANGED <<host, reports, feed, seen, rows, intervals, clock, batch, before>>

Unlocked(m) == [k \in Keys |-> IF locks[k] = m THEN Nobody ELSE locks[k]]

Commit(m) ==
    /\ job[m].pc = "commit"
    /\ rows' = [k \in Keys |-> Seen(m, k)]
    /\ intervals' = intervals \cup
         \* ON CONFLICT DO NOTHING on (device, key, opened)
         {i \in job[m].kept : \A j \in intervals : j.key = i.key => j.opened # i.opened}
    /\ locks' = Unlocked(m)
    /\ batch' = batch \cup {[inv |-> job[m].inv, found |-> job[m].found]}
    /\ job' = [job EXCEPT ![m] = [pc |-> "remember", print |-> @.print]]
    /\ UNCHANGED <<host, reports, feed, seen, clock, before>>

\* An error, the time limit, a deadlock the database resolves, a crash.
Rollback(m) ==
    /\ InTx(m)
    /\ locks' = Unlocked(m)
    /\ job' = [job EXCEPT ![m] = Idle]
    /\ UNCHANGED <<host, reports, feed, seen, rows, intervals, clock, batch, before>>

\* After the alerts are in step (syncVulnAlerts).
Remember(m) ==
    /\ job[m].pc = "remember"
    /\ seen' = job[m].print
    /\ job' = [job EXCEPT ![m] = Idle]
    /\ UNCHANGED <<host, reports, feed, data>>

\* The server restarts: the memory is empty, open transactions are rolled back.
Restart ==
    /\ seen # NoPrint
    /\ seen' = NoPrint
    /\ job' = [m \in Matchers |-> Idle]
    /\ locks' = [k \in Keys |-> Nobody]
    /\ UNCHANGED <<host, reports, feed, rows, intervals, clock, batch, before>>

-----------------------------------------------------------------------------
Match(m) ==
    \/ ReportInventory(m) \/ ListDevices(m) \/ LookUpSnapshot(m) \/ Unchanged(m)
    \/ QueryRanges(m) \/ GiveUp(m)

Record(m) ==
    \/ BeginTx(m) \/ Archive(m) \/ SelectStale(m) \/ CloseStale(m)
    \/ Commit(m) \/ Rollback(m) \/ Remember(m)
    \/ \E k \in Keys : Upsert(m, k)

Next ==
    \/ LoadStarts \/ LoadCommits \/ LoadEnds \/ Restart
    \/ \E m \in Matchers : Match(m) \/ Record(m)

Spec == Init /\ [][Next]_vars

-----------------------------------------------------------------------------
\* Properties

RowType == [open : BOOLEAN, first : 0..MaxMatches, last : 0..MaxMatches,
            closed : 0..MaxMatches, why : Resolutions]

\* Once no match is being recorded, the findings are what the matches recorded
\* since the last such moment agree on, however their statements interleaved:
\* what all of them found is open, what none of them found and one of them could
\* judge is closed, and a repository none of them judged is as it was ("missing
\* evidence is not a repaired repository").  For a single match that is exactly
\* what it found (recordFindingsTx, closeStaleFindings).
AgreedFindings ==
    Running = {} /\ batch # {} =>
        \A k \in Keys :
            LET judged == {b \in batch : k \in VulnKeys \/ b.inv.assessed}
            IN  /\ (\A b \in batch : k \in b.found) => rows[k].open
                /\ (\A b \in batch : k \notin b.found) /\ judged # {} =>
                       /\ ~rows[k].open
                       /\ before[k].open => rows[k].why \in {Classify(b.inv, k) : b \in judged}
                /\ judged = {} => rows[k] = before[k]

\* A finding that comes back keeps its past: the interval that ended is in the
\* history when the row is reopened by a match that met no other
\* (archiveReopenedSQL: "copied to vuln_finding_intervals first so the history
\* survives"), and no interval is ever dropped.
HistorySurvives ==
    [][/\ \A k \in Keys :
            Closed(rows[k]) /\ rows'[k].open =>
                \A m \in Matchers :
                    job[m].pc = "commit" /\ job'[m].pc = "remember" /\ job[m].alone =>
                        Interval(k, rows[k]) \in intervals'
       /\ intervals \subseteq intervals']_vars
=============================================================================
