-------------------------------- MODULE Alerts --------------------------------
(***************************************************************************)
(* How alerts are raised and closed for one host: internal/control/alerts  *)
(* (ensureAlert, resolveAlert, recordAlert, the batch of open keys an      *)
(* inventory report loads) and syncVulnAlerts of internal/control/vuln.go, *)
(* over the alerts table and the alerts of the presence file.              *)
(*                                                                         *)
(* Reports of a host are handled by goroutines that may overlap (the timer *)
(* and the file watcher of an agent both report), and the refresh timer    *)
(* matches the host beside them.  While a report is handled its batch      *)
(* answers, for every goroutine, whether an alert is open; the batch of a  *)
(* later report takes its place.  Administrators set the status of alerts  *)
(* meanwhile.                                                              *)
(*                                                                         *)
(* What a report says of a check (configuration check or watched path) is  *)
(* one word: "wrong" raises an alert, "right" closes it, "silent" does     *)
(* neither.  Handing an alert to the forwarder is left to that module: it  *)
(* never blocks or fails.                                                  *)
(***************************************************************************)
EXTENDS Integers, FiniteSets

CONSTANTS
    Reports,        \* goroutines that handle reports
    Refreshers,     \* those that refresh findings (one may be both, in turn)
    None,
    Checks,         \* (kind, source) of configuration checks and watched paths
    Vulns,          \* advisories urgent enough to alert on
    MaxChanges,     \* bound: changes of the host
    MaxTriage,      \* bound: changes an administrator makes
    MaxFaults       \* bound: database calls that fail

Keys == Checks \cup Vulns
Jobs == Reports \cup Refreshers

ASSUME JobsAssumption == None \notin Jobs
ASSUME KeysAssumption == Checks \cap Vulns = {}
ASSUME BoundsAssumption == {MaxChanges, MaxTriage, MaxFaults} \subseteq Nat

VARIABLES
    host,       \* what the host's next report will say of each key
    changes,    \* how often that has changed
    alerts,     \* the alerts table: per key, how many are open, acknowledged and closed
    file,       \* the keys with an open alert in the presence file
    batch,      \* alertBatches: the report whose batch is installed
    known,      \* keys that batch holds to be open
    seen,       \* vulnSeen: the host as last matched
    job,        \* each goroutine's state
    triage, faults,
    quiet       \* history: jobs that nobody has come between and no call of which failed

table == <<alerts, file>>
vars == <<host, changes, table, batch, known, seen, job, triage, faults, quiet>>

NoAlerts == [open |-> 0, acked |-> 0, closed |-> 0]
IsOpen(k) == alerts[k].open + alerts[k].acked > 0
OpenKeys == {k \in Keys : IsOpen(k)}

\* An alert somebody has acknowledged does not count.
OpenNotAcked == {k \in Keys : alerts[k].open > 0}
\* What the presence file holds to be open.
OpenInFile == file
OpenAlertKeys == OpenKeys

Idle == [pc |-> "idle", view |-> [k \in Keys |-> "silent"], todo |-> {}, key |-> None,
         then |-> "", matched |-> FALSE]

At(j, label) == job[j].pc = label
Goto(j, label) == job' = [job EXCEPT ![j].pc = label]
\* Back to where the alert was asked for.
Return(j) == job' = [job EXCEPT ![j].pc = job[j].then, ![j].key = None, ![j].then = ""]
Disturb == quiet' = [i \in Jobs |-> FALSE]
Spoilt(j) == quiet' = [quiet EXCEPT ![j] = FALSE]

MayFail == faults < MaxFaults /\ faults' = faults + 1

-------------------------------------------------------------------------------
(* The host, and what an administrator does to an alert (UpdateAlertStatus *)
(* writes the table only).                                                 *)

HostChanges(k) ==
    /\ changes < MaxChanges
    /\ changes' = changes + 1
    /\ \E word \in IF k \in Checks THEN {"wrong", "right", "silent"} ELSE {"wrong", "right"} :
         host[k] # word /\ host' = [host EXCEPT ![k] = word]
    /\ UNCHANGED <<table, batch, known, seen, job, triage, faults, quiet>>

\* Any alert may get any status, a closed one (resolved or suppressed) too.
SetStatus(k) ==
    /\ triage < MaxTriage /\ triage' = triage + 1
    /\ \E old \in DOMAIN alerts[k], new \in DOMAIN alerts[k] :
         /\ old # new /\ alerts[k][old] > 0
         /\ alerts' = [alerts EXCEPT ![k][old] = @ - 1, ![k][new] = @ + 1]
    /\ Disturb
    /\ UNCHANGED <<host, changes, file, batch, known, seen, job, faults>>

-------------------------------------------------------------------------------
(* ReportInventory, from its batch on, and one host of refreshFindings.    *)

BeginReport(j) ==
    job' = [job EXCEPT ![j] = [Idle EXCEPT !.view = host, !.pc = "batch"]]

\* A refresh has nothing to say of checks.
BeginRefresh(j) ==
    job' = [job EXCEPT ![j] = [Idle EXCEPT !.pc = "match",
                !.view = [k \in Keys |-> IF k \in Vulns THEN host[k] ELSE "silent"]]]

Begin(j) ==
    /\ At(j, "idle")
    /\ \/ j \in Reports /\ BeginReport(j)
       \/ j \in Refreshers /\ BeginRefresh(j)
    /\ quiet' = [i \in Jobs |-> i = j /\ \A o \in Jobs : At(o, "idle")]
    /\ UNCHANGED <<host, changes, table, batch, known, seen, triage, faults>>

Spoken(view) == {k \in Checks : view[k] # "silent"}

BeginBatch(j) ==
    /\ At(j, "batch")
    /\ known' = OpenAlertKeys
    /\ batch' = j
    /\ job' = [job EXCEPT ![j].pc = "check", ![j].todo = Spoken(job[j].view)]
    /\ UNCHANGED <<host, changes, table, seen, triage, faults, quiet>>

\* Without a batch every question goes to the database.
NoBatch(j) ==
    /\ At(j, "batch") /\ MayFail
    /\ job' = [job EXCEPT ![j].pc = "check", ![j].todo = Spoken(job[j].view)]
    /\ UNCHANGED <<host, changes, table, batch, known, seen, triage, quiet>>

Raises(j, k) == job[j].pc \in {"check", "sync"} /\ job[j].view[k] = "wrong"
Step(j, k, label) ==
    job' = [job EXCEPT ![j].key = k, ![j].pc = label, ![j].then = job[j].pc,
                       ![j].todo = @ \ {k}]
Skip(j, k) == job' = [job EXCEPT ![j].todo = @ \ {k}]

\* ensureAlert with a batch: it notes the key as open, whatever comes of it.
EnsureInBatch(j, k) ==
    /\ k \in job[j].todo /\ Raises(j, k) /\ batch # None
    /\ known' = known \cup {k}
    /\ IF k \in known THEN Skip(j, k) ELSE Step(j, k, "file")
    /\ UNCHANGED <<host, changes, table, batch, seen, triage, faults, quiet>>

\* And without: the database answers, or, when it cannot, the file.
EnsureAlone(j, k) ==
    /\ k \in job[j].todo /\ Raises(j, k) /\ batch = None
    /\ \/ /\ IF IsOpen(k) THEN Skip(j, k) ELSE Step(j, k, "file")
          /\ UNCHANGED <<faults, quiet>>
       \/ /\ MayFail /\ Spoilt(j)
          /\ IF k \in file THEN Skip(j, k) ELSE Step(j, k, "file")
    /\ UNCHANGED <<host, changes, table, batch, known, seen, triage>>

\* recordAlert: the file, then the table.
RecordInFile(j) ==
    /\ At(j, "file")
    /\ file' = file \cup {job[j].key}
    /\ Goto(j, "table")
    /\ UNCHANGED <<host, changes, alerts, batch, known, seen, triage, faults, quiet>>

RecordInTable(j) ==
    /\ At(j, "table")
    /\ \/ /\ alerts' = [alerts EXCEPT ![job[j].key].open = @ + 1]
          /\ UNCHANGED <<faults, quiet>>
       \/ MayFail /\ Spoilt(j) /\ UNCHANGED alerts
    /\ Return(j)
    /\ UNCHANGED <<host, changes, file, batch, known, seen, triage>>

\* resolveAlert: a batch that does not hold the key to be open saves the statement.
Resolve(j, k) ==
    /\ At(j, "check") /\ k \in job[j].todo /\ job[j].view[k] = "right"
    /\ file' = file \ {k}
    /\ IF batch = None
       THEN Step(j, k, "resolve") /\ UNCHANGED known
       ELSE /\ known' = known \ {k}
            /\ IF k \in known THEN Step(j, k, "resolve") ELSE Skip(j, k)
    /\ UNCHANGED <<host, changes, alerts, batch, seen, triage, faults, quiet>>

\* ResolveOpenAlerts: all that are open or acknowledged.
Resolved(counts) ==
    [open |-> 0, acked |-> 0, closed |-> counts.open + counts.acked + counts.closed]

ResolveInTable(j) ==
    /\ At(j, "resolve")
    /\ \/ /\ alerts' = [alerts EXCEPT ![job[j].key] = Resolved(@)]
          /\ UNCHANGED <<faults, quiet>>
       \/ MayFail /\ Spoilt(j) /\ UNCHANGED alerts
    /\ Return(j)
    /\ UNCHANGED <<host, changes, file, batch, known, seen, triage>>

ChecksDone(j) ==
    /\ At(j, "check") /\ job[j].todo = {}
    /\ Goto(j, "match")
    /\ UNCHANGED <<host, changes, table, batch, known, seen, triage, faults, quiet>>

-------------------------------------------------------------------------------
(* matchDevice: syncVulnAlerts, unless nothing changed since the last match. *)

Matched(j) == [v \in Vulns |-> job[j].view[v]]

Match(j) ==
    /\ At(j, "match")
    /\ \/ /\ seen = Matched(j)
          /\ Goto(j, "end")
          /\ UNCHANGED faults
       \/ /\ seen # Matched(j)
          /\ job' = [job EXCEPT ![j].pc = "sync", ![j].matched = TRUE,
                                ![j].todo = {v \in Vulns : job[j].view[v] = "wrong"}]
          /\ UNCHANGED faults
       \/ MayFail /\ Goto(j, "end")
    /\ UNCHANGED <<host, changes, table, batch, known, seen, triage, quiet>>

\* The alerts that are still open, not acknowledged, and no longer wanted.
ListOpen(j) ==
    /\ At(j, "sync") /\ job[j].todo = {}
    /\ \/ /\ job' = [job EXCEPT ![j].pc = "close",
                        ![j].todo = {v \in Vulns : alerts[v].open > 0 /\ job[j].view[v] # "wrong"}]
          /\ UNCHANGED <<faults, quiet>>
       \/ MayFail /\ Spoilt(j) /\ Goto(j, "close")
    /\ UNCHANGED <<host, changes, table, batch, known, seen, triage>>

\* resolveVulnAlert: the file and the table; no batch hears of it.
ResolveVuln(j, k) ==
    /\ At(j, "close") /\ k \in job[j].todo
    /\ file' = file \ {k}
    /\ \/ /\ alerts' = [alerts EXCEPT ![k] = Resolved(@)]
          /\ UNCHANGED <<faults, quiet>>
       \/ MayFail /\ Spoilt(j) /\ UNCHANGED alerts
    /\ Skip(j, k)
    /\ UNCHANGED <<host, changes, batch, known, seen, triage>>

Remember(j) ==
    /\ At(j, "close") /\ job[j].todo = {}
    /\ seen' = Matched(j)
    /\ Goto(j, "end")
    /\ UNCHANGED <<host, changes, table, batch, known, triage, faults, quiet>>

\* A batch that outlives its report.
EndKeepsBatch(j) ==
    /\ At(j, "end")
    /\ job' = [job EXCEPT ![j] = Idle]
    /\ UNCHANGED <<host, changes, table, batch, known, seen, triage, faults, quiet>>

\* The batch goes only if no later report has put its own in its place.
End(j) ==
    /\ At(j, "end")
    /\ batch' = IF batch = j THEN None ELSE batch
    /\ job' = [job EXCEPT ![j] = Idle]
    /\ known' = IF batch = j THEN {} ELSE known
    /\ UNCHANGED <<host, changes, table, seen, triage, faults, quiet>>

-------------------------------------------------------------------------------
Init ==
    /\ host \in {h \in [Keys -> {"wrong", "right", "silent"}] : \A v \in Vulns : h[v] # "silent"}
    /\ changes = 0 /\ triage = 0 /\ faults = 0
    /\ alerts = [k \in Keys |-> NoAlerts]
    /\ file = {}
    /\ batch = None
    /\ known = {}
    /\ seen = [v \in Vulns |-> "never"]
    /\ job = [j \in Jobs |-> Idle]
    /\ quiet = [j \in Jobs |-> FALSE]

Work(j) ==
    \/ BeginBatch(j) \/ NoBatch(j) \/ RecordInFile(j) \/ RecordInTable(j)
    \/ \E k \in Keys : \/ EnsureInBatch(j, k) \/ EnsureAlone(j, k)
                       \/ Resolve(j, k) \/ ResolveVuln(j, k)
    \/ ResolveInTable(j) \/ ChecksDone(j) \/ Match(j) \/ ListOpen(j) \/ Remember(j) \/ End(j)

Next ==
    \/ \E k \in Keys : HostChanges(k) \/ SetStatus(k)
    \/ \E j \in Jobs : Begin(j) \/ Work(j)

Spec == Init /\ [][Next]_vars

\* Agents report again and again, and a call that began goes on.
FairSpec == Spec /\ \A j \in Jobs : WF_vars(Begin(j)) /\ WF_vars(Work(j))

-------------------------------------------------------------------------------
\* A report (or refresh) that nobody came between and in which no call failed leaves
\* the alerts its verdicts call for: the batch "only ever suppresses a query whose
\* answer it already knows" (alertBatch).  An acknowledged alert of a vulnerability
\* that is gone stays: only open ones are listed (syncVulnAlerts).
AlertsMatchReport ==
    \A j \in Jobs :
        (At(j, "end") /\ quiet[j]) =>
            /\ \A c \in Checks :
                  /\ (job[j].view[c] = "wrong" => IsOpen(c))
                  /\ (job[j].view[c] = "right" => ~IsOpen(c))
            /\ \A v \in Vulns :
                  job[j].matched =>
                      IF job[j].view[v] = "wrong" THEN IsOpen(v) ELSE alerts[v].open = 0

\* It takes a race, or a reopening by hand, to have a second alert for what has one: a
\* job that nobody came between never raises it, acknowledged alerts counting as open
\* (HasOpenAlert, OpenAlertKeys).
NoSecondAlert ==
    [][\A j \in Jobs, k \in Keys :
         (quiet[j] /\ quiet'[j] /\ At(j, "table") /\ alerts'[k].open > alerts[k].open) => ~IsOpen(k)]_vars

\* However reports overlap and whatever failed, a check that stays wrong has an open
\* alert in the end and one that stays right has none: an alert whose insertion
\* failed is raised again (the comment in ensureAlert).
ChecksSettle ==
    <>[](\A c \in Checks : /\ (host[c] = "wrong" => IsOpen(c))
                            /\ (host[c] = "right" => ~IsOpen(c)))
===============================================================================
