----------------------------- MODULE IdentityRuns -----------------------------
(***************************************************************************)
(* Reads of an identity tenant, Microsoft 365 or Google Workspace, which   *)
(* have the same shape (control/m365.go, control/gws.go), and how a read   *)
(* is recorded (storepg/identity.go).  The two never meet: one provider is *)
(* followed.                                                               *)
(*                                                                         *)
(* A read covers the check groups it could assess, and of those all but    *)
(* the subjects it could not reach (an unreadable mailbox).  An instant is *)
(* the position in runs of the read that finished then.                    *)
(***************************************************************************)
EXTENDS Integers, Sequences, FiniteSetsExt

CONSTANTS
    Tenants, NoTenant,
    Groups, Findings,
    GroupOf,        \* [Findings -> Groups]
    Workers,        \* the schedule and the requests for a read
    Schedule,
    MaxSettings,    \* bound: changes of the tenant
    MaxReads,       \* bound: reads by hand and intervals that pass
    MaxFaults       \* bound: reads that are not recorded, and restarts

VARIABLES
    tenant,     \* the settings
    runs,       \* identity_runs, each with the findings its report says are there and
                \* those it denies
    recent,     \* the latest run is younger than the interval
    rows,       \* identity_findings
    past,       \* identity_finding_intervals
    running,    \* the claim
    reader,     \* goroutines that read
    spent

vars == <<tenant, runs, recent, rows, past, running, reader, spent>>

NoRow == [first |-> 0, resolved |-> 0]
Idle == [pc |-> "idle", tenant |-> NoTenant]

Use(what, max) == spent[what] < max /\ spent' = [spent EXCEPT ![what] = @ + 1]
Goto(w, label) == reader' = [reader EXCEPT ![w].pc = label]

-------------------------------------------------------------------------------
SetSettings ==
    /\ Use("settings", MaxSettings)
    /\ \E t \in Tenants \cup {NoTenant} : t # tenant /\ tenant' = t
    /\ UNCHANGED <<runs, recent, rows, past, running, reader>>

\* The interval since the latest run passes.
Elapse ==
    /\ recent /\ Use("reads", MaxReads)
    /\ recent' = FALSE
    /\ UNCHANGED <<tenant, runs, rows, past, running, reader>>

\* m365Sync: a tenant is set, then the claim.
Request(w) ==
    /\ w # Schedule /\ reader[w].pc = "idle" /\ tenant # NoTenant
    /\ Use("reads", MaxReads)
    /\ Goto(w, "claim")
    /\ UNCHANGED <<tenant, runs, recent, rows, past, running>>

\* The tenant of the latest run (LatestIdentityRun).
LatestTenant == IF runs = <<>> THEN NoTenant ELSE runs[Len(runs)].tenant

\* A read is due when the interval has passed, whatever the tenant.
DueByTime == ~ recent

\* m365ScheduleOnce: the latest run is of another tenant, or the interval has passed.
Due == LatestTenant # tenant \/ ~ recent

Pass ==
    /\ reader[Schedule].pc = "idle" /\ tenant # NoTenant /\ Due
    /\ Goto(Schedule, "claim")
    /\ UNCHANGED <<tenant, runs, recent, rows, past, running, spent>>

Claim(w) ==
    /\ reader[w].pc = "claim"
    /\ running' = TRUE
    /\ Goto(w, IF running THEN "idle" ELSE "read")
    /\ UNCHANGED <<tenant, runs, recent, rows, past, spent>>

-------------------------------------------------------------------------------
(* One read, under the claim (runM365Sync).                                *)

ReadSettings(w) ==
    /\ reader[w].pc = "read"
    /\ reader' = [reader EXCEPT ![w] =
                    [pc |-> IF tenant = NoTenant THEN "release" ELSE "collect", tenant |-> tenant]]
    /\ UNCHANGED <<tenant, runs, recent, rows, past, running, spent>>

Reports == [assessed : SUBSET Groups, blind : SUBSET Findings, seen : SUBSET Findings]

Open == {f \in Findings : rows[f] # NoRow /\ rows[f].resolved = 0}
Reported(report) == {f \in report.seen : GroupOf[f] \in report.assessed}
Denied(report) ==
    {f \in Findings \ (report.seen \cup report.blind) : GroupOf[f] \in report.assessed}

\* What an assessed group no longer reports, whether the subject was reached or not.
ResolvedBlindly(report) ==
    {f \in Open : GroupOf[f] \in report.assessed /\ f \notin report.seen}

\* What an assessed group no longer reports, of the subjects it reached.
Resolved(report) ==
    {f \in Open : GroupOf[f] \in report.assessed /\ f \notin report.seen \cup report.blind}

\* The row of f and its earlier intervals after a read that finished at t.
Row(f, report, t) ==
    CASE f \in Reported(report) \ Open -> [first |-> t, resolved |-> 0]
      [] f \in Resolved(report) -> [rows[f] EXCEPT !.resolved = t]
      [] OTHER -> rows[f]

Intervals(f, report) ==
    IF f \in Reported(report) \ Open /\ rows[f] # NoRow THEN past[f] \cup {rows[f]} ELSE past[f]

\* RecordIdentityRun, one transaction: the run, its findings, what it resolves.
Record(w) ==
    /\ reader[w].pc = "collect"
    /\ \/ \E report \in Reports :
             LET t == Len(runs) + 1 IN
             /\ runs' = Append(runs, [tenant |-> reader[w].tenant,
                                      says |-> Reported(report), denies |-> Denied(report)])
             /\ rows' = [f \in Findings |-> Row(f, report, t)]
             /\ past' = [f \in Findings |-> Intervals(f, report)]
             /\ recent' = TRUE
             /\ UNCHANGED spent
       \/ /\ Use("faults", MaxFaults)
          /\ UNCHANGED <<runs, rows, past, recent>>
    /\ Goto(w, "release")
    /\ UNCHANGED <<tenant, running>>

Release(w) ==
    /\ reader[w].pc = "release"
    /\ running' = FALSE
    /\ Goto(w, "idle")
    /\ UNCHANGED <<tenant, runs, recent, rows, past, spent>>

Restart ==
    /\ Use("faults", MaxFaults)
    /\ running' = FALSE
    /\ reader' = [w \in Workers |-> Idle]
    /\ UNCHANGED <<tenant, runs, recent, rows, past>>

-------------------------------------------------------------------------------
Init ==
    /\ tenant = NoTenant
    /\ runs = <<>> /\ recent = FALSE
    /\ rows = [f \in Findings |-> NoRow]
    /\ past = [f \in Findings |-> {}]
    /\ running = FALSE
    /\ reader = [w \in Workers |-> Idle]
    /\ spent = [what \in {"settings", "reads", "faults"} |-> 0]

Read(w) == Claim(w) \/ ReadSettings(w) \/ Record(w) \/ Release(w)

Next ==
    \/ SetSettings \/ Elapse \/ Pass \/ Restart
    \/ \E w \in Workers : Request(w) \/ Read(w)

\* The schedule comes round, and a read that was begun ends.
Fairness == WF_vars(Pass) /\ \A w \in Workers : WF_vars(Read(w))

Spec == Init /\ [][Next]_vars /\ Fairness

-------------------------------------------------------------------------------
\* The stretches of reads that say f, from the first to the one that denies it; 0 when
\* none has.
Stretches(f) ==
    LET saying == {i \in DOMAIN runs : f \in runs[i].says}
        denying == {i \in DOMAIN runs : f \in runs[i].denies}
        begins == {i \in saying : \A j \in saying : j < i => \E k \in denying : j < k /\ k < i} IN
    {[first |-> i, resolved |-> Min({j \in denying : j > i} \cup {Len(runs) + 1}) % (Len(runs) + 1)]
        : i \in begins}

\* The intervals of a finding are what the reads that covered it say, of all the reads
\* there were: a read that could not assess it opens, resolves and forgets nothing
\* (RecordIdentityRun).
IntervalsFollowReads ==
    \A f \in Findings : past[f] \cup ({rows[f]} \ {NoRow}) = Stretches(f)

\* A tenant that is set and stays set gets read, without waiting for the interval of
\* the tenant before it, and whatever was being read when it was set (m365ScheduleOnce).
TenantIsRead == []<>(tenant = NoTenant \/ LatestTenant = tenant)
===============================================================================
