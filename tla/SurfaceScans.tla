----------------------------- MODULE SurfaceScans -----------------------------
(***************************************************************************)
(* Scans of the external surface: who may start one (control/surface.go),  *)
(* what recording it changes (storepg/surface.go), the section of an       *)
(* evidence bundle that carries it (storepg/surface_exposure.go) and the   *)
(* offline verification of that section (evidence/surface.go).             *)
(*                                                                         *)
(* A scan is recorded by one transaction that holds the row of its asset:  *)
(* its findings, the intervals of those that came back, the scan itself    *)
(* and its entry in the audit ledger.  Of the ledger only those entries    *)
(* are kept.  A digest is the scan it was computed from.  An instant is    *)
(* the number of probes that ended before it.                              *)
(***************************************************************************)
EXTENDS Integers, Sequences, FiniteSets, SequencesExt

CONSTANTS
    Assets, Checks, Findings, Levels,
    CheckOf,        \* [Findings -> Checks]: a finding is reported by one check
    Handlers,       \* requests that scan by hand
    Schedule,       \* the goroutine that scans what is due
    Nobody,
    MaxChanges,     \* bound: declarations, confirmations, removals
    MaxRescans,     \* bound: scans asked for by hand or of what was scanned before
    MaxFaults       \* bound: steps that fail, and restarts

Workers == Handlers \cup {Schedule}

ASSUME NamesAssumption == Nobody \notin Workers /\ Schedule \notin Handlers
ASSUME CheckOfAssumption == CheckOf \in [Findings -> Checks]
ASSUME BoundsAssumption == {MaxChanges, MaxRescans, MaxFaults} \subseteq Nat

VARIABLES
    asset,      \* surface_assets
    holder,     \* who holds the row of an asset (FOR UPDATE)
    rows,       \* surface_findings
    past,       \* surface_finding_intervals
    scans,      \* surface_scans
    ledger,     \* the ledger's entries of scans
    claim,      \* what the server knows of the scans of an asset
    clock,
    worker,     \* goroutines that scan
    export,     \* an evidence bundle as it is put together
    spent

vars == <<asset, holder, rows, past, scans, ledger, claim, clock, worker, export, spent>>
tables == <<rows, past, scans, ledger>>

NoRow == [level |-> "none"]
NoReport == [assessed |-> {}, seen |-> <<>>]
Idle == [pc |-> "idle", todo |-> {}, claimed |-> {}, report |-> NoReport, at |-> 0]
NoExport == [read |-> 0, audit |-> <<>>, surface |-> <<>>]

At(w, label) == worker[w].pc = label
Goto(w, label) == worker' = [worker EXCEPT ![w].pc = label]
Use(what, n, max) == spent[what] + n <= max /\ spent' = [spent EXCEPT ![what] = @ + n]
Fault == Use("faults", 1, MaxFaults)

Confirmed(a) == asset[a].state = "active" /\ asset[a].authorised
Scanned(a) == \E i \in DOMAIN scans : scans[i].asset = a
\* A worker scans what it claimed one by one.
Current(w) == CHOOSE a \in worker[w].claimed : TRUE

-------------------------------------------------------------------------------
(* Administrators.  A statement on an asset waits for who holds its row.   *)

Change(a) == Use("changes", 1, MaxChanges) /\ holder[a] = Nobody

\* CreateSurfaceAsset: a new value, or one that was removed; nothing carries over.
Declare(a) ==
    /\ Change(a) /\ asset[a].state # "active"
    /\ \E confirmed \in BOOLEAN :
          asset' = [asset EXCEPT ![a] = [state |-> "active", authorised |-> confirmed]]
    /\ UNCHANGED <<holder, tables, claim, clock, worker, export>>

SetAuthorised(a) ==
    /\ Change(a) /\ asset[a].state = "active"
    /\ asset' = [asset EXCEPT ![a].authorised = ~ @]
    /\ UNCHANGED <<holder, tables, claim, clock, worker, export>>

RemoveAsset(a) ==
    /\ Change(a) /\ asset[a].state = "active"
    /\ asset' = [asset EXCEPT ![a] = [state |-> "removed", authorised |-> FALSE]]
    /\ UNCHANGED <<holder, tables, claim, clock, worker, export>>

-------------------------------------------------------------------------------
(* Starting a scan.                                                        *)

\* HandleSurfaceScan: one asset or all of them, those confirmed as it reads them.
Request(h) ==
    /\ At(h, "idle")
    /\ LET known == {a \in Assets : Confirmed(a)} IN
       \E targets \in {known} \cup {{a} : a \in known} :
          /\ targets # {}
          /\ Use("rescans", Cardinality(targets), MaxRescans)
          /\ worker' = [worker EXCEPT ![h] = [Idle EXCEPT !.pc = "claim", !.todo = targets]]
    /\ UNCHANGED <<asset, holder, tables, claim, clock, export>>

\* SurfaceAssetsDue: what was never scanned, and what was long ago.
Pass ==
    /\ At(Schedule, "idle")
    /\ LET known == {a \in Assets : Confirmed(a)} IN
       \E old \in SUBSET {a \in known : Scanned(a)} :
          LET due == {a \in known : ~ Scanned(a)} \cup old IN
          /\ due # {}
          /\ Use("rescans", Cardinality(old), MaxRescans)
          /\ worker' = [worker EXCEPT ![Schedule] = [Idle EXCEPT !.pc = "claim", !.todo = due]]
    /\ UNCHANGED <<asset, holder, tables, claim, clock, export>>

\* claimSurfaceScan; a scan by hand may come too soon after another.
MayClaim(w, a) == claim[a] # "running"
TooSoon(w, a) == w # Schedule /\ claim[a] = "ran"

\* The handler claims all it means to scan before the first, the schedule one by one.
ClaimNext(w, a) ==
    /\ At(w, "claim") /\ a \in worker[w].todo
    /\ LET left == worker[w].todo \ {a}
           claimed == worker[w].claimed \cup {a} IN
       \/ /\ MayClaim(w, a)
          /\ claim' = [claim EXCEPT ![a] = "running"]
          /\ worker' = [worker EXCEPT ![w].todo = left, ![w].claimed = claimed,
                           ![w].pc = IF w = Schedule \/ left = {} THEN "read" ELSE "claim"]
       \/ /\ ~ MayClaim(w, a) \/ TooSoon(w, a)
          /\ worker' = [worker EXCEPT ![w].todo = left,
                           ![w].pc = IF left # {} THEN "claim"
                                     ELSE IF worker[w].claimed # {} THEN "read" ELSE "idle"]
          /\ UNCHANGED claim
    /\ UNCHANGED <<asset, holder, tables, clock, export, spent>>

-------------------------------------------------------------------------------
(* One scan, of the asset w is at.                                         *)

\* runSurfaceScan reads the asset again.
ReadAsset(w) ==
    /\ At(w, "read")
    /\ \/ Goto(w, IF Confirmed(Current(w)) THEN "probe" ELSE "release") /\ UNCHANGED spent
       \/ Fault /\ Goto(w, "release")
    /\ UNCHANGED <<asset, holder, tables, claim, clock, export>>

\* A check may find something and still not be assessed (a partial DKIM lookup).
Reports ==
    [assessed : SUBSET Checks, seen : UNION {[fs -> Levels] : fs \in SUBSET Findings}]

Probe(w) ==
    /\ At(w, "probe")
    /\ \/ /\ clock' = clock + 1
          /\ \E report \in Reports :
                worker' = [worker EXCEPT ![w].pc = "lock", ![w].report = report, ![w].at = clock']
          /\ UNCHANGED spent
       \/ Fault /\ Goto(w, "release") /\ UNCHANGED clock
    /\ UNCHANGED <<asset, holder, tables, claim, export>>

\* The row is read and not held: whoever changes it does not wait.
LockUnheld(w) ==
    /\ At(w, "lock")
    /\ LET a == Current(w) IN
       /\ holder[a] = Nobody
       /\ Goto(w, IF Confirmed(a) THEN "commit" ELSE "release")
    /\ UNCHANGED <<asset, holder, tables, claim, clock, export, spent>>

\* RecordSurfaceScan: the row is held from the check of the authorisation on.
LockAsset(w) ==
    /\ At(w, "lock")
    /\ LET a == Current(w) IN
       /\ holder[a] = Nobody
       /\ IF Confirmed(a)
          THEN holder' = [holder EXCEPT ![a] = w] /\ Goto(w, "commit")
          ELSE UNCHANGED holder /\ Goto(w, "release")
    /\ UNCHANGED <<asset, tables, claim, clock, export, spent>>

IsOpen(row) == row # NoRow /\ row.resolved = 0
New(a, report) == {f \in DOMAIN report.seen : ~ IsOpen(rows[a][f])}
\* Every check resolves what it did not see, whether it was assessed or not.
GoneUnassessed(a, report) ==
    {f \in Findings : IsOpen(rows[a][f]) /\ f \notin DOMAIN report.seen}
\* What an assessed check reported before and no longer does.
Gone(a, report) ==
    {f \in Findings : /\ IsOpen(rows[a][f]) /\ CheckOf[f] \in report.assessed
                      /\ f \notin DOMAIN report.seen}

\* The row of f after the scan with this id, which ended at t.
Recorded(a, f, report, id, t) ==
    LET row == rows[a][f] IN
    CASE f \in New(a, report) ->
            [level |-> report.seen[f], first |-> t, resolved |-> 0, firstScan |-> id, lastScan |-> id]
      [] f \in DOMAIN report.seen \ New(a, report) ->
            [row EXCEPT !.level = report.seen[f], !.lastScan = id]
      [] f \in Gone(a, report) -> [row EXCEPT !.resolved = t, !.lastScan = id]
      [] OTHER -> row

\* The interval that ended is kept before first_seen restarts.
Archived(a, f, report) ==
    IF f \in New(a, report) /\ rows[a][f] # NoRow
    THEN past[a][f] \cup {<<rows[a][f].first, rows[a][f].resolved>>}
    ELSE past[a][f]

Scan(w) ==
    LET a == Current(w)
        report == worker[w].report IN
    [asset |-> a, at |-> worker[w].at, seen |-> report.seen, assessed |-> report.assessed,
     opened |-> New(a, report), closed |-> Gone(a, report)]

Commit(w) ==
    /\ At(w, "commit")
    /\ LET a == Current(w)
           report == worker[w].report
           id == Len(scans) + 1 IN
       \/ /\ rows' = [rows EXCEPT ![a] =
                         [f \in Findings |-> Recorded(a, f, report, id, worker[w].at)]]
          /\ past' = [past EXCEPT ![a] = [f \in Findings |-> Archived(a, f, report)]]
          /\ scans' = Append(scans, Scan(w))
          /\ ledger' = Append(ledger, [scan |-> id, digest |-> Scan(w)])
          /\ UNCHANGED spent
       \/ Fault /\ UNCHANGED tables
    /\ holder' = [holder EXCEPT ![Current(w)] = Nobody]
    /\ Goto(w, "release")
    /\ UNCHANGED <<asset, claim, clock, export>>

\* What is left to do once a scan of w is over.
Onward(w) ==
    LET left == worker[w].claimed \ {Current(w)} IN
    [Idle EXCEPT !.todo = worker[w].todo, !.claimed = left,
                 !.pc = IF left # {} THEN "read"
                        ELSE IF worker[w].todo # {} THEN "claim" ELSE "idle"]

\* Only a scan that was recorded gives its claim back.
ReleaseRecorded(w) ==
    /\ At(w, "release")
    /\ claim' = [claim EXCEPT ![Current(w)] = IF Scanned(Current(w)) THEN "ran" ELSE @]
    /\ worker' = [worker EXCEPT ![w] = Onward(w)]
    /\ UNCHANGED <<asset, holder, tables, clock, export, spent>>

\* releaseSurfaceScan, however the scan ended.
Release(w) ==
    /\ At(w, "release")
    /\ claim' = [claim EXCEPT ![Current(w)] = "ran"]
    /\ worker' = [worker EXCEPT ![w] = Onward(w)]
    /\ UNCHANGED <<asset, holder, tables, clock, export, spent>>

\* The process starts again: no claim, no scan and no export under way.
Restart ==
    /\ Fault
    /\ worker' = [w \in Workers |-> Idle]
    /\ claim' = [a \in Assets |-> "never"]
    /\ holder' = [a \in Assets |-> Nobody]
    /\ export' = NoExport
    /\ UNCHANGED <<asset, tables, clock>>

-------------------------------------------------------------------------------
(* ExportEvidence: the audit range, from some entry on, and then the       *)
(* surface section, read in one snapshot.                                  *)

SurfaceFirst == <<"surface", "audit">>
Sections == <<"audit", "surface">>

ReadAudit ==
    \E from \in 1 .. Len(ledger) + 1 :
        export' = [export EXCEPT !.read = @ + 1, !.audit = SubSeq(ledger, from, Len(ledger))]

ReadSurface ==
    export' = [export EXCEPT !.read = @ + 1,
                             !.surface = [rows |-> rows, past |-> past, scans |-> scans]]

Export ==
    /\ \/ /\ export.read < Len(Sections)
          /\ \/ Sections[export.read + 1] = "audit" /\ ReadAudit
             \/ Sections[export.read + 1] = "surface" /\ ReadSurface
       \/ /\ export.read = Len(Sections)
          /\ export' = NoExport
    /\ UNCHANGED <<asset, holder, tables, claim, clock, worker, spent>>

-------------------------------------------------------------------------------
(* verifySurface, of a bundle.                                             *)

Entries(b, id) == {i \in DOMAIN b.audit : b.audit[i].scan = id}

\* seenInconsistency: a finding opened without being seen, or closed while seen.
Consistent(s) == s.opened \subseteq DOMAIN s.seen /\ s.closed \cap DOMAIN s.seen = {}

Attested(b) ==
    {id \in DOMAIN b.surface.scans :
        \E i \in DOMAIN b.audit :
            /\ Entries(b, id) = {i}
            /\ b.audit[i].digest = b.surface.scans[id]
            /\ Consistent(b.surface.scans[id])}

Unattested(b) == {id \in DOMAIN b.surface.scans : Entries(b, id) = {}}

\* Entries whose scan does not match or is not in the bundle.
Unmatched(b) ==
    {i \in DOMAIN b.audit : b.audit[i].scan \notin Attested(b)}

Vouched(b, a) ==
    /\ \A id \in DOMAIN b.surface.scans \ Attested(b) : b.surface.scans[id].asset # a
    /\ \A i \in Unmatched(b) : b.audit[i].digest.asset # a

\* The attested scans of an asset.
Told(b, a) == {id \in Attested(b) : b.surface.scans[id].asset = a}

\* The scans s are walked oldest first.
Older(s, i, j) == s[i].at < s[j].at \/ (s[i].at = s[j].at /\ i < j)
Newest(s, ids, o) == o \in ids /\ \A i \in ids \ {o} : Older(s, i, o)

\* Of the scans told, those that opened f, that opened or closed it, that saw it.
Opening(s, told, f) == {i \in told : f \in s[i].opened}
Changing(s, told, f) == {i \in told : f \in s[i].opened \cup s[i].closed}
Sighting(s, told, f) == {i \in told : f \in DOMAIN s[i].seen}

\* What was opened by o is closed by the next change, unless that opens it again.
Closing(s, told, f, o) ==
    {c \in Changing(s, told, f) \ Opening(s, told, f) :
        /\ Older(s, o, c)
        /\ \A k \in Changing(s, told, f) : ~ (Older(s, o, k) /\ Older(s, k, c))}

Interval(s, told, f, o) ==
    <<s[o].at, IF Closing(s, told, f, o) = {} THEN 0
               ELSE s[CHOOSE c \in Closing(s, told, f, o) : TRUE].at>>

\* A listed finding is what the scans say: its intervals, the last one among them,
\* the scans that opened and closed it last, and its latest sighting.
Matches(s, told, f, row, ended) ==
    \E o \in told, g \in told :
        /\ Newest(s, Opening(s, told, f), o)
        /\ Newest(s, Sighting(s, told, f), g)
        /\ ended \cup {<<row.first, row.resolved>>}
              = {Interval(s, told, f, i) : i \in Opening(s, told, f)}
        /\ row.level = s[g].seen[f]
        /\ row.firstScan = o
        /\ IF Closing(s, told, f, o) = {} THEN row.lastScan = g
           ELSE row.lastScan \in Closing(s, told, f, o)

\* Every finding that a scan opened or closed is listed.
Verifies(b) ==
    /\ Unmatched(b) = {}
    /\ DOMAIN b.surface.scans = Attested(b) \cup Unattested(b)
    /\ \A a \in Assets, f \in Findings :
          LET s == b.surface.scans
              row == b.surface.rows[a][f] IN
          IF row = NoRow THEN Changing(s, Told(b, a), f) = {}
          ELSE Vouched(b, a) => Matches(s, Told(b, a), f, row, b.surface.past[a][f])

-------------------------------------------------------------------------------
Init ==
    /\ asset = [a \in Assets |-> [state |-> "none", authorised |-> FALSE]]
    /\ holder = [a \in Assets |-> Nobody]
    /\ rows = [a \in Assets |-> [f \in Findings |-> NoRow]]
    /\ past = [a \in Assets |-> [f \in Findings |-> {}]]
    /\ scans = <<>> /\ ledger = <<>>
    /\ claim = [a \in Assets |-> "never"]
    /\ clock = 0
    /\ worker = [w \in Workers |-> Idle]
    /\ export = NoExport
    /\ spent = [what \in {"changes", "rescans", "faults"} |-> 0]

Work(w) ==
    \/ \E a \in Assets : ClaimNext(w, a)
    \/ ReadAsset(w) \/ Probe(w) \/ LockAsset(w) \/ Commit(w) \/ Release(w)

Next ==
    \/ \E a \in Assets : Declare(a) \/ SetAuthorised(a) \/ RemoveAsset(a)
    \/ \E h \in Handlers : Request(h)
    \/ Pass \/ Restart \/ Export
    \/ \E w \in Workers : Work(w)

Spec == Init /\ [][Next]_vars

\* The schedule comes round, and a scan that was begun goes on.
FairSpec == Spec /\ WF_vars(Pass) /\ \A w \in Workers : WF_vars(Work(w))

-------------------------------------------------------------------------------
\* A bundle of an untouched database verifies, whatever was scanned while it was put
\* together and wherever its audit range begins (ExportEvidence, verifySurface).
ExportVerifies == export.read = Len(Sections) => Verifies(export)

\* A revocation or a removal that lands in mid-scan leaves no fresh results behind:
\* no scan is recorded at a moment its asset is not confirmed (RecordSurfaceScan).
RevokedRecordsNothing ==
    [][Len(scans') > Len(scans) => Confirmed(scans'[Len(scans')].asset)]_vars

\* A finding stays open until an assessed check no longer sees it: a check that was
\* not assessed resolves nothing, however scans failed or were repeated in between.
OpenUntilSeenGone ==
    \A a \in Assets, f \in Findings :
        LET of == {i \in DOMAIN scans : scans[i].asset = a}
            saw == {i \in of : f \in DOMAIN scans[i].seen}
            gone == {i \in of \ saw : CheckOf[f] \in scans[i].assessed} IN
        IsOpen(rows[a][f]) <=> \E i \in saw : \A j \in gone : j < i

\* An asset that is confirmed and stays so is scanned: no claim outlives its scan
\* (claimSurfaceScan, releaseSurfaceScan).
ConfirmedIsScanned == \A a \in Assets : []<>(Confirmed(a) => Scanned(a))
===============================================================================
