-------------------------- MODULE SurfaceScansProofs --------------------------
(***************************************************************************)
(* Proofs about the external surface.  Its scans, for any number of        *)
(* assets, checks, findings and requests: what is recorded is confirmed, a *)
(* finding is open exactly until it is seen gone, and every evidence       *)
(* bundle verifies.  The checks of one scan, for any asset and any set of  *)
(* questions that go unanswered: the SPF walk ends, and silence decides    *)
(* nothing.                                                                *)
(***************************************************************************)
EXTENDS Surface, SequenceTheorems, FiniteSetTheorems, TLAPS

Labels == {"idle", "claim", "read", "probe", "lock", "commit", "release"}
ScanRecords ==
    [asset : Assets, at : Nat, seen : UNION {[fs -> Levels] : fs \in SUBSET Findings},
     assessed : SUBSET Checks, opened : SUBSET Findings, closed : SUBSET Findings]
RowRecords ==
    [level : Levels, first : Nat, resolved : Nat, firstScan : Nat, lastScan : Nat]
WorkerRecords ==
    [pc : Labels, todo : SUBSET Assets, claimed : SUBSET Assets, report : Reports, at : Nat]
LedgerRecords == [scan : Nat, digest : ScanRecords]
RowTables == [Assets -> [Findings -> RowRecords \cup {NoRow}]]
PastTables == [Assets -> [Findings -> SUBSET (Nat \X Nat)]]
SurfaceSections == [rows : RowTables, past : PastTables, scans : Seq(ScanRecords)]
Exports == [read : {0, 1, 2}, audit : Seq(LedgerRecords), surface : SurfaceSections \cup {<<>>}]

\* The shape of the tables, of the scans under way and of a bundle.  What bounds the
\* runs (spent) plays no part in a proof.
TypeOK ==
    /\ asset \in [Assets -> [state : {"none", "active", "removed"}, authorised : BOOLEAN]]
    /\ holder \in [Assets -> Workers \cup {Nobody}]
    /\ rows \in RowTables
    /\ past \in PastTables
    /\ scans \in Seq(ScanRecords)
    /\ ledger \in Seq(LedgerRecords)
    /\ clock \in Nat
    /\ worker \in [Workers -> WorkerRecords]
    /\ export \in Exports

\* A worker that is at an asset has one, and a scan that was made ended after the start.
AtAnAsset ==
    \A w \in Workers :
        /\ worker[w].pc \in {"read", "probe", "lock", "commit", "release"} => worker[w].claimed # {}
        /\ worker[w].pc \in {"lock", "commit"} => worker[w].at > 0

\* Whoever is about to commit holds the row of an asset that is still confirmed.
CommitHolds ==
    \A w \in Workers : At(w, "commit") => holder[Current(w)] = w /\ Confirmed(Current(w))

IInv == TypeOK /\ AtAnAsset /\ CommitHolds

-----------------------------------------------------------------------------
(* Which step writes what.                                                 *)

\* Only a commit that succeeds writes the tables, and it does so in one piece.
Records(w) ==
    /\ rows' = [rows EXCEPT ![Current(w)] =
                   [f \in Findings |-> Recorded(Current(w), f, worker[w].report, Len(scans) + 1, worker[w].at)]]
    /\ past' = [past EXCEPT ![Current(w)] =
                   [f \in Findings |-> Archived(Current(w), f, worker[w].report)]]
    /\ scans' = Append(scans, Scan(w))
    /\ ledger' = Append(ledger, [scan |-> Len(scans) + 1, digest |-> Scan(w)])

\* Every action but a commit leaves the tables alone.
LEMMA TablesWriters ==
    ASSUME [Next]_vars, ~ \E w \in Workers : Commit(w)
    PROVE UNCHANGED <<rows, past, scans, ledger>>
BY DEF Next, Work, vars, tables, Declare, SetAuthorised, RemoveAsset, Request, Pass, Restart, Export, ClaimNext,
       ReadAsset, Probe, LockAsset, Release

\* A commit records or, when it fails, changes no table.
LEMMA CommitWrites ==
    ASSUME NEW w \in Workers, Commit(w)
    PROVE Records(w) \/ UNCHANGED <<rows, past, scans, ledger>>
BY DEF Commit, Records, tables

\* An asset is changed by an administrator, and only while nobody holds its row.
LEMMA AssetWriters ==
    ASSUME TypeOK, [Next]_vars
    PROVE \/ asset' = asset
          \/ \E a \in Assets : /\ holder[a] = Nobody /\ holder' = holder /\ worker' = worker
                               /\ \A b \in Assets \ {a} : asset'[b] = asset[b]
<1>1. ASSUME NEW a \in Assets, Declare(a) \/ SetAuthorised(a) \/ RemoveAsset(a)
      PROVE /\ holder[a] = Nobody /\ holder' = holder /\ worker' = worker
            /\ \A b \in Assets \ {a} : asset'[b] = asset[b]
    BY <1>1 DEF Declare, SetAuthorised, RemoveAsset, Change, TypeOK
<1>2. CASE asset' = asset
    BY <1>2
<1> QED
    BY <1>1, <1>2 DEF Next, Work, vars, Request, Pass, Restart, Export, ClaimNext, ReadAsset, Probe, LockAsset,
        Commit, Release

\* The asset a worker is at is one of those it claimed.
LEMMA CurrentIs ==
    ASSUME TypeOK, AtAnAsset, NEW w \in Workers,
           worker[w].pc \in {"read", "probe", "lock", "commit", "release"}
    PROVE Current(w) \in worker[w].claimed /\ Current(w) \in Assets
BY DEF TypeOK, AtAnAsset, Current, WorkerRecords

\* A step of a worker touches no other worker.
LEMMA OthersStay ==
    ASSUME TypeOK, NEW w \in Workers, NEW v \in Workers \ {w}, Work(w)
    PROVE worker'[v] = worker[v]
BY DEF TypeOK, Work, ClaimNext, ReadAsset, Probe, LockAsset, Commit, Release, Goto

-----------------------------------------------------------------------------
(* The types.                                                              *)

\* What Idle is.
LEMMA IdleType == Idle \in WorkerRecords
<1>1. <<>> \in [{} -> Levels]
    BY SMT
<1>2. NoReport \in Reports
    BY <1>1 DEF NoReport, Reports
<1> QED
    BY <1>2 DEF Idle, WorkerRecords, Labels

\* What a commit would record of a finding is a row.
LEMMA RecordedType ==
    ASSUME TypeOK, NEW a \in Assets, NEW f \in Findings, NEW report \in Reports, NEW id \in Nat, NEW t \in Nat
    PROVE Recorded(a, f, report, id, t) \in RowRecords \cup {NoRow}
<1> DEFINE row == rows[a][f]
<1>1. row \in RowRecords \cup {NoRow}
    BY DEF TypeOK, RowTables
<1>2. PICK fs \in SUBSET Findings : report.seen \in [fs -> Levels]
    BY DEF Reports
<1>3. CASE f \in New(a, report)
    <2>1. report.seen[f] \in Levels
        BY <1>2, <1>3 DEF New
    <2> QED
        BY <1>3, <2>1 DEF Recorded, RowRecords, New, Gone
<1>4. CASE f \in DOMAIN report.seen \ New(a, report)
    <2>1. report.seen[f] \in Levels /\ row \in RowRecords
        BY <1>1, <1>2, <1>4 DEF New, IsOpen
    <2>2. Recorded(a, f, report, id, t) = [row EXCEPT !.level = report.seen[f], !.lastScan = id]
        BY <1>4 DEF Recorded, New, Gone
    <2> QED
        BY <2>1, <2>2 DEF RowRecords
<1>5. CASE f \in Gone(a, report)
    <2>1. row \in RowRecords
        BY <1>1, <1>5 DEF Gone, IsOpen
    <2>2. Recorded(a, f, report, id, t) = [row EXCEPT !.resolved = t, !.lastScan = id]
        BY <1>5 DEF Recorded, Gone, New
    <2> QED
        BY <2>1, <2>2 DEF RowRecords
<1>6. CASE f \notin DOMAIN report.seen /\ f \notin Gone(a, report)
    BY <1>1, <1>6 DEF Recorded, New
<1> QED
    BY <1>3, <1>4, <1>5, <1>6 DEF New

\* What a worker records is a scan.
LEMMA ScanType ==
    ASSUME TypeOK, AtAnAsset, NEW w \in Workers, At(w, "commit")
    PROVE Scan(w) \in ScanRecords
<1>1. Current(w) \in Assets
    BY CurrentIs DEF At
<1>2. worker[w].report \in Reports /\ worker[w].at \in Nat
    BY DEF TypeOK, WorkerRecords
<1>3. PICK fs \in SUBSET Findings : worker[w].report.seen \in [fs -> Levels]
    BY <1>2 DEF Reports
<1>4. New(Current(w), worker[w].report) \subseteq Findings
    BY <1>3 DEF New
<1>5. Gone(Current(w), worker[w].report) \subseteq Findings
    BY DEF Gone
<1>6. worker[w].report.assessed \in SUBSET Checks
    BY <1>2 DEF Reports
<1>7. worker[w].report.seen \in UNION {[gs -> Levels] : gs \in SUBSET Findings}
    BY <1>3
<1> QED
    BY <1>1, <1>2, <1>4, <1>5, <1>6, <1>7 DEF Scan, ScanRecords

\* A worker one of whose fields is written keeps its shape.
LEMMA FieldType ==
    ASSUME NEW f \in [Workers -> WorkerRecords], NEW w \in Workers
    PROVE /\ \A l \in Labels : [f EXCEPT ![w].pc = l] \in [Workers -> WorkerRecords]
          /\ \A s \in SUBSET Assets : [f EXCEPT ![w].todo = s] \in [Workers -> WorkerRecords]
          /\ \A s \in SUBSET Assets : [f EXCEPT ![w].claimed = s] \in [Workers -> WorkerRecords]
          /\ \A r \in Reports : [f EXCEPT ![w].report = r] \in [Workers -> WorkerRecords]
          /\ \A t \in Nat : [f EXCEPT ![w].at = t] \in [Workers -> WorkerRecords]
<1>1. ASSUME NEW r \in WorkerRecords
      PROVE /\ \A l \in Labels : [r EXCEPT !.pc = l] \in WorkerRecords
            /\ \A s \in SUBSET Assets : [r EXCEPT !.todo = s] \in WorkerRecords
            /\ \A s \in SUBSET Assets : [r EXCEPT !.claimed = s] \in WorkerRecords
            /\ \A c \in Reports : [r EXCEPT !.report = c] \in WorkerRecords
            /\ \A t \in Nat : [r EXCEPT !.at = t] \in WorkerRecords
    BY DEF WorkerRecords
<1> QED
    BY <1>1

\* The workers keep their shape.
LEMMA WorkersStep == IInv /\ [Next]_vars => worker' \in [Workers -> WorkerRecords]
<1> SUFFICES ASSUME IInv, [Next]_vars PROVE worker' \in [Workers -> WorkerRecords]
    OBVIOUS
<1>1. TypeOK
    BY DEF IInv
<1>2. CASE worker' = worker
    BY <1>1, <1>2 DEF TypeOK
<1>3. CASE Restart
    BY <1>3, IdleType DEF Restart
<1>4. ASSUME NEW h \in Workers, NEW targets \in SUBSET Assets,
             worker' = [worker EXCEPT ![h] = [Idle EXCEPT !.pc = "claim", !.todo = targets]]
      PROVE worker' \in [Workers -> WorkerRecords]
    <2>1. [Idle EXCEPT !.pc = "claim", !.todo = targets] \in WorkerRecords
        BY IdleType DEF WorkerRecords, Labels
    <2> QED
        BY <1>1, <1>4, <2>1 DEF TypeOK
<1>5. ASSUME NEW w \in Workers, NEW a \in Assets, ClaimNext(w, a) PROVE worker' \in [Workers -> WorkerRecords]
    <2> DEFINE left == worker[w].todo \ {a}
               claimed == worker[w].claimed \cup {a}
    <2>1. worker \in [Workers -> WorkerRecords] /\ left \in SUBSET Assets /\ claimed \in SUBSET Assets
        BY <1>1 DEF TypeOK, WorkerRecords
    <2>2. PICK l \in Labels :
            \/ worker' = [worker EXCEPT ![w].todo = left, ![w].claimed = claimed, ![w].pc = l]
            \/ worker' = [worker EXCEPT ![w].todo = left, ![w].pc = l]
        BY <1>5 DEF ClaimNext, Labels
    <2> HIDE DEF left, claimed
    <2>3. [worker EXCEPT ![w].todo = left] \in [Workers -> WorkerRecords]
        BY <2>1, FieldType
    <2>4. [worker EXCEPT ![w].todo = left, ![w].claimed = claimed] \in [Workers -> WorkerRecords]
        BY <2>1, <2>3, FieldType
    <2> QED
        BY <2>2, <2>3, <2>4, FieldType
<1>6. ASSUME NEW w \in Workers, NEW l \in Labels, Goto(w, l) PROVE worker' \in [Workers -> WorkerRecords]
    BY <1>1, <1>6, FieldType DEF Goto, TypeOK
<1>7. ASSUME NEW w \in Workers, Probe(w) PROVE worker' \in [Workers -> WorkerRecords]
    <2>1. CASE Goto(w, "release")
        BY <1>6, <2>1 DEF Labels
    <2>2. ASSUME NEW report \in Reports, clock' = clock + 1,
                 worker' = [worker EXCEPT ![w].pc = "lock", ![w].report = report, ![w].at = clock']
          PROVE worker' \in [Workers -> WorkerRecords]
        <3>1. worker \in [Workers -> WorkerRecords] /\ clock' \in Nat
            BY <1>1, <2>2 DEF TypeOK
        <3>2. [worker EXCEPT ![w].pc = "lock"] \in [Workers -> WorkerRecords]
            BY <3>1, FieldType DEF Labels
        <3>3. [worker EXCEPT ![w].pc = "lock", ![w].report = report] \in [Workers -> WorkerRecords]
            BY <3>2, FieldType
        <3> QED
            BY <2>2, <3>1, <3>3, FieldType
    <2> QED
        BY <1>7, <2>1, <2>2 DEF Probe
<1>8. ASSUME NEW w \in Workers, Release(w) PROVE worker' \in [Workers -> WorkerRecords]
    <2>1. Onward(w) \in WorkerRecords
        BY <1>1, IdleType DEF Onward, TypeOK, WorkerRecords, Labels
    <2> QED
        BY <1>1, <1>8, <2>1 DEF Release, TypeOK
<1>9. ASSUME NEW h \in Handlers, Request(h) PROVE worker' \in [Workers -> WorkerRecords]
    <2> DEFINE known == {a \in Assets : Confirmed(a)}
    <2>1. PICK targets \in {known} \cup {{a} : a \in known} :
            worker' = [worker EXCEPT ![h] = [Idle EXCEPT !.pc = "claim", !.todo = targets]]
        BY <1>9 DEF Request
    <2>2. targets \in SUBSET Assets
        OBVIOUS
    <2> QED
        BY <1>4, <2>1, <2>2 DEF Workers
<1>10. ASSUME Pass PROVE worker' \in [Workers -> WorkerRecords]
    <2> DEFINE known == {a \in Assets : Confirmed(a)}
    <2>1. PICK old \in SUBSET {a \in known : Scanned(a)} :
            worker' = [worker EXCEPT ![Schedule] =
                          [Idle EXCEPT !.pc = "claim", !.todo = {a \in known : ~ Scanned(a)} \cup old]]
        BY <1>10 DEF Pass
    <2>2. {a \in known : ~ Scanned(a)} \cup old \in SUBSET Assets
        OBVIOUS
    <2> QED
        BY <1>4, <2>1, <2>2 DEF Workers
<1>11. ASSUME NEW w \in Workers, ReadAsset(w) \/ LockAsset(w) \/ Commit(w) PROVE worker' \in [Workers -> WorkerRecords]
    BY <1>6, <1>11 DEF ReadAsset, LockAsset, Commit, Labels
<1> QED
    BY <1>2, <1>3, <1>5, <1>7, <1>8, <1>9, <1>10, <1>11
       DEF Next, Work, vars, Declare, SetAuthorised, RemoveAsset, Export

\* The assets keep their shape; nothing but an administrator's statement writes them.
LEMMA AssetsStep ==
    IInv /\ [Next]_vars => asset' \in [Assets -> [state : {"none", "active", "removed"}, authorised : BOOLEAN]]
<1> SUFFICES ASSUME IInv, [Next]_vars
             PROVE asset' \in [Assets -> [state : {"none", "active", "removed"}, authorised : BOOLEAN]]
    OBVIOUS
<1> DEFINE States == [state : {"none", "active", "removed"}, authorised : BOOLEAN]
<1>1. asset \in [Assets -> States]
    BY DEF IInv, TypeOK
<1>2. ASSUME NEW a \in Assets, Declare(a) \/ RemoveAsset(a) PROVE asset' \in [Assets -> States]
    <2>1. PICK r \in States : asset' = [asset EXCEPT ![a] = r]
        <3>1. CASE Declare(a)
            <4>1. PICK c \in BOOLEAN : asset' = [asset EXCEPT ![a] = [state |-> "active", authorised |-> c]]
                BY <3>1 DEF Declare
            <4>2. [state |-> "active", authorised |-> c] \in States
                OBVIOUS
            <4> QED
                BY <4>1, <4>2
        <3>2. CASE RemoveAsset(a)
            <4>1. [state |-> "removed", authorised |-> FALSE] \in States
                OBVIOUS
            <4> QED
                BY <3>2, <4>1 DEF RemoveAsset
        <3> QED
            BY <1>2, <3>1, <3>2
    <2> QED
        BY <1>1, <2>1
<1>3. ASSUME NEW a \in Assets, SetAuthorised(a) PROVE asset' \in [Assets -> States]
    <2>1. [asset[a] EXCEPT !.authorised = ~ @] \in States
        BY <1>1
    <2> QED
        BY <1>1, <1>3, <2>1 DEF SetAuthorised
<1>4. CASE asset' = asset
    BY <1>1, <1>4
<1> QED
    BY <1>2, <1>3, <1>4 DEF Next, Work, vars, Request, Pass, Restart, Export, ClaimNext, ReadAsset, Probe,
        LockAsset, Commit, Release

\* The tables keep their shape.
LEMMA TablesStep ==
    IInv /\ [Next]_vars =>
        /\ rows' \in RowTables /\ past' \in PastTables
        /\ scans' \in Seq(ScanRecords) /\ ledger' \in Seq(LedgerRecords)
<1> SUFFICES ASSUME IInv, [Next]_vars, NEW w \in Workers, Commit(w), Records(w)
             PROVE /\ rows' \in RowTables /\ past' \in PastTables
                   /\ scans' \in Seq(ScanRecords) /\ ledger' \in Seq(LedgerRecords)
    BY TablesWriters, CommitWrites DEF IInv, TypeOK
<1>1. TypeOK /\ AtAnAsset
    BY DEF IInv
<1>2. worker[w].report \in Reports /\ worker[w].at \in Nat /\ Len(scans) + 1 \in Nat /\ Current(w) \in Assets
    BY <1>1, CurrentIs DEF TypeOK, WorkerRecords, Commit, At
<1>3. rows' \in RowTables
    <2>1. [f \in Findings |-> Recorded(Current(w), f, worker[w].report, Len(scans) + 1, worker[w].at)]
            \in [Findings -> RowRecords \cup {NoRow}]
        BY <1>1, <1>2, RecordedType
    <2> QED
        BY <1>1, <2>1 DEF Records, TypeOK, RowTables
<1>4. past' \in PastTables
    <2>1. ASSUME NEW f \in Findings PROVE Archived(Current(w), f, worker[w].report) \in SUBSET (Nat \X Nat)
        <3>1. past[Current(w)][f] \in SUBSET (Nat \X Nat)
            BY <1>1, <1>2 DEF TypeOK, PastTables
        <3>2. rows[Current(w)][f] # NoRow => rows[Current(w)][f] \in RowRecords
            BY <1>1, <1>2 DEF TypeOK, RowTables
        <3>3. rows[Current(w)][f] # NoRow =>
                <<rows[Current(w)][f].first, rows[Current(w)][f].resolved>> \in Nat \X Nat
            BY <3>2 DEF RowRecords
        <3> QED
            BY <3>1, <3>3 DEF Archived
    <2>2. [f \in Findings |-> Archived(Current(w), f, worker[w].report)] \in [Findings -> SUBSET (Nat \X Nat)]
        BY <2>1
    <2> QED
        BY <1>1, <2>2 DEF Records, TypeOK, PastTables
<1>5. Scan(w) \in ScanRecords
    BY <1>1, ScanType DEF Commit
<1>6. scans' \in Seq(ScanRecords)
    BY <1>1, <1>5 DEF Records, TypeOK
<1>7. ledger' \in Seq(LedgerRecords)
    <2>1. [scan |-> Len(scans) + 1, digest |-> Scan(w)] \in LedgerRecords
        BY <1>2, <1>5 DEF LedgerRecords
    <2> QED
        BY <1>1, <2>1 DEF Records, TypeOK
<1> QED
    BY <1>3, <1>4, <1>6, <1>7

\* A bundle keeps its shape.
LEMMA ExportStep == IInv /\ [Next]_vars => export' \in Exports
<1> SUFFICES ASSUME IInv, [Next]_vars PROVE export' \in Exports
    OBVIOUS
<1>1. TypeOK
    BY DEF IInv
<1>2. NoExport \in Exports
    BY DEF NoExport, Exports
<1>3. CASE Export
    <2>1. Len(Sections) = 2
        BY DEF Sections
    <2>2. CASE export' = NoExport
        BY <1>2, <2>2
    <2>3. CASE export.read < 2 /\ ReadAudit
        <3>1. PICK from \in 1 .. Len(ledger) + 1 :
                export' = [export EXCEPT !.read = @ + 1, !.audit = SubSeq(ledger, from, Len(ledger))]
            BY <2>3 DEF ReadAudit
        <3>2. SubSeq(ledger, from, Len(ledger)) \in Seq(LedgerRecords)
            BY <1>1 DEF TypeOK
        <3>3. export.read + 1 \in {0, 1, 2}
            BY <1>1, <2>3 DEF TypeOK, Exports
        <3> QED
            BY <1>1, <3>1, <3>2, <3>3 DEF TypeOK, Exports
    <2>4. CASE export.read < 2 /\ ReadSurface
        <3>1. [rows |-> rows, past |-> past, scans |-> scans] \in SurfaceSections
            BY <1>1 DEF TypeOK, SurfaceSections
        <3>2. export.read + 1 \in {0, 1, 2}
            BY <1>1, <2>4 DEF TypeOK, Exports
        <3> QED
            BY <1>1, <2>4, <3>1, <3>2 DEF ReadSurface, TypeOK, Exports
    <2> QED
        BY <1>3, <2>1, <2>2, <2>3, <2>4 DEF Export
<1>4. CASE Restart
    BY <1>2, <1>4 DEF Restart
<1>5. CASE export' = export
    BY <1>1, <1>5 DEF TypeOK
<1> QED
    BY <1>3, <1>4, <1>5 DEF Next, Work, vars, Declare, SetAuthorised, RemoveAsset, Request, Pass, ClaimNext,
        ReadAsset, Probe, LockAsset, Commit, Release

\* Every variable keeps its shape.
LEMMA TypeStep == IInv /\ [Next]_vars => TypeOK'
<1> SUFFICES ASSUME IInv, [Next]_vars PROVE TypeOK'
    OBVIOUS
<1>1. TypeOK /\ AtAnAsset
    BY DEF IInv
<1>2. holder' \in [Assets -> Workers \cup {Nobody}]
    <2>1. ASSUME NEW w \in Workers, LockAsset(w) PROVE holder' \in [Assets -> Workers \cup {Nobody}]
        BY <1>1, <2>1 DEF LockAsset, TypeOK
    <2>2. ASSUME NEW w \in Workers, Commit(w) PROVE holder' \in [Assets -> Workers \cup {Nobody}]
        BY <1>1, <2>2 DEF Commit, TypeOK
    <2>3. CASE Restart
        BY <2>3 DEF Restart
    <2>4. CASE holder' = holder
        BY <1>1, <2>4 DEF TypeOK
    <2> QED
        BY <2>1, <2>2, <2>3, <2>4 DEF Next, Work, vars, Declare, SetAuthorised, RemoveAsset, Request, Pass, Export,
            ClaimNext, ReadAsset, Probe, Release
<1>3. clock' \in Nat
    <2>1. clock' \in {clock, clock + 1}
        BY DEF Next, Work, vars, Declare, SetAuthorised, RemoveAsset, Request, Pass, Restart, Export, ClaimNext,
            ReadAsset, Probe, LockAsset, Commit, Release
    <2> QED
        BY <1>1, <2>1 DEF TypeOK
<1> QED
    BY <1>2, <1>3, AssetsStep, TablesStep, WorkersStep, ExportStep DEF TypeOK

-----------------------------------------------------------------------------
(* Where the workers are, and the row they hold.                           *)

\* What becomes of a worker, as far as its place is concerned.
LEMMA Moves ==
    ASSUME TypeOK, AtAnAsset, NEW w \in Workers, [Next]_vars
    PROVE \/ worker'[w] = worker[w]
          \/ worker'[w].pc \in {"idle", "claim"}
          \/ worker'[w].pc \in {"read", "probe", "release"} /\ worker'[w].claimed # {}
          \/ /\ worker'[w].pc = "lock" /\ worker'[w].claimed # {} /\ worker'[w].at > 0
          \/ /\ At(w, "lock") /\ LockAsset(w) /\ worker'[w].claimed = worker[w].claimed
             /\ worker'[w].at = worker[w].at
             /\ Confirmed(Current(w)) /\ holder' = [holder EXCEPT ![Current(w)] = w]
<1>1. CASE Restart
    BY <1>1 DEF Restart, Idle
<1>2. CASE Request(w) \/ (w = Schedule /\ Pass)
    BY <1>2 DEF Request, Pass, Idle, TypeOK
<1>3. ASSUME NEW a \in Assets, ClaimNext(w, a)
      PROVE \/ worker'[w].pc = "claim" \/ worker'[w].pc = "idle"
            \/ worker'[w].pc = "read" /\ worker'[w].claimed # {}
    <2>1. CASE /\ claim' = [claim EXCEPT ![a] = "running"]
               /\ worker' = [worker EXCEPT ![w].todo = worker[w].todo \ {a},
                                ![w].claimed = worker[w].claimed \cup {a},
                                ![w].pc = IF w = Schedule \/ worker[w].todo \ {a} = {} THEN "read" ELSE "claim"]
        <3>1. worker'[w].claimed = worker[w].claimed \cup {a} /\ worker'[w].pc \in {"read", "claim"}
            BY <2>1 DEF TypeOK, WorkerRecords
        <3> QED
            BY <3>1
    <2>2. CASE worker' = [worker EXCEPT ![w].todo = worker[w].todo \ {a},
                             ![w].pc = IF worker[w].todo \ {a} # {} THEN "claim"
                                       ELSE IF worker[w].claimed # {} THEN "read" ELSE "idle"]
        <3>1. /\ worker'[w].claimed = worker[w].claimed
              /\ \/ worker'[w].pc \in {"claim", "idle"}
                 \/ worker'[w].pc = "read" /\ worker[w].claimed # {}
            BY <2>2 DEF TypeOK, WorkerRecords
        <3> QED
            BY <3>1
    <2> QED
        BY <1>3, <2>1, <2>2 DEF ClaimNext
<1>4. CASE ReadAsset(w) \/ Commit(w)
    <2>1. worker[w].claimed # {}
        BY <1>4 DEF ReadAsset, Commit, At, AtAnAsset
    <2>2. PICK l \in {"probe", "release"} : Goto(w, l)
        BY <1>4 DEF ReadAsset, Commit
    <2> QED
        BY <2>1, <2>2 DEF Goto, TypeOK, WorkerRecords
<1>5. CASE Probe(w)
    <2>1. worker[w].claimed # {}
        BY <1>5 DEF Probe, At, AtAnAsset
    <2>2. CASE Goto(w, "release")
        BY <2>1, <2>2 DEF Goto, TypeOK, WorkerRecords
    <2>3. ASSUME NEW report \in Reports, clock' = clock + 1,
                 worker' = [worker EXCEPT ![w].pc = "lock", ![w].report = report, ![w].at = clock']
          PROVE worker'[w].pc = "lock" /\ worker'[w].claimed # {} /\ worker'[w].at > 0
        BY <2>1, <2>3 DEF TypeOK, WorkerRecords
    <2> QED
        BY <1>5, <2>1, <2>2, <2>3 DEF Probe, Goto, TypeOK, WorkerRecords
<1>6. CASE LockAsset(w)
    BY <1>6 DEF LockAsset, Goto, At, TypeOK, WorkerRecords, AtAnAsset
<1>7. CASE Release(w)
    BY <1>7 DEF Release, Onward, Idle, TypeOK
<1>8. CASE worker'[w] = worker[w]
    BY <1>8
<1>9. ASSUME NEW v \in Workers \ {w}, Work(v) PROVE worker'[w] = worker[w]
    BY <1>9, OthersStay
<1>10. ASSUME NEW h \in Handlers, h # w, Request(h) PROVE worker'[w] = worker[w]
    BY <1>10 DEF Request, TypeOK
<1>11. CASE w # Schedule /\ Pass
    BY <1>11 DEF Pass, TypeOK
<1>12. CASE \E a \in Assets : Declare(a) \/ SetAuthorised(a) \/ RemoveAsset(a)
    BY <1>12 DEF Declare, SetAuthorised, RemoveAsset
<1>13. CASE Export \/ UNCHANGED vars
    BY <1>13 DEF Export, vars
<1> QED
    BY <1>1, <1>2, <1>3, <1>4, <1>5, <1>6, <1>7, <1>9, <1>10, <1>11, <1>12, <1>13 DEF Next, Work

\* A worker at an asset has claimed one.
LEMMA AtAnAssetStep == IInv /\ [Next]_vars => AtAnAsset'
<1> SUFFICES ASSUME IInv, [Next]_vars, NEW w \in Workers
             PROVE /\ worker'[w].pc \in {"read", "probe", "lock", "commit", "release"} => worker'[w].claimed # {}
                   /\ worker'[w].pc \in {"lock", "commit"} => worker'[w].at > 0
    BY DEF AtAnAsset
<1> QED
    BY Moves DEF IInv, AtAnAsset, At

\* The row of an asset is held from the check of the authorisation to the commit,
\* and whoever would change the asset waits.
LEMMA CommitHoldsStep == IInv /\ [Next]_vars => CommitHolds'
<1> SUFFICES ASSUME IInv, [Next]_vars, NEW w \in Workers, worker'[w].pc = "commit"
             PROVE (holder[Current(w)] = w /\ Confirmed(Current(w)))'
    BY DEF CommitHolds, At
<1>1. TypeOK /\ AtAnAsset /\ CommitHolds
    BY DEF IInv
<1> DEFINE c == Current(w)
<1>2. CASE worker'[w] = worker[w]
    <2>1. At(w, "commit") /\ c \in Assets /\ holder[c] = w /\ Confirmed(c) /\ Current(w)' = c
        BY <1>1, <1>2, CurrentIs DEF CommitHolds, At, Current
    <2>2. holder'[c] = w
        <3>1. CASE holder' = holder
            BY <2>1, <3>1
        <3>2. ASSUME NEW v \in Workers, LockAsset(v) PROVE holder'[c] = w
            \* The row v takes was nobody's.
            BY <1>1, <2>1, <3>2, NamesAssumption DEF LockAsset, TypeOK
        <3>3. ASSUME NEW v \in Workers, Commit(v) PROVE holder'[c] = w
            <4>1. v # w
                BY <1>1, <1>2, <2>1, <3>3 DEF Commit, Goto, At, TypeOK, WorkerRecords
            <4>2. holder[Current(v)] = v
                BY <1>1, <3>3 DEF CommitHolds, Commit
            <4> QED
                BY <1>1, <2>1, <3>3, <4>1, <4>2 DEF Commit, TypeOK
        <3>4. ~ Restart
            BY <1>2, <2>1 DEF Restart, Idle, At
        <3> QED
            BY <3>1, <3>2, <3>3, <3>4 DEF Next, Work, vars, Declare, SetAuthorised, RemoveAsset, Request, Pass, Export,
                ClaimNext, ReadAsset, Probe, Release
    <2>3. asset'[c] = asset[c]
        BY <1>1, <2>1, AssetWriters, NamesAssumption
    <2> QED
        BY <2>1, <2>2, <2>3 DEF Confirmed
<1>3. CASE worker'[w] # worker[w]
    <2>1. LockAsset(w) /\ worker'[w].claimed = worker[w].claimed /\ Confirmed(c)
          /\ holder' = [holder EXCEPT ![c] = w] /\ At(w, "lock")
        BY <1>1, <1>3, Moves
    <2>2. c \in Assets /\ Current(w)' = c
        BY <1>1, <2>1, CurrentIs DEF At, Current
    <2>3. asset' = asset
        BY <2>1 DEF LockAsset
    <2> QED
        BY <1>1, <2>1, <2>2, <2>3 DEF TypeOK, Confirmed
<1> QED
    BY <1>2, <1>3

\* Nothing is declared and nobody scans.
LEMMA InitHolds == Init => IInv
<1> SUFFICES ASSUME Init PROVE IInv
    OBVIOUS
<1>1. TypeOK
    <2>1. NoExport \in Exports
        BY DEF NoExport, Exports
    <2> QED
        BY IdleType, <2>1 DEF Init, TypeOK, RowTables, PastTables
<1>2. AtAnAsset /\ CommitHolds
    BY DEF Init, AtAnAsset, CommitHolds, At, Idle
<1> QED
    BY <1>1, <1>2 DEF IInv

\* LockAsset and Commit, RecordSurfaceScan: in every state that can be reached, whoever
\* is about to record holds the row of an asset that is confirmed.
THEOREM Invariance == Spec => []IInv
<1>1. IInv /\ [Next]_vars => IInv'
    BY TypeStep, AtAnAssetStep, CommitHoldsStep DEF IInv
<1> QED
    BY InitHolds, <1>1, PTL DEF Spec

\* Every variable of the scanner keeps its shape (surface_assets, surface_findings,
\* surface_scans and the scans under way).
THEOREM TypeCorrect == Spec => []TypeOK
BY Invariance, PTL DEF IInv

-----------------------------------------------------------------------------
(* What is recorded.                                                       *)

\* RecordSurfaceScan: a scan is recorded only at a moment when its asset is confirmed,
\* however revocations, removals and other scans fall in between.
THEOREM RevocationHolds == Spec => RevokedRecordsNothing
<1>1. IInv /\ [Next]_vars => [Len(scans') > Len(scans) => Confirmed(scans'[Len(scans')].asset)]_vars
    <2> SUFFICES ASSUME IInv, NEW w \in Workers, Commit(w), Records(w)
                 PROVE Confirmed(scans'[Len(scans')].asset)
        BY TablesWriters, CommitWrites DEF IInv, TypeOK
    <2>1. scans \in Seq(ScanRecords) /\ scans' = Append(scans, Scan(w))
        BY DEF IInv, TypeOK, Records
    <2>2. scans'[Len(scans')] = Scan(w)
        BY <2>1
    <2>3. Confirmed(Current(w))
        BY DEF IInv, CommitHolds, Commit
    <2> QED
        BY <2>2, <2>3 DEF Scan
<1> QED
    BY <1>1, Invariance, PTL DEF Spec, RevokedRecordsNothing

\* OpenUntilSeenGone, of one finding of one asset.
OpenAgrees(a, f) ==
    IsOpen(rows[a][f]) <=>
        \E i \in DOMAIN scans :
            /\ scans[i].asset = a /\ f \in DOMAIN scans[i].seen
            /\ \A j \in DOMAIN scans :
                  scans[j].asset = a /\ f \notin DOMAIN scans[j].seen /\ CheckOf[f] \in scans[j].assessed => j < i

\* What a commit does to a row: a finding that was seen is open, one that an assessed
\* check no longer sees is not, and any other row is left alone.
LEMMA RecordedOpen ==
    ASSUME TypeOK, NEW a \in Assets, NEW f \in Findings, NEW report, NEW id \in Nat, NEW t \in Nat, t > 0
    PROVE LET new == Recorded(a, f, report, id, t) IN
          IF f \in DOMAIN report.seen THEN IsOpen(new)
          ELSE IF CheckOf[f] \in report.assessed THEN ~ IsOpen(new)
          ELSE IsOpen(new) <=> IsOpen(rows[a][f])
<1> DEFINE row == rows[a][f]
           new == Recorded(a, f, report, id, t)
<1>1. row \in RowRecords \/ row = NoRow
    BY DEF TypeOK, RowTables
<1>2. CASE f \in New(a, report)
    <2>1. new = [level |-> report.seen[f], first |-> t, resolved |-> 0, firstScan |-> id, lastScan |-> id]
        BY <1>2 DEF Recorded, New, Gone
    <2> QED
        BY <1>2, <2>1 DEF IsOpen, NoRow, New
<1>3. CASE f \in DOMAIN report.seen \ New(a, report)
    <2>1. new = [row EXCEPT !.level = report.seen[f], !.lastScan = id]
        BY <1>3 DEF Recorded, New, Gone
    <2>2. row \in RowRecords /\ row.resolved = 0
        BY <1>1, <1>3 DEF New, IsOpen
    <2> QED
        BY <1>3, <2>1, <2>2 DEF IsOpen, NoRow, RowRecords
<1>4. CASE f \in Gone(a, report)
    <2>1. new = [row EXCEPT !.resolved = t, !.lastScan = id]
        BY <1>4 DEF Recorded, New, Gone
    <2>2. row \in RowRecords
        BY <1>1, <1>4 DEF Gone, IsOpen
    <2>3. new.resolved = t
        BY <2>1, <2>2 DEF RowRecords
    <2> QED
        BY <1>4, <2>3 DEF IsOpen, Gone
<1>5. CASE f \notin DOMAIN report.seen /\ f \notin Gone(a, report)
    <2>1. new = row
        BY <1>5 DEF Recorded, New
    <2> QED
        BY <1>5, <2>1 DEF Gone
<1> QED
    BY <1>2, <1>3, <1>4, <1>5 DEF New

\* The rows are what the scans say, initially and after every step.
LEMMA OpenStep ==
    ASSUME IInv, [Next]_vars, NEW a \in Assets, NEW f \in Findings, OpenAgrees(a, f)
    PROVE OpenAgrees(a, f)'
<1>1. TypeOK /\ AtAnAsset
    BY DEF IInv
<1>2. CASE UNCHANGED <<rows, past, scans, ledger>>
    BY <1>2 DEF OpenAgrees
<1>3. ASSUME NEW w \in Workers, Commit(w), Records(w) PROVE OpenAgrees(a, f)'
    <2> DEFINE c == Current(w)
               report == worker[w].report
               n == Len(scans) + 1
               new == Recorded(c, f, report, n, worker[w].at)
    <2>1. c \in Assets /\ worker[w].at \in Nat /\ worker[w].at > 0 /\ n \in Nat
        BY <1>1, <1>3, CurrentIs DEF TypeOK, WorkerRecords, AtAnAsset, Commit, At
    <2>2. /\ DOMAIN scans = 1 .. Len(scans) /\ DOMAIN scans' = 1 .. n /\ Len(scans) \in Nat
          /\ \A i \in DOMAIN scans : scans'[i] = scans[i]
          /\ scans'[n] = Scan(w)
        BY <1>1, <1>3 DEF Records, TypeOK
    <2>3. Scan(w).asset = c /\ Scan(w).seen = report.seen /\ Scan(w).assessed = report.assessed
        BY DEF Scan
    <2>4. CASE a # c
        <3>1. rows'[a][f] = rows[a][f]
            BY <1>1, <1>3, <2>1, <2>4 DEF Records, TypeOK, RowTables
        <3>2. n = Len(scans) + 1
            OBVIOUS
        <3> HIDE DEF n, c, report, new
        <3>3. scans'[n].asset # a
            BY <2>2, <2>3, <2>4
        <3>4. DOMAIN scans' = DOMAIN scans \cup {n} /\ n \notin DOMAIN scans
            BY <2>2, <3>2
        <3> QED
            BY <2>2, <3>1, <3>3, <3>4 DEF OpenAgrees
    <2>5. CASE a = c
        <3>1. rows'[a][f] = new
            BY <1>1, <1>3, <2>1, <2>5 DEF Records, TypeOK, RowTables
        <3>2. IF f \in DOMAIN report.seen THEN IsOpen(new)
              ELSE IF CheckOf[f] \in report.assessed THEN ~ IsOpen(new)
              ELSE IsOpen(new) <=> IsOpen(rows[a][f])
            BY <1>1, <2>1, <2>5, RecordedOpen
        <3>3. n = Len(scans) + 1
            OBVIOUS
        <3> HIDE DEF n, c, report, new
        <3>4. CASE f \in DOMAIN report.seen
            <4>1. \A j \in DOMAIN scans' :
                    scans'[j].asset = a /\ f \notin DOMAIN scans'[j].seen /\ CheckOf[f] \in scans'[j].assessed => j < n
                BY <2>1, <2>2, <2>3, <3>3, <3>4
            <4> QED
                BY <2>1, <2>2, <2>3, <2>5, <3>1, <3>2, <3>3, <3>4, <4>1 DEF OpenAgrees
        <3>5. CASE f \notin DOMAIN report.seen /\ CheckOf[f] \in report.assessed
            BY <2>1, <2>2, <2>3, <2>5, <3>1, <3>2, <3>3, <3>5 DEF OpenAgrees
        <3>6. CASE f \notin DOMAIN report.seen /\ CheckOf[f] \notin report.assessed
            BY <2>1, <2>2, <2>3, <2>5, <3>1, <3>2, <3>3, <3>6 DEF OpenAgrees
        <3> QED
            BY <3>4, <3>5, <3>6
    <2> QED
        BY <2>4, <2>5
<1> QED
    BY <1>2, <1>3, TablesWriters, CommitWrites

\* A finding is open exactly from a scan that saw it until a later scan, of which its
\* check was assessed, did not: a scan that was cut short resolves nothing.
THEOREM OpenUntilGone == Spec => []OpenUntilSeenGone
<1> DEFINE Agree == \A a \in Assets, f \in Findings : OpenAgrees(a, f)
<1>1. Init => Agree
    BY DEF Init, OpenAgrees, IsOpen
<1>2. Agree /\ IInv /\ [Next]_vars => Agree'
    BY OpenStep
<1>3. Agree => OpenUntilSeenGone
    BY DEF OpenAgrees, OpenUntilSeenGone
<1> HIDE DEF Agree
<1> QED
    BY <1>1, <1>2, <1>3, Invariance, PTL DEF Spec

-----------------------------------------------------------------------------
(* The evidence bundle.                                                    *)

\* A commit writes the scan and its entry together: entry i names scan i, with the
\* digest of what is stored; and a scan contradicts itself nowhere.
LedgerNamesScans ==
    /\ Len(ledger) = Len(scans)
    /\ \A i \in 1 .. Len(scans) :
          ledger[i] = [scan |-> i, digest |-> scans[i]] /\ Consistent(scans[i])

\* The entries of bundle b are those of scans of s from some scan on; the scans it
\* holds are all of s up to the last of these or a later one.
BundleFrom(from, b, s) ==
    /\ from + Len(b.audit) - 1 <= Len(s)
    /\ \A k \in 1 .. Len(b.audit) :
          b.audit[k] = [scan |-> from + k - 1, digest |-> s[from + k - 1]]
    /\ b.read = 2 =>
         /\ b.surface \in SurfaceSections
         /\ from + Len(b.audit) - 1 <= Len(b.surface.scans) /\ Len(b.surface.scans) <= Len(s)
         /\ \A i \in 1 .. Len(b.surface.scans) : b.surface.scans[i] = s[i]

BundleIsOfTheLedger == export.read > 0 => \E from \in Nat \ {0} : BundleFrom(from, export, scans)

\* A commit keeps the entries and the scans in step.
LEMMA LedgerStep ==
    IInv /\ LedgerNamesScans /\ [Next]_vars => LedgerNamesScans'
<1> SUFFICES ASSUME IInv, LedgerNamesScans, NEW w \in Workers, Commit(w), Records(w)
             PROVE LedgerNamesScans'
    BY TablesWriters, CommitWrites DEF LedgerNamesScans
<1>1. scans \in Seq(ScanRecords) /\ ledger \in Seq(LedgerRecords) /\ Scan(w) \in ScanRecords
    BY ScanType DEF IInv, TypeOK, Commit
<1>2. Consistent(Scan(w))
    BY DEF Consistent, Scan, New, Gone
<1>3. [scan |-> Len(scans) + 1, digest |-> Scan(w)] \in LedgerRecords
    BY <1>1 DEF LedgerRecords
<1>4. /\ Len(scans') = Len(scans) + 1 /\ scans'[Len(scans) + 1] = Scan(w)
      /\ \A i \in 1 .. Len(scans) : scans'[i] = scans[i]
    BY <1>1 DEF Records
<1>5. /\ Len(ledger') = Len(ledger) + 1
      /\ ledger'[Len(ledger) + 1] = [scan |-> Len(scans) + 1, digest |-> Scan(w)]
      /\ \A i \in 1 .. Len(ledger) : ledger'[i] = ledger[i]
    BY <1>1, <1>3 DEF Records
<1>6. ASSUME NEW i \in 1 .. Len(scans) + 1
      PROVE ledger'[i] = [scan |-> i, digest |-> scans'[i]] /\ Consistent(scans'[i])
    <2>1. CASE i = Len(scans) + 1
        BY <1>2, <1>4, <1>5, <2>1 DEF LedgerNamesScans
    <2>2. CASE i \in 1 .. Len(scans)
        BY <1>4, <1>5, <2>2 DEF LedgerNamesScans
    <2> QED
        BY <1>1, <2>1, <2>2
<1> QED
    BY <1>4, <1>5, <1>6 DEF LedgerNamesScans, Consistent

\* The part of the audit range a bundle holds.
LEMMA RangeRead ==
    ASSUME TypeOK, LedgerNamesScans, NEW from \in 1 .. Len(ledger) + 1
    PROVE LET audit == SubSeq(ledger, from, Len(ledger)) IN
          /\ Len(audit) = Len(ledger) - from + 1
          /\ \A k \in 1 .. Len(audit) : audit[k] = [scan |-> from + k - 1, digest |-> scans[from + k - 1]]
<1> DEFINE audit == SubSeq(ledger, from, Len(ledger))
<1>1. ledger \in Seq(LedgerRecords) /\ Len(ledger) \in Nat
    BY DEF TypeOK
<1>2. Len(audit) = Len(ledger) - from + 1 /\ \A k \in 1 .. Len(audit) : audit[k] = ledger[from + k - 1]
    BY <1>1
<1>3. ASSUME NEW k \in 1 .. Len(audit) PROVE from + k - 1 \in 1 .. Len(scans)
    BY <1>1, <1>2 DEF LedgerNamesScans
<1> QED
    BY <1>2, <1>3 DEF LedgerNamesScans

\* An export reads the ledger before the scans, so a bundle holds the scan of every entry.
LEMMA BundleStep ==
    IInv /\ LedgerNamesScans /\ BundleIsOfTheLedger /\ [Next]_vars => BundleIsOfTheLedger'
<1> SUFFICES ASSUME IInv, LedgerNamesScans, BundleIsOfTheLedger, [Next]_vars
             PROVE BundleIsOfTheLedger'
    OBVIOUS
<1>1. TypeOK /\ scans \in Seq(ScanRecords) /\ Len(scans) \in Nat /\ export \in Exports
    BY DEF IInv, TypeOK
<1>2. CASE export' = export
    <2>1. Len(scans) <= Len(scans') /\ \A i \in 1 .. Len(scans) : scans'[i] = scans[i]
        <3>1. ASSUME NEW w \in Workers, Commit(w), Records(w)
              PROVE Len(scans) <= Len(scans') /\ \A i \in 1 .. Len(scans) : scans'[i] = scans[i]
            BY <1>1, <3>1 DEF Records
        <3> QED
            BY <1>1, <3>1, TablesWriters, CommitWrites
    <2>2. Len(scans') \in Nat
        BY TablesStep, <1>1
    <2> SUFFICES ASSUME export.read > 0 PROVE BundleIsOfTheLedger'
        BY <1>2 DEF BundleIsOfTheLedger
    <2>3. PICK from \in Nat \ {0} : BundleFrom(from, export, scans)
        BY DEF BundleIsOfTheLedger
    <2>4. Len(export.audit) \in Nat
        BY <1>1 DEF Exports
    <2>5. \A k \in 1 .. Len(export.audit) : scans'[from + k - 1] = scans[from + k - 1]
        BY <1>1, <2>1, <2>3, <2>4 DEF BundleFrom
    <2>6. export.read = 2 => \A i \in 1 .. Len(export.surface.scans) : scans'[i] = scans[i]
        BY <1>1, <2>1, <2>3 DEF SurfaceSections, BundleFrom
    <2>7. export.read = 2 => Len(export.surface.scans) \in Nat
        BY <2>3 DEF SurfaceSections, BundleFrom
    <2>8. BundleFrom(from, export, scans')
        <3>1. from + Len(export.audit) - 1 <= Len(scans')
            BY <1>1, <2>1, <2>2, <2>3, <2>4 DEF BundleFrom
        <3>2. \A k \in 1 .. Len(export.audit) :
                 export.audit[k] = [scan |-> from + k - 1, digest |-> scans'[from + k - 1]]
            BY <2>3, <2>5 DEF BundleFrom
        <3>3. export.read = 2 =>
                /\ export.surface \in SurfaceSections
                /\ from + Len(export.audit) - 1 <= Len(export.surface.scans)
                /\ \A i \in 1 .. Len(export.surface.scans) : export.surface.scans[i] = scans'[i]
            BY <2>3, <2>6 DEF BundleFrom
        <3>4. export.read = 2 => Len(export.surface.scans) <= Len(scans')
            BY <1>1, <2>1, <2>2, <2>3, <2>7 DEF BundleFrom
        <3> QED
            BY <3>1, <3>2, <3>3, <3>4 DEF BundleFrom
    <2> QED
        BY <1>2, <2>8 DEF BundleIsOfTheLedger
<1>3. CASE Restart
    BY <1>3 DEF Restart, NoExport, BundleIsOfTheLedger
<1>4. CASE Export
    <2>1. scans' = scans /\ Len(Sections) = 2 /\ Sections[1] = "audit" /\ Sections[2] = "surface"
        BY <1>4 DEF Export, tables, Sections
    <2>2. CASE export' = NoExport
        BY <2>2 DEF NoExport, BundleIsOfTheLedger
    <2>3. CASE export.read = 0 /\ ReadAudit
        <3>1. PICK from \in 1 .. Len(ledger) + 1 :
                export' = [export EXCEPT !.read = @ + 1, !.audit = SubSeq(ledger, from, Len(ledger))]
            BY <2>3 DEF ReadAudit
        <3>2. export'.read = 1 /\ export'.audit = SubSeq(ledger, from, Len(ledger))
            <4> DEFINE range == SubSeq(ledger, from, Len(ledger))
            <4>1. export' = [export EXCEPT !.read = @ + 1, !.audit = range] /\ export.read = 0
                BY <2>3, <3>1
            <4> HIDE DEF range
            <4>2. export'.read = 1 /\ export'.audit = range
                BY <1>1, <4>1 DEF Exports
            <4> QED
                BY <4>2 DEF range
        <3>3. /\ Len(export'.audit) = Len(ledger) - from + 1
              /\ \A k \in 1 .. Len(export'.audit) :
                    export'.audit[k] = [scan |-> from + k - 1, digest |-> scans[from + k - 1]]
            BY <1>1, <3>2, RangeRead
        <3>4. from \in Nat \ {0} /\ from + Len(export'.audit) - 1 = Len(scans)
            BY <1>1, <3>3 DEF LedgerNamesScans
        <3>5. BundleFrom(from, export', scans')
            <4>1. from + Len(export'.audit) - 1 <= Len(scans')
                BY <1>1, <2>1, <3>4
            <4>2. export'.read # 2
                BY <3>2
            <4> QED
                BY <2>1, <3>3, <4>1, <4>2 DEF BundleFrom
        <3> QED
            BY <3>4, <3>5 DEF BundleIsOfTheLedger
    <2>4. CASE export.read = 1 /\ ReadSurface
        <3>1. /\ export'.read = 2 /\ export'.audit = export.audit
              /\ export'.surface = [rows |-> rows, past |-> past, scans |-> scans]
            BY <1>1, <2>4 DEF ReadSurface, Exports
        <3>2. export'.surface \in SurfaceSections
            BY <1>1, <3>1 DEF TypeOK, SurfaceSections
        <3>3. export'.surface.scans = scans
            BY <3>1
        <3>4. PICK from \in Nat \ {0} : BundleFrom(from, export, scans)
            BY <2>4 DEF BundleIsOfTheLedger
        <3>5. /\ from + Len(export.audit) - 1 <= Len(scans)
              /\ \A k \in 1 .. Len(export.audit) :
                    export.audit[k] = [scan |-> from + k - 1, digest |-> scans[from + k - 1]]
            BY <3>4 DEF BundleFrom
        <3>6. Len(scans) \in Nat /\ Len(scans) <= Len(scans)
            BY <1>1
        <3>7. /\ from + Len(export'.audit) - 1 <= Len(export'.surface.scans)
              /\ Len(export'.surface.scans) <= Len(scans')
              /\ \A i \in 1 .. Len(export'.surface.scans) : export'.surface.scans[i] = scans'[i]
            BY <2>1, <3>1, <3>3, <3>5, <3>6
        <3>8. /\ from + Len(export'.audit) - 1 <= Len(scans')
              /\ \A k \in 1 .. Len(export'.audit) :
                    export'.audit[k] = [scan |-> from + k - 1, digest |-> scans'[from + k - 1]]
            BY <2>1, <3>1, <3>5
        <3>9. BundleFrom(from, export', scans')
            BY <3>2, <3>7, <3>8 DEF BundleFrom
        <3> QED
            BY <3>9 DEF BundleIsOfTheLedger
    <2> QED
        BY <1>1, <1>4, <2>1, <2>2, <2>3, <2>4 DEF Export, Exports
<1> QED
    BY <1>2, <1>3, <1>4 DEF Next, Work, vars, Declare, SetAuthorised, RemoveAsset, Request, Pass, ClaimNext,
        ReadAsset, Probe, LockAsset, Commit, Release

\* In a bundle that was read in this order, every entry is of a scan the bundle holds
\* and matches, and a scan is attested by one entry or outside the range.
LEMMA BundleHolds ==
    ASSUME IInv, LedgerNamesScans, BundleIsOfTheLedger, export.read = Len(Sections)
    PROVE Unmatched(export) = {} /\ DOMAIN export.surface.scans = Attested(export) \cup Unattested(export)
<1> DEFINE audit == export.audit
           held == export.surface.scans
<1>1. export.read = 2 /\ scans \in Seq(ScanRecords) /\ export \in Exports
    BY DEF Sections, IInv, TypeOK
<1>2. PICK from \in Nat \ {0} : BundleFrom(from, export, scans)
    BY <1>1 DEF BundleIsOfTheLedger
<1>3. /\ from + Len(audit) - 1 <= Len(held) /\ Len(held) <= Len(scans)
      /\ \A k \in 1 .. Len(audit) : audit[k] = [scan |-> from + k - 1, digest |-> scans[from + k - 1]]
      /\ export.surface \in SurfaceSections
      /\ \A i \in 1 .. Len(held) : held[i] = scans[i]
    BY <1>1, <1>2 DEF BundleFrom
<1>b. audit \in Seq(LedgerRecords) /\ held \in Seq(ScanRecords)
    BY <1>1, <1>3 DEF Exports, SurfaceSections
<1> HIDE DEF audit, held
<1>4. DOMAIN audit = 1 .. Len(audit) /\ Len(audit) \in Nat /\ DOMAIN held = 1 .. Len(held) /\ Len(held) \in Nat
    BY <1>b
<1>5. \A k \in DOMAIN audit : audit[k].scan = from + k - 1 /\ audit[k].digest = scans[from + k - 1]
    BY <1>3, <1>4
<1>6. ASSUME NEW i \in DOMAIN held PROVE Consistent(held[i])
    <2>1. i \in 1 .. Len(scans) /\ held[i] = scans[i]
        BY <1>1, <1>3, <1>4
    <2>2. Consistent(scans[i])
        BY <2>1 DEF LedgerNamesScans
    <2> QED
        BY <2>1, <2>2
<1>7. ASSUME NEW k \in DOMAIN audit PROVE audit[k].scan \in Attested(export)
    <2> DEFINE id == from + k - 1
    <2>1. audit[k].scan = id /\ id \in DOMAIN held
        BY <1>3, <1>4, <1>5
    <2>2. Entries(export, id) = {k}
        BY <1>4, <1>5 DEF Entries, audit
    <2>3. audit[k].digest = held[id]
        BY <1>3, <1>4, <1>5, <2>1
    <2> QED
        BY <1>6, <2>1, <2>2, <2>3 DEF Attested, audit, held
<1>8. Unmatched(export) = {}
    BY <1>7 DEF Unmatched, audit
<1>9. ASSUME NEW id \in DOMAIN held, Entries(export, id) # {} PROVE id \in Attested(export)
    <2>1. PICK k \in DOMAIN audit : audit[k].scan = id
        BY <1>9 DEF Entries, audit
    <2> QED
        BY <1>7, <2>1
<1> QED
    BY <1>8, <1>9 DEF Attested, Unattested, held

-----------------------------------------------------------------------------
(* The findings of a bundle.                                               *)

\* No two workers scan one asset: a claim is given to one, and kept until it is over.
ClaimsApart ==
    /\ claim \in [Assets -> {"never", "running", "ran"}]
    /\ \A w \in Workers : \A a \in worker[w].claimed : claim[a] = "running"
    /\ \A v, w \in Workers : v # w => worker[v].claimed \cap worker[w].claimed = {}

\* So what is about to be recorded ended after all that was recorded of its asset.
InOrder ==
    /\ \A i \in DOMAIN scans : scans[i].at <= clock
    /\ \A w \in Workers : worker[w].pc \in {"lock", "commit"} =>
          /\ worker[w].at <= clock
          /\ \A i \in DOMAIN scans : scans[i].asset = Current(w) => scans[i].at < worker[w].at

\* All scans of an asset.
ScansOf(s, a) == {i \in DOMAIN s : s[i].asset = a}

\* A row says what the scans told say of a finding: that o opened it last and what g,
\* the latest sighting, saw; if it is open, nothing changed it since.
Fits(s, told, f, row, ended, o, g) ==
    /\ Newest(s, Opening(s, told, f), o)
    /\ Newest(s, Sighting(s, told, f), g)
    /\ row.first = s[o].at /\ row.firstScan = o
    /\ row.level = s[g].seen[f]
    /\ ended = {Interval(s, told, f, i) : i \in Opening(s, told, f) \ {o}}
    /\ IF row.resolved = 0
       THEN row.lastScan = g /\ \A k \in Changing(s, told, f) \ {o} : Older(s, k, o)
       ELSE Closing(s, told, f, o) = {row.lastScan} /\ row.resolved = s[row.lastScan].at

RowFits(s, told, f, row, ended) ==
    IF row = NoRow THEN Changing(s, told, f) = {} /\ ended = {}
    ELSE \E o \in told, g \in told : Fits(s, told, f, row, ended, o, g)

\* Every row says what the scans of its asset say.
RowsFit(t) ==
    \A a \in Assets, f \in Findings : RowFits(t.scans, ScansOf(t.scans, a), f, t.rows[a][f], t.past[a][f])

Tables == [rows |-> rows, past |-> past, scans |-> scans]
StoryInv == RowsFit(Tables) /\ (export.read = 2 => RowsFit(export.surface))

\* A claim is given to a worker only when no other has it.
LEMMA ClaimsApartStep ==
    ASSUME IInv, ClaimsApart, [Next]_vars
    PROVE ClaimsApart'
<1>1. TypeOK /\ AtAnAsset
    BY DEF IInv
<1> DEFINE Kept == claim' = claim /\ \A v \in Workers : worker'[v].claimed \subseteq worker[v].claimed
<1>2. CASE Kept
    BY <1>2 DEF ClaimsApart
<1>3. CASE Restart
    <2>1. \A v \in Workers : worker'[v].claimed = {}
        BY <1>3 DEF Restart, Idle
    <2> QED
        BY <1>3, <2>1 DEF Restart, ClaimsApart
<1>4. ASSUME NEW w \in Workers, NEW a \in Assets, ClaimNext(w, a) PROVE ClaimsApart'
    <2> DEFINE left == worker[w].todo \ {a}
    <2>1. CASE /\ MayClaim(w, a) /\ claim' = [claim EXCEPT ![a] = "running"]
               /\ worker' = [worker EXCEPT ![w].todo = left, ![w].claimed = worker[w].claimed \cup {a},
                                ![w].pc = IF w = Schedule \/ left = {} THEN "read" ELSE "claim"]
        <3>1. /\ worker'[w].claimed = worker[w].claimed \cup {a}
              /\ \A v \in Workers \ {w} : worker'[v].claimed = worker[v].claimed
            BY <1>1, <2>1 DEF TypeOK, WorkerRecords
        <3>2. claim[a] # "running"
            BY <2>1 DEF MayClaim
        <3>3. \A v \in Workers : a \notin worker[v].claimed
            BY <3>2 DEF ClaimsApart
        <3>4. claim' \in [Assets -> {"never", "running", "ran"}] /\ claim'[a] = "running"
              /\ \A b \in Assets \ {a} : claim'[b] = claim[b]
            BY <2>1 DEF ClaimsApart
        <3>5. ASSUME NEW v \in Workers, NEW b \in worker'[v].claimed PROVE claim'[b] = "running"
            BY <1>1, <3>1, <3>4 DEF ClaimsApart, TypeOK, WorkerRecords
        <3>6. ASSUME NEW u \in Workers, NEW v \in Workers, u # v
              PROVE worker'[u].claimed \cap worker'[v].claimed = {}
            BY <3>1, <3>3, <3>6 DEF ClaimsApart
        <3> QED
            BY <3>4, <3>5, <3>6 DEF ClaimsApart
    <2>2. CASE /\ UNCHANGED claim
               /\ worker' = [worker EXCEPT ![w].todo = left,
                                ![w].pc = IF left # {} THEN "claim"
                                          ELSE IF worker[w].claimed # {} THEN "read" ELSE "idle"]
        <3>1. \A v \in Workers : worker'[v].claimed = worker[v].claimed
            BY <1>1, <2>2 DEF TypeOK, WorkerRecords
        <3> QED
            BY <1>2, <2>2, <3>1
    <2> QED
        BY <1>4, <2>1, <2>2 DEF ClaimNext
<1>5. ASSUME NEW w \in Workers, Release(w) PROVE ClaimsApart'
    <2> DEFINE c == Current(w)
    <2>1. c \in worker[w].claimed /\ c \in Assets
        BY <1>1, <1>5, CurrentIs DEF Release, At
    <2>2. claim' = [claim EXCEPT ![c] = "ran"]
        BY <1>5 DEF Release
    <2>3. /\ worker'[w].claimed = worker[w].claimed \ {c}
          /\ \A v \in Workers \ {w} : worker'[v].claimed = worker[v].claimed
        BY <1>1, <1>5 DEF Release, Onward, Idle, TypeOK
    <2> HIDE DEF c
    <2>4. claim' \in [Assets -> {"never", "running", "ran"}] /\ \A b \in Assets \ {c} : claim'[b] = claim[b]
        BY <2>2 DEF ClaimsApart
    <2>5. ASSUME NEW v \in Workers, NEW b \in worker'[v].claimed PROVE claim'[b] = "running"
        <3>1. b \in worker[v].claimed /\ b # c
            BY <2>1, <2>3, <2>5 DEF ClaimsApart
        <3>2. b \in Assets
            BY <1>1, <3>1 DEF TypeOK, WorkerRecords
        <3> QED
            BY <2>4, <3>1, <3>2 DEF ClaimsApart
    <2> QED
        BY <2>3, <2>4, <2>5 DEF ClaimsApart
<1>6. ASSUME NEW w \in Workers, Work(w), ~ Release(w), \A a \in Assets : ~ ClaimNext(w, a) PROVE Kept
    <2>1. ASSUME NEW l, Goto(w, l), claim' = claim PROVE Kept
        <3>1. ASSUME NEW v \in Workers PROVE worker'[v].claimed = worker[v].claimed
            BY <1>1, <2>1 DEF Goto, TypeOK, WorkerRecords
        <3> QED
            BY <2>1, <3>1
    <2>2. ASSUME NEW report, worker' = [worker EXCEPT ![w].pc = "lock", ![w].report = report, ![w].at = clock'],
                 claim' = claim
          PROVE Kept
        <3>1. \A v \in Workers : worker'[v].claimed = worker[v].claimed
            BY <1>1, <2>2 DEF TypeOK, WorkerRecords
        <3> QED
            BY <2>2, <3>1
    <2> HIDE DEF Kept
    <2> QED
        BY <1>6, <2>1, <2>2 DEF Work, ReadAsset, Probe, LockAsset, Commit
<1>7. CASE Pass \/ \E h \in Handlers : Request(h)
    <2>1. PICK w, due : w \in Workers /\ worker' = [worker EXCEPT ![w] = [Idle EXCEPT !.pc = "claim", !.todo = due]]
        BY <1>7 DEF Pass, Request, Workers
    <2>2. [Idle EXCEPT !.pc = "claim", !.todo = due].claimed = {}
        BY DEF Idle
    <2>3. \A v \in Workers : worker'[v].claimed \subseteq worker[v].claimed
        BY <1>1, <2>1, <2>2 DEF TypeOK
    <2> QED
        BY <1>2, <1>7, <2>3 DEF Pass, Request
<1>8. CASE UNCHANGED <<claim, worker>>
    BY <1>2, <1>8
<1> HIDE DEF Kept
<1> QED
    BY <1>2, <1>3, <1>4, <1>5, <1>6, <1>7, <1>8 DEF Next, Work, vars, Declare, SetAuthorised, RemoveAsset, Export

\* A worker comes to wait for the row of its asset from the probe only.
LEMMA ToLock ==
    ASSUME TypeOK, AtAnAsset, NEW w \in Workers, [Next]_vars, worker'[w].pc \in {"lock", "commit"}
    PROVE worker'[w] = worker[w] \/ Probe(w) \/ LockAsset(w)
<1>1. CASE Restart
    BY <1>1 DEF Restart, Idle
<1>2. ASSUME NEW v \in Workers, NEW due,
             worker' = [worker EXCEPT ![v] = [Idle EXCEPT !.pc = "claim", !.todo = due]]
      PROVE worker'[w] = worker[w]
    <2>1. [Idle EXCEPT !.pc = "claim", !.todo = due].pc = "claim"
        BY DEF Idle
    <2> QED
        BY <1>2, <2>1 DEF TypeOK
<1>3. CASE Pass \/ \E h \in Handlers : Request(h)
    BY <1>2, <1>3 DEF Pass, Request, Workers
<1>4. ASSUME NEW v \in Workers \ {w}, Work(v) PROVE worker'[w] = worker[w]
    BY <1>4, OthersStay
<1>5. ASSUME NEW a \in Assets, ClaimNext(w, a) PROVE FALSE
    <2>1. worker'[w].pc \in {"read", "claim", "idle"}
        BY <1>5 DEF ClaimNext, TypeOK, WorkerRecords
    <2> QED
        BY <2>1
<1>6. ASSUME NEW l \in {"probe", "release"}, Goto(w, l) PROVE FALSE
    BY <1>6 DEF Goto, TypeOK, WorkerRecords
<1>7. CASE Release(w)
    <2>1. worker'[w].pc \in {"read", "claim", "idle"}
        BY <1>7 DEF Release, Onward, Idle, TypeOK
    <2> QED
        BY <2>1
<1>8. ~ ReadAsset(w) /\ ~ Commit(w)
    BY <1>6 DEF ReadAsset, Commit
<1>9. CASE UNCHANGED worker
    BY <1>9
<1> QED
    BY <1>1, <1>3, <1>4, <1>5, <1>7, <1>8, <1>9 DEF Next, Work, vars, Declare, SetAuthorised, RemoveAsset, Export

\* A probe that ends now is younger than all that is recorded, and what it found is
\* recorded before the next probe of the asset.
LEMMA InOrderStep ==
    ASSUME IInv, ClaimsApart, InOrder, [Next]_vars
    PROVE InOrder'
<1>1. TypeOK /\ AtAnAsset
    BY DEF IInv
<1>2. clock \in Nat /\ clock' \in Nat /\ clock <= clock'
    <2>1. clock' \in {clock, clock + 1}
        BY DEF Next, Work, vars, Declare, SetAuthorised, RemoveAsset, Request, Pass, Restart, Export, ClaimNext,
            ReadAsset, Probe, LockAsset, Commit, Release
    <2> QED
        BY <1>1, <2>1 DEF TypeOK
<1>3. \A i \in DOMAIN scans : scans[i].at \in Nat /\ scans[i].at <= clock
    <2>1. \A i \in DOMAIN scans : scans[i] \in ScanRecords
        BY <1>1 DEF TypeOK
    <2> QED
        BY <2>1 DEF ScanRecords, InOrder
<1>4. \/ scans' = scans
      \/ \E v \in Workers : /\ Commit(v) /\ Current(v) \in worker[v].claimed /\ At(v, "commit")
                            /\ worker[v].at \in Nat
                            /\ DOMAIN scans' = DOMAIN scans \cup {Len(scans) + 1}
                            /\ \A i \in DOMAIN scans : scans'[i] = scans[i]
                            /\ scans'[Len(scans) + 1].asset = Current(v)
                            /\ scans'[Len(scans) + 1].at = worker[v].at
    <2>1. ASSUME NEW v \in Workers, Commit(v), Records(v)
          PROVE /\ Current(v) \in worker[v].claimed /\ At(v, "commit") /\ worker[v].at \in Nat
                /\ DOMAIN scans' = DOMAIN scans \cup {Len(scans) + 1}
                /\ \A i \in DOMAIN scans : scans'[i] = scans[i]
                /\ scans'[Len(scans) + 1].asset = Current(v)
                /\ scans'[Len(scans) + 1].at = worker[v].at
        <3>1. At(v, "commit") /\ Current(v) \in worker[v].claimed /\ worker[v].at \in Nat
            BY <1>1, <2>1, CurrentIs DEF Commit, At, TypeOK, WorkerRecords
        <3>2. scans \in Seq(ScanRecords) /\ scans' = Append(scans, Scan(v))
            BY <1>1, <2>1 DEF Records, TypeOK
        <3>3. /\ DOMAIN scans' = DOMAIN scans \cup {Len(scans) + 1}
              /\ \A i \in DOMAIN scans : scans'[i] = scans[i]
              /\ scans'[Len(scans) + 1] = Scan(v)
            BY <3>2
        <3> QED
            BY <3>1, <3>3 DEF Scan
    <2> QED
        BY <2>1, TablesWriters, CommitWrites
<1>5. ASSUME NEW i \in DOMAIN scans' PROVE scans'[i].at <= clock'
    <2>1. CASE scans' = scans
        BY <1>2, <1>3, <1>5, <2>1
    <2>2. ASSUME NEW v \in Workers, At(v, "commit"), worker[v].at \in Nat,
                 DOMAIN scans' = DOMAIN scans \cup {Len(scans) + 1},
                 \A j \in DOMAIN scans : scans'[j] = scans[j],
                 scans'[Len(scans) + 1].at = worker[v].at
          PROVE scans'[i].at <= clock'
        <3>1. worker[v].at <= clock
            BY <2>2 DEF InOrder, At
        <3>2. CASE i \in DOMAIN scans
            BY <1>2, <1>3, <2>2, <3>2
        <3>3. CASE i = Len(scans) + 1
            BY <1>2, <2>2, <3>1, <3>3
        <3> QED
            BY <2>2, <3>2, <3>3
    <2> QED
        BY <1>4, <2>1, <2>2
<1>6. ASSUME NEW w \in Workers, worker'[w].pc \in {"lock", "commit"}
      PROVE /\ worker'[w].at <= clock'
            /\ \A i \in DOMAIN scans' : scans'[i].asset = Current(w)' => scans'[i].at < worker'[w].at
    <2>1. CASE Probe(w)
        <3>1. worker'[w].at = clock + 1 /\ clock' = clock + 1 /\ scans' = scans
            BY <1>1, <1>6, <2>1 DEF Probe, Goto, TypeOK, WorkerRecords, tables
        <3> QED
            BY <1>2, <1>3, <3>1
    <2>2. CASE LockAsset(w)
        <3>1. /\ worker'[w].at = worker[w].at /\ worker'[w].claimed = worker[w].claimed
              /\ worker[w].pc = "lock" /\ scans' = scans /\ clock' = clock
            BY <1>1, <2>2 DEF LockAsset, Goto, At, TypeOK, WorkerRecords, tables
        <3>2. Current(w)' = Current(w)
            BY <3>1 DEF Current
        <3> QED
            BY <3>1, <3>2 DEF InOrder
    <2>3. CASE worker'[w] = worker[w]
        <3>1. worker[w].pc \in {"lock", "commit"} /\ Current(w)' = Current(w) /\ worker[w].at \in Nat
            BY <1>1, <1>6, <2>3 DEF Current, TypeOK, WorkerRecords
        <3>2. /\ worker[w].at <= clock
              /\ \A i \in DOMAIN scans : scans[i].asset = Current(w) => scans[i].at < worker[w].at
            BY <3>1 DEF InOrder
        <3>3. Current(w) \in worker[w].claimed
            BY <1>1, <3>1, CurrentIs
        <3>4. ASSUME NEW v \in Workers, Commit(v), Current(v) \in worker[v].claimed
              PROVE Current(v) # Current(w)
            <4>1. v # w
                BY <1>1, <1>6, <3>4 DEF Commit, Goto, TypeOK, WorkerRecords
            <4> QED
                BY <3>3, <3>4, <4>1 DEF ClaimsApart
        <3>5. ASSUME NEW i \in DOMAIN scans', scans'[i].asset = Current(w)
              PROVE scans'[i].at < worker[w].at
            BY <1>4, <3>2, <3>4, <3>5
        <3> QED
            BY <1>2, <2>3, <3>1, <3>2, <3>5
    <2> QED
        BY <1>1, <1>6, <2>1, <2>2, <2>3, ToLock
<1> QED
    BY <1>5, <1>6 DEF InOrder

\* One more scan n, younger than those told: what it adds to what they say of f.
Adds(s, told, n) ==
    /\ n \in Nat /\ told \subseteq Nat /\ n \notin told /\ s[n].at \in Nat
    /\ \A i \in told : s[i].at \in Nat /\ s[i].at < s[n].at

\* It is younger than each of them; the order of these is as before.
LEMMA OneMore ==
    ASSUME NEW s, NEW t, NEW told, NEW n, Adds(t, told, n), \A i \in told : t[i] = s[i]
    PROVE /\ \A i, j \in told : Older(t, i, j) <=> Older(s, i, j)
          /\ \A i \in told : Older(t, i, n) /\ ~ Older(t, n, i) /\ ~ Older(s, i, i)
          /\ \A i, j \in told : ~ (Older(s, i, j) /\ Older(s, j, i))
          /\ ~ Older(t, n, n)
<1>1. \A i, j \in told : Older(t, i, j) <=> Older(s, i, j)
    BY DEF Older
<1>2. ASSUME NEW i \in told PROVE Older(t, i, n) /\ ~ Older(t, n, i) /\ ~ Older(s, i, i)
    <2>1. /\ i \in Nat /\ n \in Nat /\ i # n /\ t[i] = s[i]
          /\ t[i].at \in Nat /\ t[n].at \in Nat /\ t[i].at < t[n].at
        BY DEF Adds
    <2> QED
        BY <2>1 DEF Older
<1>3. ASSUME NEW i \in told, NEW j \in told PROVE ~ (Older(s, i, j) /\ Older(s, j, i))
    <2>1. t[i].at \in Nat /\ t[j].at \in Nat /\ i \in Nat /\ j \in Nat /\ t[i] = s[i] /\ t[j] = s[j]
        BY DEF Adds
    <2> QED
        BY <2>1 DEF Older
<1>4. ~ Older(t, n, n)
    BY DEF Older, Adds
<1> QED
    BY <1>1, <1>2, <1>3, <1>4

\* Nothing changed f after o.
NothingSince(s, told, f, o) == \A k \in Changing(s, told, f) : ~ Older(s, o, k)

\* The one more closes what o opened exactly if it closes f and nothing changed f in
\* between.
LEMMA ClosesToo ==
    ASSUME NEW s, NEW t, NEW told, NEW n, NEW f, Adds(t, told, n), \A i \in told : t[i] = s[i],
           NEW o \in told
    PROVE IF f \in t[n].closed \ t[n].opened /\ NothingSince(s, told, f, o)
          THEN Closing(t, told \cup {n}, f, o) = Closing(s, told, f, o) \cup {n}
          ELSE Closing(t, told \cup {n}, f, o) = Closing(s, told, f, o)
<1> DEFINE more == told \cup {n}
           change == Changing(s, told, f)
           open == Opening(s, told, f)
<1>1. /\ \A i, j \in told : Older(t, i, j) <=> Older(s, i, j)
      /\ \A i \in told : Older(t, i, n) /\ ~ Older(t, n, i)
      /\ ~ Older(t, n, n)
    BY OneMore
<1>2. /\ Opening(t, more, f) = IF f \in t[n].opened THEN open \cup {n} ELSE open
      /\ Changing(t, more, f) = IF f \in t[n].opened \cup t[n].closed THEN change \cup {n} ELSE change
    <2>1. n \notin told
        BY DEF Adds
    <2>2. Opening(t, more, f) = IF f \in t[n].opened THEN open \cup {n} ELSE open
        BY <2>1 DEF Opening
    <2>3. Changing(t, more, f) = IF f \in t[n].opened \cup t[n].closed THEN change \cup {n} ELSE change
        BY <2>1 DEF Changing
    <2> QED
        BY <2>2, <2>3
<1>3. change \subseteq told /\ open \subseteq change /\ n \notin told
    BY DEF Changing, Opening, Adds
<1> HIDE DEF change, open
<1>4. ASSUME NEW c \in told
      PROVE c \in Closing(t, more, f, o) <=> c \in Closing(s, told, f, o)
    <2>1. c \in Changing(t, more, f) \ Opening(t, more, f) <=> c \in change \ open
        BY <1>2, <1>3
    <2>2. (\A k \in Changing(t, more, f) : ~ (Older(t, o, k) /\ Older(t, k, c)))
              <=> \A k \in change : ~ (Older(s, o, k) /\ Older(s, k, c))
        BY <1>1, <1>2, <1>3
    <2> QED
        BY <1>1, <2>1, <2>2 DEF Closing, change, open
<1>5. n \in Closing(t, more, f, o) <=> f \in t[n].closed \ t[n].opened /\ NothingSince(s, told, f, o)
    <2>1. n \in Changing(t, more, f) \ Opening(t, more, f) <=> f \in t[n].closed \ t[n].opened
        BY <1>2, <1>3
    <2>2. (\A k \in Changing(t, more, f) : ~ (Older(t, o, k) /\ Older(t, k, n)))
              <=> \A k \in change : ~ Older(s, o, k)
        BY <1>1, <1>2, <1>3
    <2> QED
        BY <1>1, <2>1, <2>2 DEF Closing, NothingSince, change
<1>6. Closing(t, more, f, o) \subseteq more /\ Closing(s, told, f, o) \subseteq told
    BY <1>2, <1>3 DEF Closing, change
<1> QED
    BY <1>3, <1>4, <1>5, <1>6

\* What a scan does to the row of a finding is what it adds to the story.
LEMMA RowFitsAfter ==
    ASSUME TypeOK, NEW a \in Assets, NEW f \in Findings, NEW report \in Reports, NEW t, NEW n, NEW told,
           Adds(t, told, n), t[n].at > 0, \A i \in told : t[i] = scans[i],
           t[n].seen = report.seen, t[n].opened = New(a, report), t[n].closed = Gone(a, report),
           RowFits(scans, told, f, rows[a][f], past[a][f])
    PROVE RowFits(t, told \cup {n}, f, Recorded(a, f, report, n, t[n].at), Archived(a, f, report))
<1> DEFINE more == told \cup {n}
           row == rows[a][f]
           ended == past[a][f]
           new == Recorded(a, f, report, n, t[n].at)
           open == Opening(scans, told, f)
           change == Changing(scans, told, f)
           sight == Sighting(scans, told, f)
<1>1. row \in RowRecords \/ row = NoRow
    BY DEF TypeOK, RowTables
<1>2. n \notin told /\ n \in more /\ told \subseteq more /\ t[n].at \in Nat
    BY DEF Adds
<1>3. Opening(t, more, f) = IF f \in t[n].opened THEN open \cup {n} ELSE open
    BY <1>2 DEF Opening
<1>4. Changing(t, more, f) = IF f \in t[n].opened \cup t[n].closed THEN change \cup {n} ELSE change
    BY <1>2 DEF Changing
<1>5. Sighting(t, more, f) = IF f \in DOMAIN t[n].seen THEN sight \cup {n} ELSE sight
    BY <1>2 DEF Sighting
<1>6. open \subseteq change /\ change \subseteq told /\ sight \subseteq told
    BY DEF Opening, Changing, Sighting
<1>7. /\ \A i, j \in told : Older(t, i, j) <=> Older(scans, i, j)
      /\ \A i \in told : Older(t, i, n) /\ ~ Older(t, n, i) /\ ~ Older(scans, i, i)
      /\ \A i, j \in told : ~ (Older(scans, i, j) /\ Older(scans, j, i))
    BY OneMore
<1>8. ASSUME NEW o \in told
      PROVE IF f \in t[n].closed \ t[n].opened /\ NothingSince(scans, told, f, o)
            THEN Closing(t, more, f, o) = Closing(scans, told, f, o) \cup {n}
            ELSE Closing(t, more, f, o) = Closing(scans, told, f, o)
    BY ClosesToo
<1>9. ASSUME NEW o \in told, Closing(t, more, f, o) = Closing(scans, told, f, o)
      PROVE Interval(t, more, f, o) = Interval(scans, told, f, o)
    <2>1. \A c \in Closing(scans, told, f, o) : t[c] = scans[c]
        BY DEF Closing, Changing
    <2>2. t[o] = scans[o]
        OBVIOUS
    <2>3. CASE Closing(scans, told, f, o) = {}
        BY <1>9, <2>2, <2>3 DEF Interval
    <2>4. CASE Closing(scans, told, f, o) # {}
        <3> DEFINE c == CHOOSE i \in Closing(scans, told, f, o) : TRUE
        <3>1. c \in Closing(scans, told, f, o)
            BY <2>4
        <3>2. Interval(scans, told, f, o) = <<scans[o].at, scans[c].at>>
            BY <2>4 DEF Interval
        <3>3. Interval(t, more, f, o) = <<t[o].at, t[c].at>>
            BY <1>9, <2>4 DEF Interval
        <3> HIDE DEF c
        <3> QED
            BY <2>1, <2>2, <3>1, <3>2, <3>3
    <2> QED
        BY <2>3, <2>4
<1>10. ASSUME NEW set, NEW o, Newest(scans, set, o), set \subseteq told PROVE Newest(t, set, o)
    BY <1>7, <1>10 DEF Newest
<1>11. ASSUME NEW set, set \subseteq told PROVE Newest(t, set \cup {n}, n)
    BY <1>7, <1>11 DEF Newest
<1>12. CASE f \in New(a, report)
    <2>1. f \in t[n].opened /\ f \in DOMAIN t[n].seen /\ f \notin t[n].closed
        BY <1>12 DEF New, Gone
    <2>2. new = [level |-> report.seen[f], first |-> t[n].at, resolved |-> 0, firstScan |-> n, lastScan |-> n]
        BY <1>12 DEF Recorded, New, Gone
    <2>3. new # NoRow
        <3>1. "first" \in DOMAIN new /\ "first" \notin DOMAIN NoRow
            BY <2>2 DEF NoRow
        <3> QED
            BY <3>1
    <2>4. /\ Opening(t, more, f) = open \cup {n} /\ Changing(t, more, f) = change \cup {n}
          /\ Sighting(t, more, f) = sight \cup {n}
        BY <1>3, <1>4, <1>5, <2>1
    <2>5. \A k \in Changing(t, more, f) \ {n} : Older(t, k, n)
        BY <1>6, <1>7, <2>4
    <2>6. Newest(t, Opening(t, more, f), n) /\ Newest(t, Sighting(t, more, f), n)
        BY <1>6, <1>11, <2>4
    <2>7. \A i \in open : Interval(t, more, f, i) = Interval(scans, told, f, i)
        BY <1>6, <1>8, <1>9, <2>1
    <2>8. Archived(a, f, report) = {Interval(scans, told, f, i) : i \in open}
        <3>1. CASE row = NoRow
            <4>1. Archived(a, f, report) = ended
                BY <3>1 DEF Archived
            <4>2. ended = {} /\ change = {}
                BY <3>1 DEF RowFits
            <4> QED
                BY <1>6, <4>1, <4>2
        <3>2. CASE row # NoRow
            <4>1. row.resolved # 0
                BY <1>12, <3>2 DEF New, IsOpen
            <4>2. PICK o \in told :
                    /\ Newest(scans, open, o)
                    /\ row.first = scans[o].at
                    /\ ended = {Interval(scans, told, f, i) : i \in open \ {o}}
                    /\ Closing(scans, told, f, o) = {row.lastScan} /\ row.resolved = scans[row.lastScan].at
                BY <3>2, <4>1 DEF RowFits, Fits
            <4>3. Interval(scans, told, f, o) = <<row.first, row.resolved>>
                BY <4>2 DEF Interval
            <4>4. o \in open
                BY <4>2 DEF Newest
            <4>5. Archived(a, f, report) = ended \cup {<<row.first, row.resolved>>}
                BY <1>12, <3>2 DEF Archived
            <4> HIDE DEF open, ended, row
            <4> QED
                BY <4>2, <4>3, <4>4, <4>5
        <3> QED
            BY <3>1, <3>2
    <2>9. Archived(a, f, report) = {Interval(t, more, f, i) : i \in Opening(t, more, f) \ {n}}
        <3>1. Opening(t, more, f) \ {n} = open
            BY <1>2, <1>6, <2>4
        <3> HIDE DEF open
        <3> QED
            BY <2>7, <2>8, <3>1
    <2>10. new.first = t[n].at /\ new.firstScan = n /\ new.level = t[n].seen[f] /\ new.resolved = 0 /\ new.lastScan = n
        BY <2>2
    <2> HIDE DEF new, more, open, change, sight
    <2>11. Fits(t, more, f, new, Archived(a, f, report), n, n)
        BY <2>5, <2>6, <2>9, <2>10 DEF Fits
    <2> QED
        BY <1>2, <2>3, <2>11 DEF RowFits, more, new
<1>13. CASE f \notin New(a, report)
    <2>1. f \notin t[n].opened /\ Archived(a, f, report) = ended
        BY <1>13 DEF Archived
    <2>2. Opening(t, more, f) = open
        BY <1>3, <2>1
    <2>3. ASSUME NEW o \in told, NEW g, NEW set,
                 set = {Interval(scans, told, f, i) : i \in open \ {o}},
                 \A i \in open \ {o} : Closing(t, more, f, i) = Closing(scans, told, f, i)
          PROVE set = {Interval(t, more, f, i) : i \in Opening(t, more, f) \ {o}}
        <3>1. \A i \in open \ {o} : Interval(t, more, f, i) = Interval(scans, told, f, i)
            BY <1>6, <1>9, <2>3
        <3> HIDE DEF open, more
        <3> QED
            BY <2>2, <2>3, <3>1
    <2>4. CASE row = NoRow
        <3>1. new = row /\ f \notin t[n].closed
            BY <1>13, <2>4 DEF Recorded, Gone, IsOpen, New
        <3>2. change = {} /\ ended = {}
            BY <2>4 DEF RowFits
        <3>3. Changing(t, more, f) = {}
            BY <1>4, <2>1, <3>1, <3>2
        <3> QED
            BY <2>1, <2>4, <3>1, <3>2, <3>3 DEF RowFits
    <2>5. CASE row # NoRow
        <3>1. row \in RowRecords
            BY <1>1, <2>5
        <3>0. PICK o \in told, g \in told : Fits(scans, told, f, row, ended, o, g)
            BY <2>5 DEF RowFits
        <3>2. /\ Newest(scans, open, o) /\ Newest(scans, sight, g)
              /\ row.first = scans[o].at /\ row.firstScan = o /\ row.level = scans[g].seen[f]
              /\ ended = {Interval(scans, told, f, i) : i \in open \ {o}}
              /\ IF row.resolved = 0
                 THEN row.lastScan = g /\ \A k \in change \ {o} : Older(scans, k, o)
                 ELSE Closing(scans, told, f, o) = {row.lastScan} /\ row.resolved = scans[row.lastScan].at
            BY <3>0 DEF Fits
        <3>3. o \in open /\ o \in change /\ \A i \in open \ {o} : Older(scans, i, o)
            BY <1>6, <3>2 DEF Newest
        <3>4. Newest(t, Opening(t, more, f), o)
            BY <1>6, <1>10, <2>2, <3>2
        <3>5. t[o] = scans[o] /\ t[g] = scans[g]
            OBVIOUS
        <3>6. CASE f \in DOMAIN report.seen
            <4>1. new = [row EXCEPT !.level = report.seen[f], !.lastScan = n]
                BY <1>13, <3>6 DEF Recorded, New, Gone
            <4>2. f \notin t[n].closed /\ row.resolved = 0
                BY <1>13, <2>5, <3>6 DEF Gone, New, IsOpen
            <4>3. Changing(t, more, f) = change /\ Sighting(t, more, f) = sight \cup {n}
                BY <1>4, <1>5, <2>1, <3>6, <4>2
            <4>4. Newest(t, Sighting(t, more, f), n)
                BY <1>6, <1>11, <4>3
            <4>5. \A k \in Changing(t, more, f) \ {o} : Older(t, k, o)
                BY <1>6, <1>7, <3>2, <4>2, <4>3
            <4>6. \A i \in open : Closing(t, more, f, i) = Closing(scans, told, f, i)
                BY <1>6, <1>8, <4>2
            <4>7. ended = {Interval(t, more, f, i) : i \in Opening(t, more, f) \ {o}}
                BY <2>3, <3>2, <4>6
            <4>8. /\ new.first = t[o].at /\ new.firstScan = o /\ new.level = t[n].seen[f]
                  /\ new.resolved = 0 /\ new.lastScan = n
                BY <3>1, <3>2, <3>5, <4>1, <4>2 DEF RowRecords
            <4>9. new # NoRow
                BY <3>1, <4>1 DEF RowRecords, NoRow
            <4> HIDE DEF new, more, open, change, sight, ended, row
            <4>10. Fits(t, more, f, new, Archived(a, f, report), o, n)
                BY <2>1, <3>4, <4>4, <4>5, <4>7, <4>8 DEF Fits
            <4> QED
                BY <1>2, <4>9, <4>10 DEF RowFits, more, new
        <3>7. CASE f \in Gone(a, report)
            <4>1. f \notin DOMAIN report.seen /\ f \in t[n].closed /\ row.resolved = 0
                BY <3>7 DEF Gone, IsOpen
            <4>2. new = [row EXCEPT !.resolved = t[n].at, !.lastScan = n]
                BY <1>13, <3>7, <4>1 DEF Recorded
            <4>3. Changing(t, more, f) = change \cup {n} /\ Sighting(t, more, f) = sight
                BY <1>4, <1>5, <4>1
            <4>4. Newest(t, Sighting(t, more, f), g)
                BY <1>6, <1>10, <3>2, <4>3
            <4>5. \A k \in change : ~ Older(scans, o, k)
                BY <1>6, <1>7, <3>2, <4>1
            <4>6. Closing(scans, told, f, o) = {}
                BY <4>5 DEF Closing
            <4>7. Closing(t, more, f, o) = {n}
                BY <1>8, <2>1, <4>1, <4>5, <4>6 DEF NothingSince
            <4>8. \A i \in open \ {o} : Closing(t, more, f, i) = Closing(scans, told, f, i)
                BY <1>6, <1>8, <3>3 DEF NothingSince
            <4>9. ended = {Interval(t, more, f, i) : i \in Opening(t, more, f) \ {o}}
                BY <2>3, <3>2, <4>8
            <4>10. /\ new.first = t[o].at /\ new.firstScan = o /\ new.level = t[g].seen[f]
                   /\ new.resolved = t[n].at /\ new.lastScan = n
                BY <3>1, <3>2, <3>5, <4>2 DEF RowRecords
            <4>11. new # NoRow
                BY <3>1, <4>2 DEF RowRecords, NoRow
            <4>12. t[n].at # 0
                BY <1>2
            <4> HIDE DEF new, more, open, change, sight, ended, row
            <4>13. Fits(t, more, f, new, Archived(a, f, report), o, g)
                BY <2>1, <3>4, <4>4, <4>7, <4>9, <4>10, <4>12 DEF Fits
            <4> QED
                BY <1>2, <4>11, <4>13 DEF RowFits, more, new
        <3>8. CASE f \notin DOMAIN report.seen /\ f \notin Gone(a, report)
            <4>1. new = row /\ f \notin t[n].closed /\ f \notin DOMAIN t[n].seen
                BY <1>13, <3>8 DEF Recorded
            <4>2. Changing(t, more, f) = change /\ Sighting(t, more, f) = sight
                BY <1>4, <1>5, <2>1, <4>1
            <4>3. Newest(t, Sighting(t, more, f), g)
                BY <1>6, <1>10, <3>2, <4>2
            <4>4. \A i \in told : Closing(t, more, f, i) = Closing(scans, told, f, i)
                BY <1>8, <4>1
            <4>5. ended = {Interval(t, more, f, i) : i \in Opening(t, more, f) \ {o}}
                BY <1>6, <2>3, <3>2, <4>4
            <4>6. row.resolved = 0 => \A k \in Changing(t, more, f) \ {o} : Older(t, k, o)
                BY <1>6, <1>7, <3>2, <4>2
            <4>7. row.resolved # 0 => t[row.lastScan] = scans[row.lastScan]
                <5>1. Closing(scans, told, f, o) \subseteq told
                    BY DEF Closing, Changing
                <5> QED
                    BY <3>2, <5>1
            <4> HIDE DEF new, more, open, change, sight, ended, row
            <4>8. Fits(t, more, f, new, Archived(a, f, report), o, g)
                BY <2>1, <3>2, <3>4, <3>5, <4>1, <4>3, <4>4, <4>5, <4>6, <4>7 DEF Fits
            <4> QED
                BY <1>2, <2>5, <4>1, <4>8 DEF RowFits, more, new
        <3> QED
            BY <3>6, <3>7, <3>8
    <2> QED
        BY <2>4, <2>5
<1> QED
    BY <1>12, <1>13

\* Scans of other assets add nothing.
LEMMA RowFitsSame ==
    ASSUME NEW s, NEW t, NEW told, NEW f, NEW row, NEW ended, \A i \in told : t[i] = s[i],
           RowFits(s, told, f, row, ended)
    PROVE RowFits(t, told, f, row, ended)
<1>1. \A i, j \in told : Older(t, i, j) <=> Older(s, i, j)
    BY DEF Older
<1>2. /\ Opening(t, told, f) = Opening(s, told, f)
      /\ Changing(t, told, f) = Changing(s, told, f)
      /\ Sighting(t, told, f) = Sighting(s, told, f)
    BY DEF Opening, Changing, Sighting
<1>3. Opening(s, told, f) \subseteq told /\ Changing(s, told, f) \subseteq told /\ Sighting(s, told, f) \subseteq told
    BY DEF Opening, Changing, Sighting
<1>4. ASSUME NEW o \in told PROVE Closing(t, told, f, o) = Closing(s, told, f, o)
    BY <1>1, <1>2, <1>3 DEF Closing
<1>5. ASSUME NEW o \in told PROVE Closing(s, told, f, o) \subseteq told
    BY <1>3 DEF Closing
<1>6. ASSUME NEW o \in told PROVE Interval(t, told, f, o) = Interval(s, told, f, o)
    <2> DEFINE c == CHOOSE i \in Closing(s, told, f, o) : TRUE
    <2>1. CASE Closing(s, told, f, o) = {}
        BY <1>4, <2>1 DEF Interval
    <2>2. CASE Closing(s, told, f, o) # {}
        <3>1. c \in told
            BY <1>5, <2>2
        <3>2. Interval(s, told, f, o) = <<s[o].at, s[c].at>>
            BY <2>2 DEF Interval
        <3>3. Interval(t, told, f, o) = <<t[o].at, t[c].at>>
            BY <1>4, <2>2 DEF Interval
        <3> HIDE DEF c
        <3> QED
            BY <3>1, <3>2, <3>3
    <2> QED
        BY <2>1, <2>2
<1>7. CASE row = NoRow
    BY <1>2, <1>7 DEF RowFits
<1>8. CASE row # NoRow
    <2>1. PICK o \in told, g \in told : Fits(s, told, f, row, ended, o, g)
        BY <1>8 DEF RowFits
    <2>2. Newest(t, Opening(t, told, f), o) /\ Newest(t, Sighting(t, told, f), g)
        BY <1>1, <1>2, <1>3, <2>1 DEF Fits, Newest
    <2>3. ended = {Interval(t, told, f, i) : i \in Opening(t, told, f) \ {o}}
        <3>1. ended = {Interval(s, told, f, i) : i \in Opening(s, told, f) \ {o}}
            BY <2>1 DEF Fits
        <3> QED
            BY <1>2, <1>3, <1>6, <3>1
    <2>4. row.first = t[o].at /\ row.firstScan = o /\ row.level = t[g].seen[f]
        BY <2>1 DEF Fits
    <2>5. IF row.resolved = 0
          THEN row.lastScan = g /\ \A k \in Changing(t, told, f) \ {o} : Older(t, k, o)
          ELSE Closing(t, told, f, o) = {row.lastScan} /\ row.resolved = t[row.lastScan].at
        BY <1>1, <1>2, <1>3, <1>4, <1>5, <2>1 DEF Fits
    <2>6. Fits(t, told, f, row, ended, o, g)
        BY <2>2, <2>3, <2>4, <2>5 DEF Fits
    <2> QED
        BY <1>8, <2>6 DEF RowFits
<1> QED
    BY <1>7, <1>8

\* The rows say what the scans say, after every scan that is recorded.
LEMMA RowsFitStep ==
    ASSUME IInv, ClaimsApart, InOrder, RowsFit(Tables), [Next]_vars
    PROVE RowsFit(Tables)'
<1>1. TypeOK /\ AtAnAsset
    BY DEF IInv
<1>2. CASE UNCHANGED <<rows, past, scans, ledger>>
    BY <1>2 DEF Tables
<1>3. ASSUME NEW w \in Workers, Commit(w), Records(w), NEW a \in Assets, NEW f \in Findings
      PROVE RowFits(scans', ScansOf(scans', a), f, rows'[a][f], past'[a][f])
    <2> DEFINE c == Current(w)
               report == worker[w].report
               n == Len(scans) + 1
               told == ScansOf(scans, a)
    <2>1. /\ c \in Assets /\ worker[w].at \in Nat /\ worker[w].at > 0 /\ n \in Nat
          /\ At(w, "commit") /\ report \in Reports
        BY <1>1, <1>3, CurrentIs DEF TypeOK, WorkerRecords, AtAnAsset, Commit, At
    <2>2. /\ DOMAIN scans = 1 .. Len(scans) /\ DOMAIN scans' = DOMAIN scans \cup {n} /\ n \notin DOMAIN scans
          /\ \A i \in DOMAIN scans : scans'[i] = scans[i]
          /\ scans'[n] = Scan(w)
        BY <1>1, <1>3 DEF Records, TypeOK
    <2>3. /\ Scan(w).asset = c /\ Scan(w).at = worker[w].at /\ Scan(w).seen = report.seen
          /\ Scan(w).opened = New(c, report) /\ Scan(w).closed = Gone(c, report)
        BY DEF Scan
    <2>4. RowFits(scans, told, f, rows[a][f], past[a][f])
        BY DEF RowsFit, Tables
    <2>5. told \subseteq DOMAIN scans
        BY DEF ScansOf
    <2>6. CASE a # c
        <3>1. rows'[a][f] = rows[a][f] /\ past'[a][f] = past[a][f]
            BY <1>1, <1>3, <2>1, <2>6 DEF Records, TypeOK, RowTables, PastTables
        <3> HIDE DEF n, c, report
        <3>2. ScansOf(scans', a) = told
            BY <2>2, <2>3, <2>6 DEF ScansOf
        <3>3. \A i \in told : scans'[i] = scans[i]
            BY <2>2, <2>5
        <3> HIDE DEF told
        <3>4. RowFits(scans', told, f, rows[a][f], past[a][f])
            BY <2>4, <3>3, RowFitsSame
        <3> QED
            BY <3>1, <3>2, <3>4
    <2>7. CASE a = c
        <3>1. /\ rows'[a][f] = Recorded(a, f, report, n, worker[w].at)
              /\ past'[a][f] = Archived(a, f, report)
            BY <1>1, <1>3, <2>1, <2>7 DEF Records, TypeOK, RowTables, PastTables
        <3>2. \A i \in DOMAIN scans : scans[i] \in ScanRecords
            BY <1>1 DEF TypeOK
        <3>3. \A i \in told : scans[i].at \in Nat /\ scans[i].at < worker[w].at
            BY <2>1, <2>7, <3>2 DEF InOrder, At, ScansOf, ScanRecords
        <3> HIDE DEF n, c, report
        <3>4. ScansOf(scans', a) = told \cup {n}
            BY <2>2, <2>3, <2>7 DEF ScansOf
        <3>5. Adds(scans', told, n)
            BY <2>1, <2>2, <2>3, <2>5, <3>3 DEF Adds
        <3>6. \A i \in told : scans'[i] = scans[i]
            BY <2>2, <2>5
        <3>7. /\ scans'[n].at = worker[w].at /\ scans'[n].seen = report.seen
              /\ scans'[n].opened = New(a, report) /\ scans'[n].closed = Gone(a, report)
            BY <2>2, <2>3, <2>7
        <3> HIDE DEF told
        <3>8. RowFits(scans', told \cup {n}, f, Recorded(a, f, report, n, scans'[n].at), Archived(a, f, report))
            BY <1>1, <2>1, <2>4, <3>5, <3>6, <3>7, RowFitsAfter
        <3> QED
            BY <3>1, <3>4, <3>7, <3>8
    <2> QED
        BY <2>6, <2>7
<1>4. ASSUME NEW w \in Workers, Commit(w), Records(w) PROVE RowsFit(Tables)'
    BY <1>3, <1>4 DEF RowsFit, Tables
<1> QED
    BY <1>2, <1>4, TablesWriters, CommitWrites

\* The section of a bundle is a snapshot of the tables.
LEMMA StoryStep ==
    ASSUME IInv, ClaimsApart, InOrder, StoryInv, [Next]_vars
    PROVE StoryInv'
<1>1. RowsFit(Tables)'
    BY RowsFitStep DEF StoryInv
<1>2. export \in Exports
    BY DEF IInv, TypeOK
<1>3. CASE export' = export
    BY <1>1, <1>3 DEF StoryInv
<1>4. CASE export' = NoExport
    BY <1>1, <1>4 DEF StoryInv, NoExport
<1>5. CASE ReadAudit /\ Sections[export.read + 1] = "audit" /\ export.read < Len(Sections)
    <2>1. export.read = 0
        BY <1>2, <1>5 DEF Sections, Exports
    <2>2. export'.read = 1
        BY <1>2, <1>5, <2>1 DEF ReadAudit, Exports
    <2> QED
        BY <1>1, <2>2 DEF StoryInv
<1>6. CASE ReadSurface
    <2>1. export'.surface = Tables
        BY <1>2, <1>6 DEF ReadSurface, Tables, Exports
    <2> QED
        BY <1>1, <2>1, <1>6 DEF StoryInv
<1> QED
    BY <1>3, <1>4, <1>5, <1>6 DEF Next, Work, vars, Declare, SetAuthorised, RemoveAsset, Request, Pass, Restart,
        Export, ClaimNext, ReadAsset, Probe, LockAsset, Commit, Release

\* What fits passes the comparison of the verifier.
LEMMA FitsMatches ==
    ASSUME NEW s \in Seq(ScanRecords), NEW told \in SUBSET DOMAIN s, NEW f, NEW row, NEW ended,
           row # NoRow, RowFits(s, told, f, row, ended)
    PROVE Matches(s, told, f, row, ended)
<1> DEFINE open == Opening(s, told, f)
           change == Changing(s, told, f)
<1>1. PICK o \in told, g \in told : Fits(s, told, f, row, ended, o, g)
    BY DEF RowFits
<1>2. \A i \in told : i \in Nat /\ s[i] \in ScanRecords
    OBVIOUS
<1>3. ASSUME NEW i \in told, NEW j \in told PROVE ~ (Older(s, i, j) /\ Older(s, j, i))
    <2>1. i \in Nat /\ j \in Nat /\ s[i].at \in Nat /\ s[j].at \in Nat
        BY <1>2 DEF ScanRecords
    <2> QED
        BY <2>1 DEF Older
<1>4. o \in open /\ open \subseteq change /\ change \subseteq told
    BY <1>1 DEF Fits, Newest, Opening, Changing
<1>5. /\ Newest(s, open, o) /\ Newest(s, Sighting(s, told, f), g)
      /\ row.first = s[o].at /\ row.firstScan = o /\ row.level = s[g].seen[f]
      /\ ended = {Interval(s, told, f, i) : i \in open \ {o}}
      /\ IF row.resolved = 0
         THEN row.lastScan = g /\ \A k \in change \ {o} : Older(s, k, o)
         ELSE Closing(s, told, f, o) = {row.lastScan} /\ row.resolved = s[row.lastScan].at
    BY <1>1 DEF Fits
<1>6. IF row.resolved = 0 THEN Closing(s, told, f, o) = {} ELSE Closing(s, told, f, o) = {row.lastScan}
    <2>1. ASSUME row.resolved = 0, NEW c \in Closing(s, told, f, o) PROVE FALSE
        <3>1. c \in change /\ Older(s, o, c)
            BY DEF Closing
        <3>2. c \in told /\ o \in told
            BY <1>4, <3>1
        <3>3. CASE c = o
            BY <1>3, <3>1, <3>2, <3>3
        <3>4. CASE c # o
            BY <1>3, <1>5, <2>1, <3>1, <3>2, <3>4
        <3> QED
            BY <3>3, <3>4
    <2> QED
        BY <1>5, <2>1
<1>7. Interval(s, told, f, o) = <<row.first, row.resolved>>
    <2>1. CASE row.resolved = 0
        BY <1>5, <1>6, <2>1 DEF Interval
    <2>2. CASE row.resolved # 0
        <3>1. (CHOOSE c \in Closing(s, told, f, o) : TRUE) = row.lastScan
            BY <1>6, <2>2
        <3>2. Interval(s, told, f, o) = <<s[o].at, s[row.lastScan].at>>
            BY <1>6, <2>2, <3>1 DEF Interval
        <3> QED
            BY <1>5, <2>2, <3>2
    <2> QED
        BY <2>1, <2>2
<1>8. ended \cup {<<row.first, row.resolved>>} = {Interval(s, told, f, i) : i \in open}
    <2> HIDE DEF open
    <2> QED
        BY <1>4, <1>5, <1>7
<1>9. IF Closing(s, told, f, o) = {} THEN row.lastScan = g ELSE row.lastScan \in Closing(s, told, f, o)
    BY <1>5, <1>6
<1> QED
    BY <1>5, <1>8, <1>9 DEF Matches

\* In every bundle, every finding is what the scans say of it.
LEMMA FindingsMatch ==
    ASSUME IInv, LedgerNamesScans, BundleIsOfTheLedger, StoryInv
    PROVE ExportVerifies
<1> SUFFICES ASSUME export.read = Len(Sections) PROVE Verifies(export)
    BY DEF ExportVerifies
<1> DEFINE s == export.surface.scans
<1>1. export.read = 2 /\ RowsFit(export.surface)
    BY DEF Sections, StoryInv
<1>2. s \in Seq(ScanRecords)
    <2>1. PICK from \in Nat \ {0} : BundleFrom(from, export, scans)
        BY <1>1 DEF BundleIsOfTheLedger
    <2> QED
        BY <1>1, <2>1 DEF BundleFrom, SurfaceSections
<1>3. ASSUME NEW a \in Assets, NEW f \in Findings
      PROVE LET row == export.surface.rows[a][f] IN
            IF row = NoRow THEN Changing(s, Told(export, a), f) = {}
            ELSE Vouched(export, a) => Matches(s, Told(export, a), f, row, export.surface.past[a][f])
    <2> DEFINE row == export.surface.rows[a][f]
               ended == export.surface.past[a][f]
    <2>1. RowFits(s, ScansOf(s, a), f, row, ended)
        BY <1>1 DEF RowsFit
    <2>2. Told(export, a) \subseteq ScansOf(s, a) /\ ScansOf(s, a) \subseteq DOMAIN s
        BY DEF Told, Attested, ScansOf
    <2>3. CASE row = NoRow
        <3>1. Changing(s, ScansOf(s, a), f) = {}
            BY <2>1, <2>3 DEF RowFits
        <3>2. Changing(s, Told(export, a), f) = {}
            BY <2>2, <3>1 DEF Changing
        <3> QED
            BY <2>3, <3>2
    <2>4. CASE row # NoRow /\ Vouched(export, a)
        <3>1. Told(export, a) = ScansOf(s, a)
            BY <2>4 DEF Vouched, Told, Attested, ScansOf
        <3>2. Matches(s, ScansOf(s, a), f, row, ended)
            BY <1>2, <2>1, <2>2, <2>4, FitsMatches
        <3> QED
            BY <2>4, <3>1, <3>2
    <2> QED
        BY <2>3, <2>4
<1> QED
    BY <1>3, BundleHolds DEF Verifies

\* ExportEvidence and verifySurface: in every bundle, wherever its audit range begins
\* and whatever is scanned while it is put together, no entry's scan is missing or
\* differs, and every finding is what the attested scans say of it.
THEOREM EvidenceVerifies == Spec => []ExportVerifies
<1>1. Init => LedgerNamesScans /\ BundleIsOfTheLedger
    BY DEF Init, LedgerNamesScans, BundleIsOfTheLedger, NoExport
<1>2. Init => ClaimsApart /\ InOrder
    BY DEF Init, ClaimsApart, InOrder, Idle
<1>3. Init => StoryInv
    <2> SUFFICES ASSUME Init PROVE StoryInv
        OBVIOUS
    <2>1. \A a \in Assets, f \in Findings : RowFits(scans, ScansOf(scans, a), f, rows[a][f], past[a][f])
        BY DEF Init, RowFits, ScansOf, Changing
    <2>2. export.read # 2
        BY DEF Init, NoExport
    <2> QED
        BY <2>1, <2>2 DEF StoryInv, RowsFit, Tables
<1> QED
    BY <1>1, <1>2, <1>3, LedgerStep, BundleStep, ClaimsApartStep, InOrderStep, StoryStep, FindingsMatch, Invariance,
       PTL DEF Spec

-----------------------------------------------------------------------------
(***************************************************************************)
(* The checks of one scan.  ...Same: what a check says of a world when the *)
(* questions s go unanswered is what it says when none does, given that    *)
(* the questions its conclusion rests on are not among s.                  *)
(***************************************************************************)

\* Each part behaves beside the other as it does alone.
THEOREM SideBySide == SurfaceSpec => Spec
<1>1. SurfaceInit => Init
    BY DEF SurfaceInit
<1>2. [SurfaceNext]_all => [Next]_vars
    BY DEF SurfaceNext, all
<1> QED
    BY <1>1, <1>2, PTL DEF SurfaceSpec, Spec

\* No question of the walk about a domain, an address or a mail host goes unanswered
\* where it matters.
Quiet(w, s) ==
    /\ \A n \in w.addressless : <<"A", n>> \notin s
    /\ \A n \in w.mxless : <<"MX", n>> \notin s
    /\ \A n \in DOMAIN w.spf : <<"TXT", n>> \notin s

LEMMA PlainSame ==
    ASSUME NEW w, NEW s, Quiet(w, s), NEW d, NEW t, NEW st
    PROVE One!PlainTerm(w, s, d, t, st) = One!PlainTerm(w, {}, d, t, st)
<1>1. ASSUME NEW n PROVE One!Resolved(st, One!Addrs(w, s, n)) = One!Resolved(st, One!Addrs(w, {}, n))
    BY DEF Quiet, One!Resolved, One!Addrs, One!Lookup
<1>2. ASSUME NEW n
      PROVE One!Resolved(st, One!Lookup(w, s, <<"MX", n>>, n \notin w.mxless))
              = One!Resolved(st, One!Lookup(w, {}, <<"MX", n>>, n \notin w.mxless))
    BY DEF Quiet, One!Resolved, One!Lookup
<1>3. ASSUME NEW n
      PROVE One!Resolved(st, One!Lookup(w, s, <<"A", n>>, n \notin w.addressless))
              = One!Resolved(st, One!Lookup(w, {}, <<"A", n>>, n \notin w.addressless))
    BY DEF Quiet, One!Resolved, One!Lookup
<1> QED
    BY <1>1, <1>2, <1>3 DEF One!PlainTerm

LEMMA TermsSame ==
    ASSUME NEW w, NEW s, Quiet(w, s), NEW walk, NEW v, NEW terms
    PROVE One!SpfTerms(w, s, walk, v, terms) = One!SpfTerms(w, {}, walk, v, terms)
<1>1. ASSUME NEW st, NEW t PROVE One!SpfTerm(w, s, walk, v, st, t) = One!SpfTerm(w, {}, walk, v, st, t)
    BY PlainSame DEF One!SpfTerm
<1>2. ASSUME NEW start, NEW after
      PROVE [n \in 0..Len(terms) |-> IF n = 0 THEN start ELSE One!SpfTerm(w, s, walk, v, after[n - 1], terms[n])]
            = [n \in 0..Len(terms) |-> IF n = 0 THEN start ELSE One!SpfTerm(w, {}, walk, v, after[n - 1], terms[n])]
    BY <1>1
<1> DEFINE first == IF \E i \in DOMAIN terms : terms[i].bad
                    THEN One!Problem(v.st, "spf.syntax", v.domain) ELSE v.st
<1> HIDE DEF first
<1>3. ASSUME NEW after
      PROVE [n \in 0..Len(terms) |-> IF n = 0 THEN first ELSE One!SpfTerm(w, s, walk, v, after[n - 1], terms[n])]
            = [n \in 0..Len(terms) |-> IF n = 0 THEN first ELSE One!SpfTerm(w, {}, walk, v, after[n - 1], terms[n])]
    BY <1>2
<1>4. (CHOOSE after : after = [n \in 0..Len(terms) |-> IF n = 0 THEN first ELSE One!SpfTerm(w, s, walk, v, after[n - 1], terms[n])])
      = (CHOOSE after : after = [n \in 0..Len(terms) |-> IF n = 0 THEN first ELSE One!SpfTerm(w, {}, walk, v, after[n - 1], terms[n])])
    BY <1>3
<1> QED
    BY <1>4 DEF One!SpfTerms, first

LEMMA VisitSame ==
    ASSUME NEW w, NEW s, Quiet(w, s), NEW walk, NEW v, <<"TXT", v.domain>> \notin s
    PROVE One!SpfVisit(w, s, walk, v) = One!SpfVisit(w, {}, walk, v)
<1>1. One!NoTxt(s, v.domain) = One!NoTxt({}, v.domain)
    BY DEF Quiet, One!NoTxt
<1>2. ASSUME NEW terms PROVE One!SpfRecord(w, s, walk, v, terms) = One!SpfRecord(w, {}, walk, v, terms)
    <2>1. One!SpfTerms(w, s, walk, v, terms) = One!SpfTerms(w, {}, walk, v, terms)
        BY TermsSame
    <2> QED
        BY <2>1 DEF One!SpfRecord
<1> QED
    BY <1>1, <1>2 DEF One!SpfVisit

\* SPF: what the walk finds depends on no question but those.
LEMMA WalkSame ==
    ASSUME NEW w, NEW s, Quiet(w, s)
    PROVE One!SpfWalk(w, s) = One!SpfWalk(w, {})
<1>1. ASSUME NEW walk, NEW v \in One!Visits(w)
      PROVE One!SpfVisit(w, s, walk, v) = One!SpfVisit(w, {}, walk, v)
    BY VisitSame DEF One!Visits, Quiet
<1>2. ASSUME NEW walk
      PROVE [v \in One!Visits(w) |-> One!SpfVisit(w, s, walk, v)]
            = [v \in One!Visits(w) |-> One!SpfVisit(w, {}, walk, v)]
    BY <1>1
<1> QED
    BY <1>2 DEF One!SpfWalk

-----------------------------------------------------------------------------
\* What the checks have learned once mx and dmarc are done.
Both(w, s) == One!DmarcLearns(w, s, One!MxLearns(w, s, One!Nothing))

LEMMA MxSame ==
    ASSUME NEW w, NEW s, NEW l, NEW m, One!MxCheck(w, s, l).assessed,
           \A h \in One!LookedAt(w) : <<"A", h>> \notin s /\ <<"CNAME", h>> \notin s
    PROVE One!MxCheck(w, s, l) = One!MxCheck(w, {}, m)
<1>1. <<"MX", "d">> \notin s
    BY DEF One!MxCheck, One!NotAssessed
<1>2. \A h \in One!LookedAt(w) :
        /\ One!Lookup(w, s, <<"CNAME", h>>, h \in w.aliases) = One!Lookup(w, {}, <<"CNAME", h>>, h \in w.aliases)
        /\ One!Addrs(w, s, h) = One!Addrs(w, {}, h)
    BY DEF One!Lookup, One!Addrs
<1>3. {h \in One!LookedAt(w) : One!Lookup(w, s, <<"CNAME", h>>, h \in w.aliases) = "ok"}
      = {h \in One!LookedAt(w) : One!Lookup(w, {}, <<"CNAME", h>>, h \in w.aliases) = "ok"}
    BY <1>2
<1>4. {h \in One!LookedAt(w) : One!Addrs(w, s, h) = "absent"} = {h \in One!LookedAt(w) : One!Addrs(w, {}, h) = "absent"}
    BY <1>2
<1> DEFINE aliased(t) == {h \in One!LookedAt(w) : One!Lookup(w, t, <<"CNAME", h>>, h \in w.aliases) = "ok"}
           bare(t) == {h \in One!LookedAt(w) : One!Addrs(w, t, h) = "absent"}
           said(A, B) == One!Assessed("mx",
               One!When(One!NullMx(w), {One!Found("mx.null", "d")})
               \cup One!When(w.mx = <<>>, {One!Found("mx.none", "d")})
               \cup {One!Found("mx.cname", h) : h \in A}
               \cup {One!Found("mx.no_address", h) : h \in B})
<1>5. One!MxCheck(w, s, l) = said(aliased(s), bare(s)) /\ One!MxCheck(w, {}, m) = said(aliased({}), bare({}))
    BY <1>1 DEF One!MxCheck
<1>6. aliased(s) = aliased({}) /\ bare(s) = bare({})
    BY <1>3, <1>4
<1> HIDE DEF aliased, bare, said
<1> QED
    BY <1>5, <1>6

LEMMA SourceSame ==
    ASSUME NEW w, NEW s, One!DmarcSource(w, s).read
    PROVE One!DmarcSource(w, s) = One!DmarcSource(w, {})
BY DEF One!DmarcSource, One!NoTxt

LEMMA DmarcSame ==
    ASSUME NEW w, NEW s, NEW l, NEW m, One!DmarcCheck(w, s, l).assessed
    PROVE One!DmarcCheck(w, s, l) = One!DmarcCheck(w, {}, m)
<1>1. One!DmarcSource(w, s).read
    BY DEF One!DmarcCheck, One!NotAssessed
<1>2. One!DmarcSource(w, s) = One!DmarcSource(w, {})
    BY <1>1, SourceSame
<1> QED
    BY <1>2 DEF One!DmarcCheck

\* What is known is known rightly.
LEMMA MxKnown ==
    ASSUME NEW w, NEW s, Both(w, s).mxKnown
    PROVE /\ <<"MX", "d">> \notin s
          /\ One!MxLearns(w, s, One!Nothing) = One!MxLearns(w, {}, One!Nothing)
          /\ Both(w, s).mxKnown = Both(w, {}).mxKnown
          /\ Both(w, s).mx = Both(w, {}).mx
          /\ Both(w, s).hasMail = Both(w, {}).hasMail
<1>1. <<"MX", "d">> \notin s
    BY DEF Both, One!MxLearns, One!DmarcLearns, One!Nothing
<1>2. One!MxLearns(w, s, One!Nothing) = One!MxLearns(w, {}, One!Nothing)
    BY <1>1 DEF One!MxLearns
<1>3. ASSUME NEW t, NEW l \in {One!MxLearns(w, {}, One!Nothing)}
      PROVE /\ One!DmarcLearns(w, t, l).mxKnown = l.mxKnown
            /\ One!DmarcLearns(w, t, l).mx = l.mx
            /\ One!DmarcLearns(w, t, l).hasMail = l.hasMail
    BY DEF One!DmarcLearns, One!MxLearns, One!Nothing
<1> QED
    BY <1>1, <1>2, <1>3 DEF Both

LEMMA BothKnown ==
    ASSUME NEW w, NEW s, Both(w, s).mxKnown, Both(w, s).dmarcKnown
    PROVE Both(w, s) = Both(w, {})
<1>1. One!MxLearns(w, s, One!Nothing) = One!MxLearns(w, {}, One!Nothing)
    BY MxKnown
<1>2. One!DmarcSource(w, s).read
    BY DEF Both, One!MxLearns, One!DmarcLearns, One!Nothing
<1>3. One!DmarcSource(w, s) = One!DmarcSource(w, {})
    BY <1>2, SourceSame
<1> QED
    BY <1>1, <1>3 DEF Both, One!DmarcLearns

LEMMA SpfSame ==
    ASSUME One!WellFormed, NEW w, NEW s, One!SpfCheck(w, s, Both(w, s)).assessed,
           Both(w, s).mxKnown, Both(w, s).dmarcKnown,
           \A n \in (DOMAIN w.spf \cup w.addressless \cup w.mxless) \ {"d"} :
              <<"TXT", n>> \notin s /\ <<"A", n>> \notin s /\ <<"MX", n>> \notin s,
           <<"A", "d">> \notin s
    PROVE One!SpfCheck(w, s, Both(w, s)) = One!SpfCheck(w, {}, Both(w, {}))
<1> DEFINE root == [domain |-> "d", path |-> {}, st |-> One!NoSpf]
<1>1. <<"TXT", "d">> \notin s
    <2> SUFFICES ASSUME <<"TXT", "d">> \in s PROVE FALSE
        OBVIOUS
    <2>1. ~(One!Cardinality({}) > DepthLimit)
        <3>1. One!Cardinality({}) = Cardinality({})
            BY DEF One!Cardinality, Cardinality
        <3> QED
            BY <3>1, FS_EmptySet DEF One!WellFormed
    <2>2. One!SpfVisit(w, s, One!SpfWalk(w, s), root).end = "failed"
        BY <2>1 DEF One!SpfVisit, One!NoTxt, One!Ended
    <2> QED
        BY <2>2 DEF One!SpfCheck, One!NotAssessed
<1>2. <<"MX", "d">> \notin s
    BY MxKnown
<1>3. Quiet(w, s)
    BY <1>1, <1>2 DEF Quiet
<1>4. One!SpfVisit(w, s, One!SpfWalk(w, s), root) = One!SpfVisit(w, {}, One!SpfWalk(w, {}), root)
    BY <1>1, <1>3, WalkSame, VisitSame
<1>5. Both(w, s) = Both(w, {})
    BY BothKnown
<1> QED
    BY <1>4, <1>5 DEF One!SpfCheck

LEMMA DkimSame ==
    ASSUME NEW w, NEW s, NEW l, NEW m, One!DkimCheck(w, s, l).assessed
    PROVE One!DkimCheck(w, s, l) = One!DkimCheck(w, {}, m)
<1>1. {x \in DOMAIN w.dkim : <<"TXT", x>> \in s} = {}
    BY DEF One!DkimCheck, One!NotAssessed
<1>2. {x \in DOMAIN w.dkim : <<"TXT", x>> \in {}} = {}
    OBVIOUS
<1> QED
    BY <1>1, <1>2 DEF One!DkimCheck

LEMMA MtaStsSame ==
    ASSUME NEW w, NEW s, One!MtaStsCheck(w, s, Both(w, s)).assessed,
           Both(w, s).mxKnown, <<"A", "mta-sts.d">> \notin s
    PROVE One!MtaStsCheck(w, s, Both(w, s)) = One!MtaStsCheck(w, {}, Both(w, {}))
<1>1. <<"TXT", "_mta-sts.d">> \notin s
    BY DEF One!MtaStsCheck, One!NotAssessed, One!NoTxt
<1>2. One!NoMail(Both(w, s)) = One!NoMail(Both(w, {})) /\ One!StsPolicy(w, Both(w, s)) = One!StsPolicy(w, Both(w, {}))
    BY MxKnown DEF One!NoMail, One!StsPolicy
<1>3. One!Addrs(w, s, "mta-sts.d") = One!Addrs(w, {}, "mta-sts.d")
    BY DEF One!Addrs, One!Lookup
<1>4. One!StsFetch(w, s) = "timeout" \/ One!StsFetch(w, s) = One!StsFetch(w, {})
    BY <1>3 DEF One!StsFetch
<1>5. One!StsFetch(w, {}) # "timeout"
    BY DEF One!StsFetch
<1> QED
    BY <1>1, <1>2, <1>4, <1>5 DEF One!MtaStsCheck, One!NotAssessed, One!NoTxt

LEMMA TlsRptSame ==
    ASSUME NEW w, NEW s, One!TlsRptCheck(w, s, Both(w, s)).assessed, Both(w, s).mxKnown
    PROVE One!TlsRptCheck(w, s, Both(w, s)) = One!TlsRptCheck(w, {}, Both(w, {}))
<1>1. One!NoMail(Both(w, s)) = One!NoMail(Both(w, {}))
    BY MxKnown DEF One!NoMail
<1> QED
    BY <1>1 DEF One!TlsRptCheck, One!NotAssessed, One!NoTxt

LEMMA DnssecSame ==
    ASSUME NEW w, NEW s, NEW l, NEW m, One!DnssecCheck(w, s, l).assessed, <<"SOA", "d">> \notin s
    PROVE One!DnssecCheck(w, s, l) = One!DnssecCheck(w, {}, m)
BY DEF One!DnssecCheck, One!NotAssessed

LEMMA CaaSame ==
    ASSUME NEW w, NEW s, NEW l, NEW m, One!CaaCheck(w, s, l).assessed
    PROVE One!CaaCheck(w, s, l) = One!CaaCheck(w, {}, m)
BY DEF One!CaaCheck, One!CaaAt, One!Lookup, One!NotAssessed

LEMMA CnameSame ==
    ASSUME NEW w, NEW s, NEW l, NEW m, One!CnameCheck(w, s, l).assessed
    PROVE One!CnameCheck(w, s, l) = One!CnameCheck(w, {}, m)
BY DEF One!CnameCheck, One!NotAssessed

LEMMA ConnectsSame ==
    ASSUME NEW w, NEW s, One!Connects(w, s)
    PROVE One!Connects(w, {})
BY DEF One!Connects, One!Addrs, One!Lookup

LEMMA TlsCertSame ==
    ASSUME NEW w, NEW s, NEW l, NEW m, One!TlsCertCheck(w, s, l).assessed
    PROVE One!TlsCertCheck(w, s, l) = One!TlsCertCheck(w, {}, m)
BY ConnectsSame DEF One!TlsCertCheck, One!NotAssessed

LEMMA TlsLegacySame ==
    ASSUME NEW w, NEW s, NEW l, NEW m, One!TlsLegacyCheck(w, s, l).assessed
    PROVE One!TlsLegacyCheck(w, s, l) = One!TlsLegacyCheck(w, {}, m)
<1>1. {v \in {"1.0", "1.1"} : <<"TLS", v>> \in s} = {} /\ One!Connects(w, s) /\ ~w.fips
    BY DEF One!TlsLegacyCheck, One!NotAssessed
<1>2. {v \in {"1.0", "1.1"} : <<"TLS", v>> \in {}} = {} /\ One!Connects(w, {})
    BY <1>1, ConnectsSame
<1> QED
    BY <1>1, <1>2 DEF One!TlsLegacyCheck

LEMMA PortsSame ==
    ASSUME NEW w, NEW s, NEW l, NEW m, \A p \in DOMAIN w.ports : <<"TCP", p>> \notin s
    PROVE One!PortsCheck(w, s, l) = One!PortsCheck(w, {}, m)
<1>1. \A p \in DOMAIN w.ports : One!PortState(w, s, p) = One!PortState(w, {}, p)
    BY DEF One!PortState
<1>2. {p \in DOMAIN w.ports : One!PortState(w, s, p) = "open"}
        = {p \in DOMAIN w.ports : One!PortState(w, {}, p) = "open"}
    BY <1>1
<1> QED
    BY <1>1, <1>2 DEF One!PortsCheck

-----------------------------------------------------------------------------
(* Any check, by its name.                                                 *)

CheckNames == {"mx", "dmarc", "spf", "dkim", "mta-sts", "tls-rpt", "dnssec", "caa", "cname",
               "tls-cert", "tls-legacy", "ports"}

\* The checks that hear of what others learned.
Hearing == {"spf", "mta-sts", "tls-rpt"}

\* Run calls the check that is meant.
LEMMA RunIs ==
    ASSUME NEW w, NEW s, NEW l
    PROVE /\ One!Run("mx", w, s, l) = One!MxCheck(w, s, l)
          /\ One!Run("dmarc", w, s, l) = One!DmarcCheck(w, s, l)
          /\ One!Run("spf", w, s, l) = One!SpfCheck(w, s, l)
          /\ One!Run("dkim", w, s, l) = One!DkimCheck(w, s, l)
          /\ One!Run("mta-sts", w, s, l) = One!MtaStsCheck(w, s, l)
          /\ One!Run("tls-rpt", w, s, l) = One!TlsRptCheck(w, s, l)
          /\ One!Run("dnssec", w, s, l) = One!DnssecCheck(w, s, l)
          /\ One!Run("caa", w, s, l) = One!CaaCheck(w, s, l)
          /\ One!Run("cname", w, s, l) = One!CnameCheck(w, s, l)
          /\ One!Run("tls-cert", w, s, l) = One!TlsCertCheck(w, s, l)
          /\ One!Run("tls-legacy", w, s, l) = One!TlsLegacyCheck(w, s, l)
          /\ One!Run("ports", w, s, l) = One!PortsCheck(w, s, l)
BY DEF One!Run

\* A result is that of the check that was run.
LEMMA RunNames ==
    ASSUME NEW c \in CheckNames, NEW w, NEW s, NEW l
    PROVE One!Run(c, w, s, l).check = c
<1> USE DEF One!Assessed, One!NotAssessed
<1>1. One!MxCheck(w, s, l).check = "mx" BY DEF One!MxCheck
<1>2. One!DmarcCheck(w, s, l).check = "dmarc" BY DEF One!DmarcCheck
<1>3. One!SpfCheck(w, s, l).check = "spf" BY DEF One!SpfCheck
<1>4. One!DkimCheck(w, s, l).check = "dkim" BY DEF One!DkimCheck
<1>5. One!MtaStsCheck(w, s, l).check = "mta-sts" BY DEF One!MtaStsCheck
<1>6. One!TlsRptCheck(w, s, l).check = "tls-rpt" BY DEF One!TlsRptCheck
<1>7. One!DnssecCheck(w, s, l).check = "dnssec" BY DEF One!DnssecCheck
<1>8. One!CaaCheck(w, s, l).check = "caa" BY DEF One!CaaCheck
<1>9. One!CnameCheck(w, s, l).check = "cname" BY DEF One!CnameCheck
<1>10. One!TlsCertCheck(w, s, l).check = "tls-cert" BY DEF One!TlsCertCheck
<1>11. One!TlsLegacyCheck(w, s, l).check = "tls-legacy" BY DEF One!TlsLegacyCheck
<1>12. One!PortsCheck(w, s, l).check = "ports" BY DEF One!PortsCheck
<1> QED
    BY <1>1, <1>2, <1>3, <1>4, <1>5, <1>6, <1>7, <1>8, <1>9, <1>10, <1>11, <1>12, RunIs DEF CheckNames

\* An assessed result of a check that presumes nothing is what it would be with every
\* question answered.
LEMMA RunSame ==
    ASSUME One!WellFormed, NEW c \in CheckNames, NEW l, One!Run(c, world, silent, l).assessed,
           c \in Hearing => l = Both(world, silent) /\ learned = l, ~One!Presumes(c)
    PROVE One!Run(c, world, silent, l) = One!AllAnswered(c)
<1> DEFINE full == Both(world, {})
<1>0. One!AllAnswered(c) = One!Run(c, world, {}, full)
    BY DEF One!AllAnswered, Both
<1> HIDE DEF full
<1>1. CASE c = "mx"
    <2>1. \A h \in One!LookedAt(world) : <<"A", h>> \notin silent /\ <<"CNAME", h>> \notin silent
        BY <1>1 DEF One!Presumes
    <2> QED
        BY <1>0, <1>1, <2>1, MxSame, RunIs
<1>2. CASE c = "dmarc"
    BY <1>0, <1>2, DmarcSame, RunIs
<1>3. CASE c = "spf"
    <2>1. l = Both(world, silent) /\ l.mxKnown /\ l.dmarcKnown
        BY <1>3 DEF One!Presumes, Hearing
    <2>2. silent \cap One!SpfAsks = {}
        BY <1>3 DEF One!Presumes
    <2>3. \A n \in (DOMAIN world.spf \cup world.addressless \cup world.mxless) \ {"d"} :
            <<"TXT", n>> \in One!SpfAsks /\ <<"A", n>> \in One!SpfAsks /\ <<"MX", n>> \in One!SpfAsks
        BY DEF One!SpfAsks
    <2>4. <<"A", "d">> \in One!SpfAsks
        BY DEF One!SpfAsks
    <2>5. /\ \A n \in (DOMAIN world.spf \cup world.addressless \cup world.mxless) \ {"d"} :
                <<"TXT", n>> \notin silent /\ <<"A", n>> \notin silent /\ <<"MX", n>> \notin silent
          /\ <<"A", "d">> \notin silent
        BY <2>2, <2>3, <2>4
    <2>6. One!SpfCheck(world, silent, Both(world, silent)).assessed
        BY <1>3, <2>1, RunIs
    <2>7. One!SpfCheck(world, silent, Both(world, silent)) = One!SpfCheck(world, {}, Both(world, {}))
        BY <2>1, <2>5, <2>6, SpfSame
    <2> QED
        BY <1>0, <1>3, <2>1, <2>7, RunIs DEF full
<1>4. CASE c = "dkim"
    BY <1>0, <1>4, DkimSame, RunIs
<1>5. CASE c = "mta-sts"
    <2>1. l = Both(world, silent) /\ l.mxKnown /\ <<"A", "mta-sts.d">> \notin silent
        BY <1>5 DEF One!Presumes, Hearing
    <2> QED
        BY <1>0, <1>5, <2>1, MtaStsSame, RunIs DEF full
<1>6. CASE c = "tls-rpt"
    <2>1. l = Both(world, silent) /\ l.mxKnown
        BY <1>6 DEF One!Presumes, Hearing
    <2> QED
        BY <1>0, <1>6, <2>1, TlsRptSame, RunIs DEF full
<1>7. CASE c = "dnssec"
    <2>1. <<"SOA", "d">> \notin silent
        BY <1>7 DEF One!Presumes
    <2> QED
        BY <1>0, <1>7, <2>1, DnssecSame, RunIs
<1>8. CASE c = "caa"
    BY <1>0, <1>8, CaaSame, RunIs
<1>9. CASE c = "cname"
    BY <1>0, <1>9, CnameSame, RunIs
<1>10. CASE c = "tls-cert"
    BY <1>0, <1>10, TlsCertSame, RunIs
<1>11. CASE c = "tls-legacy"
    BY <1>0, <1>11, TlsLegacySame, RunIs
<1>12. CASE c = "ports"
    <2>1. \A p \in DOMAIN world.ports : <<"TCP", p>> \notin silent
        BY <1>12 DEF One!Presumes
    <2> QED
        BY <1>0, <1>12, <2>1, PortsSame, RunIs
<1> QED
    BY <1>1, <1>2, <1>3, <1>4, <1>5, <1>6, <1>7, <1>8, <1>9, <1>10, <1>11, <1>12 DEF CheckNames

-----------------------------------------------------------------------------
(* The checks of one scan.                                                 *)

\* What a scan knows before its check number i.
KnownBefore(i) ==
    IF world.kind # "domain" \/ i = 1 THEN One!Nothing
    ELSE IF i = 2 THEN One!MxLearns(world, silent, One!Nothing)
    ELSE Both(world, silent)

Order == One!ChecksOf[world.kind]
Outcome(i) == One!Run(Order[i], world, silent, KnownBefore(i))

\* The results of a scan are those of its first n checks, each run with what the ones
\* before it learned.
InTurn ==
    /\ world \in Worlds
    /\ \E n \in 0..Len(Order) :
         /\ results = [i \in 1..n |-> Outcome(i)]
         /\ learned = KnownBefore(n + 1)

ChecksInv == checking => InTurn

LEMMA OrderFacts ==
    ASSUME One!WellFormed, world \in Worlds
    PROVE /\ Len(Order) \in 1..11
          /\ \A i \in 1..Len(Order) : Order[i] \in CheckNames
          /\ \A i \in 1..Len(Order) : Order[i] \in Hearing => i >= 3 /\ world.kind = "domain"
          /\ \A i \in 1..Len(Order) :
                world.kind = "domain" => (Order[i] = "mx" <=> i = 1) /\ (Order[i] = "dmarc" <=> i = 2)
          /\ world.kind # "domain" => \A i \in 1..Len(Order) : Order[i] \notin {"mx", "dmarc"}
<1>1. world.kind \in {"domain", "hostname", "ip"}
    BY DEF One!WellFormed
<1>2. CASE world.kind = "domain"
    BY <1>2, SMTT(60) DEF Order, One!ChecksOf, CheckNames, Hearing
<1>3. CASE world.kind = "hostname"
    BY <1>3 DEF Order, One!ChecksOf, CheckNames, Hearing
<1>4. CASE world.kind = "ip"
    BY <1>4 DEF Order, One!ChecksOf, CheckNames, Hearing
<1> QED
    BY <1>1, <1>2, <1>3, <1>4

LEMMA LearnsNext ==
    ASSUME One!WellFormed, world \in Worlds, NEW i \in 1..Len(Order)
    PROVE One!Learns(Order[i], world, silent, KnownBefore(i)) = KnownBefore(i + 1)
<1>0. i \in Nat /\ i # 0 /\ i + 1 # 1
    BY OrderFacts
<1>1. CASE world.kind # "domain"
    BY <1>1, OrderFacts DEF One!Learns, KnownBefore
<1>2. CASE world.kind = "domain" /\ i = 1
    BY <1>2, OrderFacts DEF One!Learns, KnownBefore
<1>3. CASE world.kind = "domain" /\ i = 2
    BY <1>3, OrderFacts DEF One!Learns, KnownBefore, Both
<1>4. CASE world.kind = "domain" /\ i # 1 /\ i # 2
    <2>1. Order[i] # "mx" /\ Order[i] # "dmarc"
        BY <1>4, OrderFacts
    <2> QED
        BY <1>0, <1>4, <2>1 DEF One!Learns, KnownBefore
<1> QED
    BY <1>1, <1>2, <1>3, <1>4

LEMMA InTurnStep ==
    ASSUME One!WellFormed, InTurn, One!Next
    PROVE InTurn'
<1> USE DEF One!Next, One!ScanAsset
<1>1. world \in Worlds /\ world' = world /\ silent' = silent
    BY DEF InTurn
<1>2. PICK n \in 0..Len(Order) :
        results = [i \in 1..n |-> Outcome(i)] /\ learned = KnownBefore(n + 1)
    BY DEF InTurn
<1>3. Len(Order) \in 1..11 /\ n \in Nat
    BY <1>1, OrderFacts
<1> DEFINE Outcomes == {Outcome(i) : i \in 1..Len(Order)}
<1>4. results \in Seq(Outcomes) /\ Len(results) = n
    BY <1>2, <1>3
<1>5. n < Len(Order)
    BY <1>4 DEF Order
<1>6. n + 1 \in 1..Len(Order)
    BY <1>3, <1>5
<1>7. results' = Append(results, Outcome(n + 1))
    BY <1>2, <1>4 DEF Outcome, Order
<1>8. results' = [i \in 1..(n + 1) |-> Outcome(i)]
    <2>1. Outcome(n + 1) \in Outcomes
        BY <1>6
    <2>2. /\ results' \in Seq(Outcomes) /\ Len(results') = n + 1
          /\ \A i \in 1..n : results'[i] = results[i]
          /\ results'[n + 1] = Outcome(n + 1)
        <3> HIDE DEF Outcomes
        <3> QED
            BY <1>4, <1>7, <2>1
    <2>3. results' = [i \in 1..(n + 1) |-> results'[i]]
        <3> HIDE DEF Outcomes
        <3> QED
            BY <2>2, <1>3
    <2>4. \A i \in 1..(n + 1) : results'[i] = Outcome(i)
        BY <1>2, <1>3, <2>2
    <2> QED
        BY <2>3, <2>4
<1>9. learned' = KnownBefore(n + 2)
    <2>1. learned' = One!Learns(Order[n + 1], world, silent, KnownBefore(n + 1))
        BY <1>2, <1>4 DEF Order
    <2>2. (n + 1) + 1 = n + 2
        BY <1>3
    <2> QED
        BY <1>1, <1>6, <2>1, <2>2, LearnsNext
<1>10. Order' = Order /\ (\A i : Outcome(i)' = Outcome(i) /\ KnownBefore(i)' = KnownBefore(i))
    BY <1>1 DEF Order, Outcome, KnownBefore
<1>11. /\ n + 1 \in 0..Len(Order') /\ (n + 1) + 1 = n + 2
       /\ results' = [i \in 1..(n + 1) |-> Outcome(i)'] /\ learned' = KnownBefore((n + 1) + 1)'
    BY <1>3, <1>6, <1>8, <1>9, <1>10
<1> QED
    BY <1>1, <1>11 DEF InTurn

LEMMA InTurnSays ==
    ASSUME One!WellFormed, InTurn
    PROVE One!SilenceDecidesNothing
<1>1. PICK n \in 0..Len(Order) :
        results = [i \in 1..n |-> Outcome(i)] /\ learned = KnownBefore(n + 1)
    BY DEF InTurn
<1>2. world \in Worlds /\ Len(Order) \in 1..11 /\ n \in Nat
    BY OrderFacts DEF InTurn
<1> SUFFICES ASSUME NEW i \in DOMAIN results, results[i].assessed, ~One!Presumes(results[i].check)
             PROVE results[i] = One!AllAnswered(results[i].check)
    BY DEF One!SilenceDecidesNothing
<1>3. i \in 1..n /\ i \in 1..Len(Order) /\ results[i] = Outcome(i)
    BY <1>1, <1>2
<1>4. Order[i] \in CheckNames
    BY <1>2, <1>3, OrderFacts
<1>5. results[i].check = Order[i]
    BY <1>3, <1>4, RunNames DEF Outcome
<1>6. Order[i] \in Hearing => KnownBefore(i) = Both(world, silent) /\ learned = KnownBefore(i)
    <2> SUFFICES ASSUME Order[i] \in Hearing
                 PROVE KnownBefore(i) = Both(world, silent) /\ learned = KnownBefore(i)
        OBVIOUS
    <2>1. i >= 3 /\ world.kind = "domain"
        BY <1>2, <1>3, OrderFacts
    <2> QED
        BY <1>1, <1>2, <1>3, <2>1 DEF KnownBefore
<1> QED
    BY <1>3, <1>4, <1>5, <1>6, RunSame DEF Outcome

LEMMA ChecksInvInit ==
    ASSUME One!WellFormed, SurfaceInit
    PROVE ChecksInv
<1> SUFFICES ASSUME checking PROVE InTurn
    BY DEF ChecksInv
<1>1. world \in Worlds /\ learned = One!Nothing /\ results = <<>>
    BY DEF SurfaceInit, One!Init
<1>2. 0 \in 0..Len(Order)
    BY <1>1, OrderFacts
<1>3. results = [i \in 1..0 |-> Outcome(i)]
    BY <1>1
<1>4. learned = KnownBefore(0 + 1)
    BY <1>1 DEF KnownBefore
<1> QED
    BY <1>1, <1>2, <1>3, <1>4 DEF InTurn

LEMMA ChecksInvStep ==
    ASSUME One!WellFormed, ChecksInv, [SurfaceNext]_all
    PROVE ChecksInv'
<1>1. CASE checking /\ One!Next /\ checking' = checking
    BY <1>1, InTurnStep DEF ChecksInv
<1>2. CASE UNCHANGED <<checking, one>>
    <2>1. InTurn' = InTurn
        BY <1>2 DEF one, InTurn, Order, Outcome, KnownBefore
    <2> QED
        BY <1>2, <2>1 DEF ChecksInv
<1> QED
    BY <1>1, <1>2 DEF SurfaceNext, all

\* What an assessed check says is what it would say had every question been answered,
\* but for what the code presumes: no silence of the DNS or of a host passes or fails
\* a check (surfacescan's checks and the results they add).
THEOREM SilenceSaysNothing == One!WellFormed => (SurfaceSpec => []SilenceDecidesNothing)
<1> SUFFICES ASSUME One!WellFormed PROVE SurfaceSpec => []SilenceDecidesNothing
    OBVIOUS
<1>1. SurfaceInit => ChecksInv
    BY ChecksInvInit
<1>2. ChecksInv /\ [SurfaceNext]_all => ChecksInv'
    BY ChecksInvStep
<1>3. ChecksInv => SilenceDecidesNothing
    BY InTurnSays DEF ChecksInv, SilenceDecidesNothing
<1> QED
    BY <1>1, <1>2, <1>3, PTL DEF SurfaceSpec

-----------------------------------------------------------------------------
(***************************************************************************)
(* The SPF walk ends.  SpfWalk is a recursive function over the visits     *)
(* there may be: Local says that a visit depends on those one step below   *)
(* it alone, and each step below has one domain more on its path, of which *)
(* DepthLimit are allowed.                                                 *)
(***************************************************************************)

\* Induction over the natural numbers up to n, for a set of them.
LEMMA UpTo ==
    ASSUME NEW n \in Nat, NEW S, 0 \in S, \A m \in 1..n : m - 1 \in S => m \in S
    PROVE 0..n \subseteq S
<1> SUFFICES ASSUME ~(0..n \subseteq S) PROVE FALSE
    OBVIOUS
<1> DEFINE Rest == (0..n) \ S
<1>1. PICK x \in Rest : \A y \in Rest : ~(<<y, x>> \in OpToRel(<, Nat))
    <2>1. Rest \subseteq Nat /\ Rest # {}
        OBVIOUS
    <2> QED
        BY <2>1, NatLessThanWellFounded, WFMin
<1>2. x \in 1..n
    OBVIOUS
<1>3. x - 1 \in Rest
    BY <1>2
<1>4. <<x - 1, x>> \in OpToRel(<, Nat)
    BY <1>2 DEF OpToRel
<1> QED
    BY <1>1, <1>3, <1>4

\* The last redirect of a record is one of its terms.
LEMMA RedirectIs ==
    ASSUME NEW terms, Len(terms) \in Nat, One!LastRedirect(terms) # 0
    PROVE One!LastRedirect(terms) \in 1..Len(terms) /\ terms[One!LastRedirect(terms)].mech = "redirect"
<1> DEFINE I == {i \in 1..Len(terms) : terms[i].mech = "redirect"}
<1>1. I # {} /\ One!LastRedirect(terms) = One!Max(I)
    BY DEF One!LastRedirect, One!SelectLastInSeq
<1>2. PICK x \in I : \A y \in I : x >= y
    <2> DEFINE S == {m \in 0..Len(terms) : I \cap 1..m = {} \/ \E x \in I : \A y \in I \cap 1..m : x >= y}
    <2>1. 0 \in S
        OBVIOUS
    <2>2. ASSUME NEW m \in 1..Len(terms), m - 1 \in S PROVE m \in S
        <3>1. CASE m \in I
            <4>1. \A y \in I \cap 1..m : m >= y
                OBVIOUS
            <4> QED
                BY <3>1, <4>1
        <3>2. CASE m \notin I
            <4>1. I \cap 1..m = I \cap 1..(m - 1)
                BY <3>2
            <4> QED
                BY <2>2, <4>1
        <3> QED
            BY <3>1, <3>2
    <2>3. Len(terms) \in S
        <3> HIDE DEF S
        <3>1. 0..Len(terms) \subseteq S
            BY <2>1, <2>2, UpTo
        <3> QED
            BY <3>1
    <2>4. I \cap 1..Len(terms) = I
        OBVIOUS
    <2> QED
        BY <1>1, <2>3, <2>4
<1>3. One!Max(I) \in I
    BY <1>2 DEF One!Max
<1> QED
    BY <1>1, <1>3

-----------------------------------------------------------------------------
\* The terms of a record are counted one after the other.
First(v, terms) ==
    IF \E i \in DOMAIN terms : terms[i].bad THEN One!Problem(v.st, "spf.syntax", v.domain) ELSE v.st
After(w, s, walk, v, terms, f) ==
    [n \in 0..Len(terms) |->
        IF n = 0 THEN First(v, terms) ELSE One!SpfTerm(w, s, walk, v, f[n - 1], terms[n])]

Counting(w, s, walk, v, terms, f) ==
    f = After(w, s, walk, v, terms, f) /\ One!SpfTerms(w, s, walk, v, terms) = f[Len(terms)]

LEMMA TermsAre ==
    ASSUME NEW w, NEW s, NEW walk, NEW v, NEW terms, Len(terms) \in Nat
    PROVE \E f : Counting(w, s, walk, v, terms, f)
<1> DEFINE first == First(v, terms)
           Loop(h, m) == h = [n \in 0..m |-> IF n = 0 THEN first
                                ELSE One!SpfTerm(w, s, walk, v, h[n - 1], terms[n])]
           S == {m \in Nat : \E h : Loop(h, m)}
<1> HIDE DEF first
<1>1. 0 \in S
    <2>1. Loop([n \in 0..0 |-> first], 0)
        OBVIOUS
    <2> QED
        BY <2>1
<1>2. ASSUME NEW m \in 1..Len(terms), m - 1 \in S PROVE m \in S
    <2>1. PICK h : Loop(h, m - 1)
        BY <1>2
    <2> DEFINE g == [n \in 0..m |-> IF n = m THEN One!SpfTerm(w, s, walk, v, h[m - 1], terms[m]) ELSE h[n]]
    <2>2. ASSUME NEW n \in 0..m
          PROVE g[n] = IF n = 0 THEN first ELSE One!SpfTerm(w, s, walk, v, g[n - 1], terms[n])
        <3>1. CASE n = m
            BY <3>1
        <3>2. CASE n # m
            <4>1. n \in 0..(m - 1)
                BY <3>2
            <4>2. h[n] = IF n = 0 THEN first ELSE One!SpfTerm(w, s, walk, v, h[n - 1], terms[n])
                BY <2>1, <4>1
            <4>3. n # 0 => n - 1 \in 0..m /\ n - 1 # m
                BY <4>1
            <4> QED
                BY <3>2, <4>2, <4>3
        <3> QED
            BY <3>1, <3>2
    <2> HIDE DEF g
    <2>3. g = [n \in 0..m |-> IF n = 0 THEN first ELSE One!SpfTerm(w, s, walk, v, g[n - 1], terms[n])]
        <3>1. g = [n \in 0..m |-> g[n]]
            BY DEF g
        <3> QED
            BY <2>2, <3>1
    <2> QED
        BY <2>3
<1>3. Len(terms) \in S
    <2> HIDE DEF S
    <2>1. 0..Len(terms) \subseteq S
        BY <1>1, <1>2, UpTo
    <2> QED
        BY <2>1
<1>4. PICK h : Loop(h, Len(terms))
    BY <1>3
<1> DEFINE it == CHOOSE k : Loop(k, Len(terms))
<1>5. Loop(it, Len(terms))
    BY <1>4
<1>6. One!SpfTerms(w, s, walk, v, terms) = it[Len(terms)]
    BY DEF One!SpfTerms, First, first
<1>7. it = After(w, s, walk, v, terms, it)
    BY <1>5 DEF After, first
<1> QED
    BY <1>6, <1>7 DEF Counting

-----------------------------------------------------------------------------
\* A term leads to a domain of the world.
Leads(w, t) == t.mech \in {"include", "redirect"} => t.arg \in {"", "%"} \cup DOMAIN w.spf

\* What ends a visit.
IsEnd(w, e) == DOMAIN e = {"st", "all", "end"} /\ e.st \in One!SpfStates(w)

\* g and h agree on the visits below v, and those end.
AgreeBelow(w, v, g, h) ==
    \A u \in One!Visits(w) : u.path = v.path \cup {v.domain} => g[u] = h[u] /\ IsEnd(w, g[u])

\* Whatever a term does to the state of the walk, a state comes of it.
LEMMA StatesStay ==
    ASSUME NEW w, NEW st \in One!SpfStates(w)
    PROVE /\ \A id \in One!SpfProblems, n \in DOMAIN w.spf : One!Problem(st, id, n) \in One!SpfStates(w)
          /\ One!Counted(st) \in One!SpfStates(w)
          /\ \A answer : One!Resolved(st, answer) \in One!SpfStates(w)
          /\ \A s, domain, t : One!PlainTerm(w, s, domain, t, st) \in One!SpfStates(w)
<1> DEFINE problems == {One!Found(id, n) : id \in One!SpfProblems, n \in DOMAIN w.spf}
<1>1. One!SpfStates(w) = [lookups : Nat, voids : Nat, broken : SUBSET problems, ptr : BOOLEAN]
    BY DEF One!SpfStates
<1>2. \A id \in One!SpfProblems, n \in DOMAIN w.spf : One!Found(id, n) \in problems
    OBVIOUS
<1> HIDE DEF problems
<1>3. \A id \in One!SpfProblems, n \in DOMAIN w.spf : One!Problem(st, id, n) \in One!SpfStates(w)
    BY <1>1, <1>2 DEF One!Problem
<1>4. One!Counted(st) \in One!SpfStates(w)
    BY <1>1 DEF One!Counted
<1>5. \A answer : One!Resolved(st, answer) \in One!SpfStates(w)
    BY <1>1 DEF One!Resolved
<1>6. [st EXCEPT !.ptr = TRUE] \in One!SpfStates(w)
    <2>1. ASSUME NEW b \in BOOLEAN PROVE [st EXCEPT !.ptr = b] \in One!SpfStates(w)
        BY <1>1
    <2>2. TRUE \in BOOLEAN
        OBVIOUS
    <2> QED
        BY <2>1, <2>2, Zenon
<1>7. ASSUME NEW s, NEW domain, NEW t PROVE One!PlainTerm(w, s, domain, t, st) \in One!SpfStates(w)
    BY <1>5, <1>6 DEF One!PlainTerm
<1> QED
    BY <1>3, <1>4, <1>5, <1>7

\* ...Local: depends on the walk by the visits below v alone, and ends as they do.
LEMMA FollowedLocal ==
    ASSUME NEW w, NEW v \in One!Visits(w), NEW st \in One!SpfStates(w), NEW name \in DOMAIN w.spf,
           NEW g, NEW h, AgreeBelow(w, v, g, h)
    PROVE One!Followed(g, v, st, name) = One!Followed(h, v, st, name) /\ IsEnd(w, One!Followed(g, v, st, name))
<1> DEFINE below == [domain |-> name, path |-> v.path \cup {v.domain}, st |-> st]
<1>1. below \in One!Visits(w) /\ below.path = v.path \cup {v.domain}
    BY DEF One!Visits
<1>2. g[below] = h[below] /\ IsEnd(w, g[below])
    BY <1>1 DEF AgreeBelow
<1>3. One!Problem(g[below].st, "spf.include_missing", name) \in One!SpfStates(w)
    BY <1>2, StatesStay DEF IsEnd, One!SpfProblems
<1>4. ASSUME NEW e, IsEnd(w, e), NEW p \in One!SpfStates(w) PROVE IsEnd(w, [e EXCEPT !.st = p])
    BY <1>4 DEF IsEnd
<1>5. IsEnd(w, [g[below] EXCEPT !.st = One!Problem(g[below].st, "spf.include_missing", name)])
    BY <1>2, <1>3, <1>4
<1>6. [g[below] EXCEPT !.st = One!Problem(@, "spf.include_missing", name)]
        = [g[below] EXCEPT !.st = One!Problem(g[below].st, "spf.include_missing", name)]
    OBVIOUS
<1> QED
    BY <1>2, <1>5, <1>6 DEF One!Followed

LEMMA TermLocal ==
    ASSUME NEW w, NEW s, NEW v \in One!Visits(w), NEW st \in One!SpfStates(w), NEW t,
           Leads(w, t),
           NEW g, NEW h, AgreeBelow(w, v, g, h)
    PROVE /\ One!SpfTerm(w, s, g, v, st, t) = One!SpfTerm(w, s, h, v, st, t)
          /\ One!SpfTerm(w, s, g, v, st, t) \in One!SpfStates(w)
<1>1. One!Counted(st) \in One!SpfStates(w)
    BY StatesStay
<1>2. One!PlainTerm(w, s, v.domain, t, One!Counted(st)) \in One!SpfStates(w)
    BY <1>1, StatesStay
<1>3. ASSUME t.mech = "include", t.arg # "%"
      PROVE /\ One!Followed(g, v, One!Counted(st), One!Target(t, v.domain))
                 = One!Followed(h, v, One!Counted(st), One!Target(t, v.domain))
            /\ One!Followed(g, v, One!Counted(st), One!Target(t, v.domain)).st \in One!SpfStates(w)
    <2>1. One!Target(t, v.domain) \in DOMAIN w.spf
        BY <1>3 DEF Leads, One!Target, One!Visits
    <2>2. ASSUME NEW name \in DOMAIN w.spf
          PROVE /\ One!Followed(g, v, One!Counted(st), name) = One!Followed(h, v, One!Counted(st), name)
                /\ IsEnd(w, One!Followed(g, v, One!Counted(st), name))
        BY <1>1, FollowedLocal
    <2> QED
        BY <2>1, <2>2 DEF IsEnd
<1> QED
    BY <1>1, <1>2, <1>3 DEF One!SpfTerm

LEMMA TermsLocal ==
    ASSUME NEW w, NEW s, NEW v \in One!Visits(w), NEW T, NEW terms \in Seq(T),
           \A t \in T : Leads(w, t),
           NEW g, NEW h, AgreeBelow(w, v, g, h)
    PROVE /\ One!SpfTerms(w, s, g, v, terms) = One!SpfTerms(w, s, h, v, terms)
          /\ One!SpfTerms(w, s, g, v, terms) \in One!SpfStates(w)
<1>0. Len(terms) \in Nat
    OBVIOUS
<1>1. PICK a : Counting(w, s, g, v, terms, a)
    BY <1>0, TermsAre, Zenon
<1>2. PICK b : Counting(w, s, h, v, terms, b)
    BY <1>0, TermsAre, Zenon
<1>3. /\ a[0] = First(v, terms) /\ b[0] = First(v, terms)
      /\ \A n \in 1..Len(terms) : a[n] = One!SpfTerm(w, s, g, v, a[n - 1], terms[n])
      /\ \A n \in 1..Len(terms) : b[n] = One!SpfTerm(w, s, h, v, b[n - 1], terms[n])
    <2>1. a = After(w, s, g, v, terms, a) /\ b = After(w, s, h, v, terms, b)
        BY <1>1, <1>2 DEF Counting
    <2>2. After(w, s, g, v, terms, a)[0] = First(v, terms) /\ After(w, s, h, v, terms, b)[0] = First(v, terms)
        BY DEF After
    <2>3. ASSUME NEW n \in 1..Len(terms)
          PROVE /\ After(w, s, g, v, terms, a)[n] = One!SpfTerm(w, s, g, v, a[n - 1], terms[n])
                /\ After(w, s, h, v, terms, b)[n] = One!SpfTerm(w, s, h, v, b[n - 1], terms[n])
        BY DEF After
    <2> QED
        BY <2>1, <2>2, <2>3
<1> DEFINE S == {n \in 0..Len(terms) : a[n] = b[n] /\ a[n] \in One!SpfStates(w)}
<1>4. 0 \in S
    <2>1. First(v, terms) \in One!SpfStates(w)
        BY StatesStay DEF First, One!Visits, One!SpfProblems
    <2> QED
        BY <1>3, <2>1
<1>5. ASSUME NEW n \in 1..Len(terms), n - 1 \in S PROVE n \in S
    <2>0. terms[n] \in T
        OBVIOUS
    <2>1. /\ a[n] = One!SpfTerm(w, s, g, v, a[n - 1], terms[n])
          /\ b[n] = One!SpfTerm(w, s, h, v, a[n - 1], terms[n])
        BY <1>3, <1>5
    <2>2. a[n - 1] \in One!SpfStates(w)
        BY <1>5
    <2>3. a[n] = b[n] /\ a[n] \in One!SpfStates(w)
        BY <2>0, <2>1, <2>2, TermLocal
    <2> QED
        BY <2>3
<1>6. Len(terms) \in S
    <2> HIDE DEF S
    <2>1. \A n \in 1..Len(terms) : n - 1 \in S => n \in S
        BY <1>5
    <2>2. 0..Len(terms) \subseteq S
        BY <1>0, <1>4, <2>1, UpTo
    <2> QED
        BY <1>0, <2>2
<1> QED
    BY <1>1, <1>2, <1>6 DEF Counting

LEMMA RecordLocal ==
    ASSUME NEW w, NEW s, NEW v \in One!Visits(w), NEW T, NEW terms \in Seq(T),
           \A t \in T : Leads(w, t),
           NEW g, NEW h, AgreeBelow(w, v, g, h)
    PROVE One!SpfRecord(w, s, g, v, terms) = One!SpfRecord(w, s, h, v, terms)
          /\ IsEnd(w, One!SpfRecord(w, s, g, v, terms))
<1> DEFINE st == One!SpfTerms(w, s, g, v, terms)
           redirect == One!LastRedirect(terms)
<1>1. One!SpfTerms(w, s, h, v, terms) = st /\ st \in One!SpfStates(w)
    BY TermsLocal
<1> HIDE DEF st
<1>2. One!Counted(st) \in One!SpfStates(w)
    BY <1>1, StatesStay
<1>3. ASSUME redirect # 0, terms[redirect].arg # "", terms[redirect].arg # "%"
      PROVE /\ One!Followed(g, v, One!Counted(st), terms[redirect].arg)
                 = One!Followed(h, v, One!Counted(st), terms[redirect].arg)
            /\ IsEnd(w, One!Followed(g, v, One!Counted(st), terms[redirect].arg))
    <2>1. redirect \in 1..Len(terms) /\ terms[redirect].mech = "redirect"
        <3>1. Len(terms) \in Nat
            OBVIOUS
        <3>2. One!LastRedirect(terms) # 0
            BY <1>3, Zenon
        <3> QED
            BY <3>1, <3>2, RedirectIs
    <2>2. terms[redirect] \in T
        BY <2>1
    <2>3. Leads(w, terms[redirect])
        BY <2>2
    <2>4. terms[redirect].arg \in DOMAIN w.spf
        BY <1>3, <2>1, <2>3 DEF Leads
    <2> QED
        BY <1>2, <2>4, FollowedLocal
<1>4. ASSUME NEW e, IsEnd(w, e) PROVE IsEnd(w, [e EXCEPT !.end = "ok"])
    BY <1>4 DEF IsEnd
<1>5. ASSUME NEW all0, NEW x \in One!SpfStates(w), NEW end0 PROVE IsEnd(w, One!Ended(x, all0, end0))
    BY DEF IsEnd, One!Ended
<1> HIDE DEF redirect
<1> QED
    BY <1>1, <1>2, <1>3, <1>4, <1>5 DEF One!SpfRecord, st, redirect

LEMMA VisitLocal ==
    ASSUME NEW w, NEW s, One!SpfClosed(w), NEW v \in One!Visits(w), NEW g, NEW h,
           ~(One!Cardinality(v.path) > DepthLimit) /\ v.domain \notin v.path => AgreeBelow(w, v, g, h)
    PROVE One!SpfVisit(w, s, g, v) = One!SpfVisit(w, s, h, v) /\ IsEnd(w, One!SpfVisit(w, s, g, v))
<1> DEFINE records == w.spf[v.domain]
           terms == CHOOSE r \in records : TRUE
<1>1. v.domain \in DOMAIN w.spf /\ v.st \in One!SpfStates(w)
    BY DEF One!Visits
<1>2. ASSUME NEW x \in One!SpfStates(w), NEW end0 PROVE IsEnd(w, One!Ended(x, "", end0))
    BY DEF IsEnd, One!Ended
<1>3. \A id \in One!SpfProblems : One!Problem(v.st, id, v.domain) \in One!SpfStates(w)
    BY <1>1, StatesStay
<1>4. ASSUME AgreeBelow(w, v, g, h), records # {}
      PROVE One!SpfRecord(w, s, g, v, terms) = One!SpfRecord(w, s, h, v, terms)
            /\ IsEnd(w, One!SpfRecord(w, s, g, v, terms))
    <2>1. terms \in records
        BY <1>4
    <2> HIDE DEF terms
    <2>2. terms \in Seq(One!Range(terms)) /\ \A t \in One!Range(terms) : Leads(w, t)
        BY <1>1, <2>1 DEF One!SpfClosed, Leads
    <2> QED
        BY <1>4, <2>2, RecordLocal
<1> HIDE DEF terms
<1> QED
    BY <1>1, <1>2, <1>3, <1>4 DEF One!SpfVisit, One!SpfProblems, terms

\* A visit below v has one domain more on its path.
LEMMA RankUp ==
    ASSUME NEW w, One!SpfClosed(w), NEW v \in One!Visits(w), NEW u \in One!Visits(w),
           v.domain \notin v.path, u.path = v.path \cup {v.domain}
    PROVE Cardinality(v.path) \in Nat /\ Cardinality(u.path) = Cardinality(v.path) + 1
<1>1. IsFiniteSet(DOMAIN w.spf)
    BY DEF One!SpfClosed, One!IsFiniteSet, IsFiniteSet
<1>2. v.path \subseteq DOMAIN w.spf
    BY DEF One!Visits
<1>3. IsFiniteSet(v.path)
    BY <1>1, <1>2, FS_Subset
<1> QED
    BY <1>3, FS_AddElement, FS_CardinalityType

LEMMA RankIs ==
    ASSUME NEW w, One!SpfClosed(w), NEW v \in One!Visits(w)
    PROVE Cardinality(v.path) \in Nat /\ One!Cardinality(v.path) = Cardinality(v.path)
<1>1. IsFiniteSet(DOMAIN w.spf)
    BY DEF One!SpfClosed, One!IsFiniteSet, IsFiniteSet
<1>2. v.path \subseteq DOMAIN w.spf
    BY DEF One!Visits
<1>3. Cardinality(v.path) \in Nat
    BY <1>1, <1>2, FS_Subset, FS_CardinalityType
<1>4. One!Cardinality(v.path) = Cardinality(v.path)
    BY DEF One!Cardinality, Cardinality
<1> QED
    BY <1>3, <1>4

\* g is right about the visits that are at most k steps from too deep.
Right(w, s, g, k) ==
    /\ g = [v \in One!Visits(w) |-> g[v]]
    /\ \A v \in One!Visits(w) :
          Cardinality(v.path) + k > DepthLimit => g[v] = One!SpfVisit(w, s, g, v) /\ IsEnd(w, g[v])

\* Who is right about the visits below is right about one level more by visiting.
LEMMA RightStep ==
    ASSUME NEW w, NEW s, One!SpfClosed(w), DepthLimit \in Nat, NEW k \in Nat \ {0}, NEW g, Right(w, s, g, k - 1)
    PROVE Right(w, s, [v \in One!Visits(w) |-> One!SpfVisit(w, s, g, v)], k)
<1> DEFINE h == [v \in One!Visits(w) |-> One!SpfVisit(w, s, g, v)]
<1>1. ASSUME NEW v \in One!Visits(w), Cardinality(v.path) + k > DepthLimit
      PROVE h[v] = One!SpfVisit(w, s, h, v) /\ IsEnd(w, h[v])
    <2>1. ASSUME v.domain \notin v.path PROVE AgreeBelow(w, v, g, h)
        <3> SUFFICES ASSUME NEW u \in One!Visits(w), u.path = v.path \cup {v.domain}
                     PROVE g[u] = h[u] /\ IsEnd(w, g[u])
            BY DEF AgreeBelow
        <3>1. Cardinality(v.path) \in Nat /\ Cardinality(u.path) = Cardinality(v.path) + 1
            BY <2>1, RankUp
        <3>2. Cardinality(u.path) + (k - 1) > DepthLimit
            BY <1>1, <3>1
        <3>3. g[u] = One!SpfVisit(w, s, g, u) /\ IsEnd(w, g[u])
            BY <3>2 DEF Right
        <3> QED
            BY <3>3
    <2>2. h[v] = One!SpfVisit(w, s, g, v)
        OBVIOUS
    <2> HIDE DEF h
    <2>3. One!SpfVisit(w, s, g, v) = One!SpfVisit(w, s, h, v) /\ IsEnd(w, One!SpfVisit(w, s, g, v))
        BY <2>1, VisitLocal
    <2> QED
        BY <2>2, <2>3
<1>2. h = [v \in One!Visits(w) |-> h[v]]
    OBVIOUS
<1> HIDE DEF h
<1>3. Right(w, s, h, k)
    BY <1>1, <1>2 DEF Right
<1> QED
    BY <1>3 DEF h

LEMMA RightFirst ==
    ASSUME NEW w, NEW s, One!SpfClosed(w), DepthLimit \in Nat, NEW g
    PROVE Right(w, s, [v \in One!Visits(w) |-> One!SpfVisit(w, s, g, v)], 0)
<1> DEFINE h == [v \in One!Visits(w) |-> One!SpfVisit(w, s, g, v)]
<1>1. ASSUME NEW v \in One!Visits(w), Cardinality(v.path) + 0 > DepthLimit
      PROVE h[v] = One!SpfVisit(w, s, h, v) /\ IsEnd(w, h[v])
    <2>1. One!Cardinality(v.path) > DepthLimit
        BY <1>1, RankIs
    <2>2. h[v] = One!SpfVisit(w, s, g, v)
        OBVIOUS
    <2> HIDE DEF h
    <2>3. One!SpfVisit(w, s, g, v) = One!SpfVisit(w, s, h, v) /\ IsEnd(w, One!SpfVisit(w, s, g, v))
        BY <2>1, VisitLocal
    <2> QED
        BY <2>2, <2>3
<1>2. h = [v \in One!Visits(w) |-> h[v]]
    OBVIOUS
<1> HIDE DEF h
<1>3. Right(w, s, h, 0)
    BY <1>1, <1>2 DEF Right
<1> QED
    BY <1>3 DEF h

\* A walk: every visit is what it makes of those below it.
IsWalk(w, s, f) == f = [v \in One!Visits(w) |-> One!SpfVisit(w, s, f, v)]

\* Right about the deepest visits, and so about all of them: the walk exists.
LEMMA WalkExists ==
    ASSUME NEW w, NEW s, One!SpfClosed(w), DepthLimit \in Nat
    PROVE IsWalk(w, s, One!SpfWalk(w, s))
<1> DEFINE S == {k \in Nat : \E g : Right(w, s, g, k)}
<1>1. 0 \in S
    BY RightFirst
<1>2. ASSUME NEW k \in 1..(DepthLimit + 1), k - 1 \in S PROVE k \in S
    <2>1. PICK g : Right(w, s, g, k - 1)
        BY <1>2
    <2>2. k \in Nat \ {0}
        OBVIOUS
    <2> QED
        BY <2>1, <2>2, RightStep
<1>3. DepthLimit + 1 \in S
    <2> HIDE DEF S
    <2>1. \A k \in 1..(DepthLimit + 1) : k - 1 \in S => k \in S
        BY <1>2
    <2>2. 0..(DepthLimit + 1) \subseteq S
        BY <1>1, <2>1, UpTo
    <2> QED
        BY <2>2
<1>4. PICK g : Right(w, s, g, DepthLimit + 1)
    BY <1>3
<1>5. \A v \in One!Visits(w) : g[v] = One!SpfVisit(w, s, g, v)
    <2> TAKE v \in One!Visits(w)
    <2>1. Cardinality(v.path) + (DepthLimit + 1) > DepthLimit
        BY RankIs
    <2> QED
        BY <1>4, <2>1 DEF Right
<1>6. IsWalk(w, s, g)
    BY <1>4, <1>5 DEF Right, IsWalk
<1>7. IsWalk(w, s, CHOOSE k : k = [v \in One!Visits(w) |-> One!SpfVisit(w, s, k, v)])
    BY <1>6 DEF IsWalk
<1>8. One!SpfWalk(w, s) = CHOOSE k : k = [v \in One!Visits(w) |-> One!SpfVisit(w, s, k, v)]
    BY DEF One!SpfWalk
<1> QED
    BY <1>7, <1>8

\* There is no other.
LEMMA WalkUnique ==
    ASSUME NEW w, NEW s, One!SpfClosed(w), DepthLimit \in Nat, NEW f, NEW g, IsWalk(w, s, f), IsWalk(w, s, g)
    PROVE f = g /\ \A v \in One!Visits(w) : IsEnd(w, f[v])
<1> DEFINE Same(k) == \A v \in One!Visits(w) :
                        Cardinality(v.path) + k > DepthLimit => f[v] = g[v] /\ IsEnd(w, f[v])
           S == {k \in Nat : Same(k)}
<1>0. \A v \in One!Visits(w) : f[v] = One!SpfVisit(w, s, f, v) /\ g[v] = One!SpfVisit(w, s, g, v)
    BY DEF IsWalk
<1>1. 0 \in S
    <2> SUFFICES ASSUME NEW v \in One!Visits(w), Cardinality(v.path) + 0 > DepthLimit
                 PROVE f[v] = g[v] /\ IsEnd(w, f[v])
        OBVIOUS
    <2>1. One!Cardinality(v.path) > DepthLimit
        BY RankIs
    <2>2. One!SpfVisit(w, s, f, v) = One!SpfVisit(w, s, g, v) /\ IsEnd(w, One!SpfVisit(w, s, f, v))
        BY <2>1, VisitLocal
    <2> QED
        BY <1>0, <2>2
<1>2. ASSUME NEW k \in 1..(DepthLimit + 1), k - 1 \in S PROVE k \in S
    <2>0. Same(k - 1)
        BY <1>2
    <2> SUFFICES ASSUME NEW v \in One!Visits(w), Cardinality(v.path) + k > DepthLimit
                 PROVE f[v] = g[v] /\ IsEnd(w, f[v])
        OBVIOUS
    <2>1. ASSUME v.domain \notin v.path PROVE AgreeBelow(w, v, f, g)
        <3> SUFFICES ASSUME NEW u \in One!Visits(w), u.path = v.path \cup {v.domain}
                     PROVE f[u] = g[u] /\ IsEnd(w, f[u])
            BY DEF AgreeBelow
        <3>1. Cardinality(v.path) \in Nat /\ Cardinality(u.path) = Cardinality(v.path) + 1
            BY <2>1, RankUp
        <3>2. Cardinality(u.path) + (k - 1) > DepthLimit
            BY <3>1
        <3> QED
            BY <2>0, <3>2
    <2>2. One!SpfVisit(w, s, f, v) = One!SpfVisit(w, s, g, v) /\ IsEnd(w, One!SpfVisit(w, s, f, v))
        BY <2>1, VisitLocal
    <2> QED
        BY <1>0, <2>2
<1>3. DepthLimit + 1 \in S
    <2> HIDE DEF S
    <2>1. \A k \in 1..(DepthLimit + 1) : k - 1 \in S => k \in S
        BY <1>2
    <2>2. 0..(DepthLimit + 1) \subseteq S
        BY <1>1, <2>1, UpTo
    <2> QED
        BY <2>2
<1>4. \A v \in One!Visits(w) : f[v] = g[v] /\ IsEnd(w, f[v])
    <2> TAKE v \in One!Visits(w)
    <2>1. Cardinality(v.path) + (DepthLimit + 1) > DepthLimit
        BY RankIs
    <2> QED
        BY <1>3, <2>1
<1>5. f = [v \in One!Visits(w) |-> f[v]] /\ g = [v \in One!Visits(w) |-> g[v]]
    BY <1>0 DEF IsWalk
<1> QED
    BY <1>4, <1>5

\* The SPF walk ends, however the records of a world include and redirect to each
\* other: there is one function that says of every visit what it makes of those below
\* it, and it says of each in which state and how it ends (spfWalk.visit: the path of
\* a visit and spfMaxDepth).
THEOREM WalkEnds ==
    One!WellFormed =>
        \A w \in Worlds : \A s :
            /\ IsWalk(w, s, One!SpfWalk(w, s))
            /\ \A f : IsWalk(w, s, f) => f = One!SpfWalk(w, s)
            /\ \A v \in One!Visits(w) : IsEnd(w, One!SpfWalk(w, s)[v])
<1> SUFFICES ASSUME One!WellFormed, NEW w \in Worlds, NEW s
             PROVE /\ IsWalk(w, s, One!SpfWalk(w, s))
                   /\ \A f : IsWalk(w, s, f) => f = One!SpfWalk(w, s)
                   /\ \A v \in One!Visits(w) : IsEnd(w, One!SpfWalk(w, s)[v])
    OBVIOUS
<1>1. One!SpfClosed(w) /\ DepthLimit \in Nat
    BY DEF One!WellFormed
<1>2. IsWalk(w, s, One!SpfWalk(w, s))
    BY <1>1, WalkExists
<1>3. ASSUME NEW f, IsWalk(w, s, f) PROVE f = One!SpfWalk(w, s)
    BY <1>1, <1>2, <1>3, WalkUnique
<1>4. \A v \in One!Visits(w) : IsEnd(w, One!SpfWalk(w, s)[v])
    BY <1>1, <1>2, WalkUnique
<1> QED
    BY <1>2, <1>3, <1>4
=============================================================================
