------------------------------- MODULE Presence -------------------------------
(***************************************************************************)
(* What the control plane knows of one host, kept twice: the presence file *)
(* (internal/presence, in memory under one mutex, exported now and then)   *)
(* and the host's row in the devices table (internal/storepg).  Handlers   *)
(* change the memory first and the row afterwards, each from what it read  *)
(* in between, and a restart takes the memory from the row (Seed).         *)
(*                                                                         *)
(* The agent reports from two goroutines, a timer and the file watcher, so *)
(* reports overlap, and it sends heartbeats from a third.  Of an inventory *)
(* the watched files are kept, as one content; the other columns travel    *)
(* with it.  The connected flag and revocation are in CommandDelivery.     *)
(***************************************************************************)
EXTENDS Integers

CONSTANTS
    Contents,       \* what the watched files may hold
    Nothing,        \* no watched file, no baseline, no device
    Reporters,      \* goroutines that handle reports
    Beaters,        \* ... heartbeats
    Admins,         \* ... acceptances of a baseline (a goroutine may be of several kinds)
    MaxChanges,     \* bound: changes of the files
    MaxAccepts,     \* bound: acceptances
    MaxFaults       \* bound: database calls that fail, and restarts

Jobs == Reporters \cup Beaters \cup Admins
\* An accepted baseline of no files: an empty list, where Nothing is none at all.
Emptied == "emptied"

\* A device: the watched files and the baseline.
Devices == [fim : Contents \cup {Nothing}, base : Contents \cup {Nothing, Emptied}]

WellFormed ==
    /\ Contents # {} /\ Emptied \notin Contents
    /\ Nothing \notin Contents /\ Nothing \notin Devices
    /\ {MaxChanges, MaxAccepts, MaxFaults} \subseteq Nat

VARIABLES
    host,       \* the watched files
    mem,        \* the device in memory
    file,       \* as last exported to disk
    row,        \* and in the table
    job,        \* goroutines
    spent,      \* how much of each bound is used
    alone       \* history: goroutines that nobody has come between

vars == <<host, mem, file, row, job, spent, alone>>

Enrolled == [fim |-> Nothing, base |-> Nothing]
Idle == [pc |-> "idle", dev |-> Enrolled]

At(j, label) == job[j].pc = label
Goto(j, label) == job' = [job EXCEPT ![j].pc = label]
Use(what, max) == spent[what] < max /\ spent' = [spent EXCEPT ![what] = @ + 1]
Fault == Use("faults", MaxFaults)

-------------------------------------------------------------------------------
\* HandleEnroll: in memory, then in the table.
Enroll ==
    /\ mem = Nothing /\ row = Nothing /\ spent.enrolled = 0
    /\ mem' = Enrolled
    /\ \/ row' = Enrolled /\ spent' = [spent EXCEPT !.enrolled = 1]
       \/ /\ spent.faults < MaxFaults /\ UNCHANGED row
          /\ spent' = [spent EXCEPT !.enrolled = 1, !.faults = @ + 1]
    /\ UNCHANGED <<host, file, job, alone>>

HostChanges ==
    /\ Use("changes", MaxChanges)
    /\ host' \in (Contents \cup {Nothing}) \ {host}
    /\ UNCHANGED <<mem, file, row, job, alone>>

Flush ==
    /\ file # mem
    /\ file' = mem
    /\ UNCHANGED <<host, mem, row, job, spent, alone>>

-------------------------------------------------------------------------------
(* The goroutines that handle calls.                                       *)

Begin(j, kind, label, dev) ==
    /\ At(j, "idle") /\ j \in kind /\ spent.enrolled = 1
    /\ job' = [job EXCEPT ![j] = [pc |-> label, dev |-> dev]]
    /\ alone' = [i \in Jobs |-> i = j /\ \A o \in Jobs : At(o, "idle")]
    /\ UNCHANGED <<host, mem, file, row>>

\* A report carries what the agent collected before it called.
BeginReport(j) ==
    Begin(j, Reporters, "apply", [Enrolled EXCEPT !.fim = host]) /\ UNCHANGED spent

\* ApplyInventory: a device it does not know is added; the first files reported are
\* the baseline.
Apply(j) ==
    /\ At(j, "apply")
    /\ LET files == job[j].dev.fim
           old == IF mem = Nothing THEN Enrolled ELSE mem IN
       mem' = [fim |-> files,
               base |-> IF old.base \in {Nothing, Emptied} /\ files # Nothing
                        THEN files ELSE old.base]
    /\ Goto(j, "get")
    /\ UNCHANGED <<host, file, row, spent, alone>>

\* The report goes to the table as it came, without what it was merged into.
Unmerged(j) ==
    /\ At(j, "get")
    /\ Goto(j, "sync")
    /\ UNCHANGED <<host, mem, file, row, spent, alone>>

\* Get: the device as it is now, another report's files included.  The Upsert of it
\* that follows changes none of an inventory (mergeHeartbeat).
GetMerged(j) ==
    /\ At(j, "get")
    /\ job' = [job EXCEPT ![j] = [pc |-> "sync", dev |-> mem]]
    /\ UNCHANGED <<host, mem, file, row, spent, alone>>

\* UpsertDevice: a full row.  A baseline that is an empty list leaves the column.
FullRow(dev) ==
    [dev EXCEPT !.base = IF @ = Emptied /\ row # Nothing THEN row.base ELSE @]

Sync(j) ==
    /\ At(j, "sync")
    /\ \/ row' = FullRow(job[j].dev) /\ UNCHANGED <<spent, alone>>
       \/ Fault /\ alone' = [alone EXCEPT ![j] = FALSE] /\ UNCHANGED row
    /\ job' = [job EXCEPT ![j] = [Idle EXCEPT !.pc = "end"]]
    /\ UNCHANGED <<host, mem, file>>

\* A heartbeat adds a device the memory does not have (Upsert) ...
BeginHeartbeat(j) == Begin(j, Beaters, "beat", Enrolled) /\ UNCHANGED spent

Beat(j) ==
    /\ At(j, "beat")
    /\ mem' = IF mem = Nothing THEN Enrolled ELSE mem
    /\ Goto(j, "touch")
    /\ UNCHANGED <<host, file, row, spent, alone>>

\* ... and a full row, once, where the table has none (touchDevice).
Touch(j) ==
    /\ At(j, "touch")
    /\ \/ /\ IF row = Nothing
             THEN job' = [job EXCEPT ![j] = [pc |-> "sync", dev |-> mem]]
             ELSE job' = [job EXCEPT ![j] = Idle]
          /\ UNCHANGED spent
       \/ Fault /\ job' = [job EXCEPT ![j] = Idle]
    /\ UNCHANGED <<host, mem, file, row, alone>>

\* HandleBaseline: in memory, in the table from the files the table has, and then
\* the whole device over it.
BeginAccept(j) ==
    /\ mem # Nothing
    /\ Begin(j, Admins, "accept", Enrolled) /\ Use("accepts", MaxAccepts)

Accept(j) ==
    /\ At(j, "accept")
    /\ mem' = [mem EXCEPT !.base = IF mem.fim = Nothing THEN Emptied ELSE mem.fim]
    /\ Goto(j, "acceptrow")
    /\ UNCHANGED <<host, file, row, spent, alone>>

RowAccepts == IF row = Nothing THEN row ELSE [row EXCEPT !.base = row.fim]

\* The table's own acceptance is all there is.
AcceptRowOnly(j) ==
    /\ At(j, "acceptrow")
    /\ row' = RowAccepts
    /\ Goto(j, "end")
    /\ UNCHANGED <<host, mem, file, spent, alone>>

AcceptRow(j) ==
    /\ At(j, "acceptrow")
    /\ \/ row' = RowAccepts /\ UNCHANGED spent
       \/ Fault /\ UNCHANGED row
    /\ Goto(j, "get")
    /\ UNCHANGED <<host, mem, file, alone>>

End(j) ==
    /\ At(j, "end")
    /\ job' = [job EXCEPT ![j] = Idle]
    /\ UNCHANGED <<host, mem, file, row, spent, alone>>

-------------------------------------------------------------------------------
\* The process dies and starts again: every call is gone, and the memory is what the
\* table holds, or the file for a device the table has not (LoadDevices, Seed).
Restart ==
    /\ Fault
    /\ mem' = IF row = Nothing THEN file ELSE row
    /\ job' = [j \in Jobs |-> Idle]
    /\ alone' = [j \in Jobs |-> FALSE]
    /\ UNCHANGED <<host, file, row>>

Init ==
    /\ host = CHOOSE c \in Contents : TRUE
    /\ mem = Nothing /\ file = Nothing /\ row = Nothing
    /\ job = [j \in Jobs |-> Idle]
    /\ spent = [what \in {"enrolled", "changes", "accepts", "faults"} |-> 0]
    /\ alone = [j \in Jobs |-> FALSE]

Call(j) == BeginReport(j) \/ BeginHeartbeat(j)
Handle(j) ==
    \/ Apply(j) \/ GetMerged(j) \/ Sync(j) \/ Beat(j) \/ Touch(j)
    \/ Accept(j) \/ AcceptRow(j) \/ End(j)

Next ==
    \/ Enroll \/ HostChanges \/ Flush \/ Restart
    \/ \E j \in Jobs : Call(j) \/ BeginAccept(j) \/ Handle(j)

Spec == Init /\ [][Next]_vars

\* The agent enrols and its timers go on; what the server has begun it goes on with.
FairSpec ==
    /\ Spec
    /\ WF_vars(Enroll)
    /\ \A j \in Jobs : WF_vars(Call(j)) /\ WF_vars(Handle(j))

-------------------------------------------------------------------------------
SameBase == row.base = mem.base \/ mem.base = Emptied

\* An acceptance, or a report, that nobody came between and whose last write did not
\* fail is what a restart brings back: the row holds the memory's files and baseline.
\* An acceptance of no files at all is the exception, the column keeps what it had
\* (HandleBaseline, ReportInventory, UpsertDevice).
AloneIsDurable ==
    \A j \in Jobs : (At(j, "end") /\ alone[j]) => row # Nothing /\ row.fim = mem.fim /\ SameBase

\* However reports, acceptances and restarts met, the next reports put both copies
\* right: the files of the host, and one baseline.
BothRight == row # Nothing /\ mem # Nothing /\ mem.fim = host /\ row.fim = host /\ SameBase
CopiesSettle == <>[]BothRight
===============================================================================
