----------------------------- MODULE DevicesProofs -----------------------------
(***************************************************************************)
(* Proofs about what a report of a host leaves behind.                     *)
(*                                                                         *)
(* Its alerts (Alerts): a report, or a refresh, that nobody came between   *)
(* and no call of which failed leaves the alerts its verdicts call for,    *)
(* and never a second one, for any checks, advisories and goroutines.      *)
(*                                                                         *)
(* The device itself (Presence): what such a report, or an acceptance of a *)
(* baseline, leaves in memory a restart brings back, for any files, any    *)
(* goroutines and any failures and restarts before it.                     *)
(***************************************************************************)
EXTENDS Devices, TLAPS

Words == {"wrong", "right", "silent"}
Stages == {"idle", "batch", "check", "match", "sync", "close", "end"}
Steps == {"file", "table", "resolve"}
Works == [pc : Stages \cup Steps, view : [Keys -> Words], todo : SUBSET Keys,
          key : Keys \cup {None}, then : Stages \cup {""}, matched : BOOLEAN]

\* The shape of the tables and of the goroutines.
TypeOK ==
    /\ host \in [Keys -> Words]
    /\ alerts \in [Keys -> [open : Nat, acked : Nat, closed : Nat]]
    /\ file \subseteq Keys /\ known \subseteq Keys
    /\ batch \in Jobs \cup {None}
    /\ job \in [Jobs -> Works]
    /\ quiet \in [Jobs -> BOOLEAN]

\* Where a goroutine is in its report, and the keys it has still to do there.
Stage(w) == IF w.pc \in Steps THEN w.then ELSE w.pc
Left(w) == IF w.pc \in Steps THEN w.todo \cup {w.key} ELSE w.todo

\* A goroutine raises what is wrong and closes what is right.
StepOK(w) ==
    /\ w.pc \in {"file", "table"} =>
          w.key \in Keys /\ w.view[w.key] = "wrong" /\ w.then \in {"check", "sync"}
    /\ w.pc = "resolve" => w.key \in Keys /\ w.view[w.key] = "right" /\ w.then = "check"
    /\ Stage(w) = "check" => Left(w) \subseteq Spoken(w.view)
    /\ Stage(w) = "match" => w.todo = {}
    /\ Stage(w) = "sync" => \A k \in Left(w) : k \in Vulns /\ w.view[k] = "wrong"
    /\ Stage(w) = "close" => \A k \in w.todo : k \in Vulns /\ w.view[k] # "wrong"
    /\ w.matched => Stage(w) \in {"sync", "close", "end"}

\* Only a report under way has its batch installed.
BatchOK(j) == batch = j => Stage(job[j]) \notin {"idle", "batch"}

\* How the alerts that are open look from the batch, while one of them is changed.
Held(w) ==
    CASE w.pc \in {"file", "table"} -> OpenKeys \cup {w.key}
      [] w.pc = "resolve" -> OpenKeys \ {w.key}
      [] OTHER -> OpenKeys

\* The batch of a goroutine alone knows what is open, and what it records is not.
KnownOK(j) ==
    /\ batch = j /\ Stage(job[j]) \in {"check", "match", "sync"} => known = Held(job[j])
    /\ job[j].pc \in {"file", "table"} => ~IsOpen(job[j].key)

Settled(view, k) == (view[k] = "wrong" => IsOpen(k)) /\ (view[k] = "right" => ~IsOpen(k))

\* What a goroutine alone has done is as its verdicts call for.
DoneOK(j) ==
    LET w == job[j] IN
    /\ Stage(w) = "check" => \A c \in Checks \ Left(w) : Settled(w.view, c)
    /\ Stage(w) \in {"match", "sync", "close", "end"} => \A c \in Checks : Settled(w.view, c)
    /\ Stage(w) = "sync" => \A v \in Vulns \ Left(w) : w.view[v] = "wrong" => IsOpen(v)
    /\ Stage(w) = "close" \/ (Stage(w) = "end" /\ w.matched) =>
          \A v \in Vulns :
              IF w.view[v] = "wrong" THEN IsOpen(v)
              ELSE v \notin w.todo => alerts[v].open = 0
    /\ Stage(w) = "end" /\ w.matched => w.todo = {}

\* Nobody else is at work beside a goroutine that nobody has come between.
AloneInv == \A j \in Jobs : quiet[j] => \A o \in Jobs : o = j \/ At(o, "idle")

JobInv ==
    \A j \in Jobs :
        /\ StepOK(job[j]) /\ BatchOK(j)
        /\ quiet[j] => KnownOK(j) /\ DoneOK(j)

IInv == TypeOK /\ AloneInv /\ JobInv

-----------------------------------------------------------------------------
(* What a step makes of the goroutine that takes it.                       *)

\* Goroutine j comes to label p; the others stay where they are.
Becomes(j, p, todo, key, then, matched) ==
    /\ job' \in [Jobs -> Works]
    /\ \A o \in Jobs : o # j => job'[o] = job[o]
    /\ job'[j].view = job[j].view
    /\ job'[j].pc = p /\ job'[j].todo = todo /\ job'[j].key = key
    /\ job'[j].then = then /\ job'[j].matched = matched

\* The goroutine's record replaced by another.
LEMMA Replaced ==
    ASSUME TypeOK, NEW j \in Jobs, NEW w \in Works, job' = [job EXCEPT ![j] = w], w.view = job[j].view
    PROVE Becomes(j, w.pc, w.todo, w.key, w.then, w.matched)
<1>1. job \in [Jobs -> Works]
    BY DEF TypeOK
<1>2. job' \in [Jobs -> Works] /\ job'[j] = w /\ \A o \in Jobs : o # j => job'[o] = job[o]
    BY <1>1
<1> QED
    BY <1>2 DEF Becomes

\* To another label.
LEMMA GotoDoes ==
    ASSUME TypeOK, NEW j \in Jobs, NEW label \in Stages \cup Steps, Goto(j, label)
    PROVE Becomes(j, label, job[j].todo, job[j].key, job[j].then, job[j].matched)
<1> DEFINE w == [job[j] EXCEPT !.pc = label]
<1>1. job[j] \in Works
    BY DEF TypeOK
<1>2. job' = [job EXCEPT ![j] = w]
    BY DEF Goto
<1>3. /\ w \in Works /\ w.view = job[j].view /\ w.pc = label /\ w.todo = job[j].todo
      /\ w.key = job[j].key /\ w.then = job[j].then /\ w.matched = job[j].matched
    BY <1>1 DEF Works
<1> HIDE DEF w
<1>4. Becomes(j, w.pc, w.todo, w.key, w.then, w.matched)
    BY <1>2, <1>3, Replaced
<1> QED
    BY <1>3, <1>4

\* To another label, with other keys to do.
LEMMA TurnDoes ==
    ASSUME TypeOK, NEW j \in Jobs, NEW label \in Stages \cup Steps, NEW t \in SUBSET Keys,
           job' = [job EXCEPT ![j].pc = label, ![j].todo = t]
    PROVE Becomes(j, label, t, job[j].key, job[j].then, job[j].matched)
<1> DEFINE v == [job[j] EXCEPT !.pc = label]
           w == [v EXCEPT !.todo = t]
<1>1. job[j] \in Works
    BY DEF TypeOK
<1>2. job' = [job EXCEPT ![j] = w]
    BY DEF TypeOK
<1>3. /\ v \in Works /\ v.view = job[j].view /\ v.pc = label
      /\ v.key = job[j].key /\ v.then = job[j].then /\ v.matched = job[j].matched
    BY <1>1 DEF Works
<1> HIDE DEF v
<1>4. /\ w \in Works /\ w.view = job[j].view /\ w.pc = label /\ w.todo = t
      /\ w.key = job[j].key /\ w.then = job[j].then /\ w.matched = job[j].matched
    BY <1>3 DEF Works
<1> HIDE DEF w
<1>5. Becomes(j, w.pc, w.todo, w.key, w.then, w.matched)
    BY <1>2, <1>4, Replaced
<1> QED
    BY <1>4, <1>5

\* One key is done.
LEMMA SkipDoes ==
    ASSUME TypeOK, NEW j \in Jobs, NEW k \in Keys, Skip(j, k)
    PROVE Becomes(j, job[j].pc, job[j].todo \ {k}, job[j].key, job[j].then, job[j].matched)
<1> DEFINE t == job[j].todo \ {k}
           w == [job[j] EXCEPT !.todo = t]
<1>1. job[j] \in Works /\ t \in SUBSET Keys
    BY DEF TypeOK, Works
<1>2. job' = [job EXCEPT ![j] = w]
    BY DEF Skip
<1> HIDE DEF t
<1>3. /\ w \in Works /\ w.view = job[j].view /\ w.pc = job[j].pc /\ w.todo = t
      /\ w.key = job[j].key /\ w.then = job[j].then /\ w.matched = job[j].matched
    BY <1>1 DEF Works
<1> HIDE DEF w
<1>4. Becomes(j, w.pc, w.todo, w.key, w.then, w.matched)
    BY <1>2, <1>3, Replaced
<1> QED
    BY <1>3, <1>4 DEF t

\* One key is taken up.
LEMMA StepDoes ==
    ASSUME TypeOK, NEW j \in Jobs, NEW k \in Keys, NEW label \in Steps, Step(j, k, label),
           job[j].pc \in Stages
    PROVE Becomes(j, label, job[j].todo \ {k}, k, job[j].pc, job[j].matched)
<1> DEFINE t == job[j].todo \ {k}
           u == [job[j] EXCEPT !.key = k]
           v == [u EXCEPT !.pc = label]
           x == [v EXCEPT !.then = job[j].pc]
           w == [x EXCEPT !.todo = t]
<1>1. job[j] \in Works /\ t \in SUBSET Keys
    BY DEF TypeOK, Works
<1>2. job' = [job EXCEPT ![j] = w]
    BY DEF Step, TypeOK
<1> HIDE DEF t
<1>3. /\ u \in Works /\ u.view = job[j].view /\ u.key = k /\ u.matched = job[j].matched
    BY <1>1 DEF Works
<1> HIDE DEF u
<1>4. /\ v \in Works /\ v.view = job[j].view /\ v.key = k /\ v.pc = label /\ v.matched = job[j].matched
    BY <1>3 DEF Works
<1> HIDE DEF v
<1>5. /\ x \in Works /\ x.view = job[j].view /\ x.key = k /\ x.pc = label /\ x.then = job[j].pc
      /\ x.matched = job[j].matched
    BY <1>4 DEF Works
<1> HIDE DEF x
<1>6. /\ w \in Works /\ w.view = job[j].view /\ w.key = k /\ w.pc = label /\ w.then = job[j].pc
      /\ w.todo = t /\ w.matched = job[j].matched
    BY <1>1, <1>5 DEF Works
<1> HIDE DEF w
<1>7. Becomes(j, w.pc, w.todo, w.key, w.then, w.matched)
    BY <1>2, <1>6, Replaced
<1> QED
    BY <1>6, <1>7 DEF t

\* Back to the report.
LEMMA ReturnDoes ==
    ASSUME TypeOK, NEW j \in Jobs, Return(j), job[j].then \in Stages
    PROVE Becomes(j, job[j].then, job[j].todo, None, "", job[j].matched)
<1> DEFINE u == [job[j] EXCEPT !.pc = job[j].then]
           v == [u EXCEPT !.key = None]
           w == [v EXCEPT !.then = ""]
<1>1. job[j] \in Works
    BY DEF TypeOK
<1>2. job' = [job EXCEPT ![j] = w]
    BY DEF Return, TypeOK
<1>3. /\ u \in Works /\ u.view = job[j].view /\ u.pc = job[j].then /\ u.todo = job[j].todo
      /\ u.matched = job[j].matched
    BY <1>1 DEF Works
<1> HIDE DEF u
<1>4. /\ v \in Works /\ v.view = job[j].view /\ v.pc = job[j].then /\ v.todo = job[j].todo
      /\ v.key = None /\ v.matched = job[j].matched
    BY <1>3 DEF Works
<1> HIDE DEF v
<1>5. /\ w \in Works /\ w.view = job[j].view /\ w.pc = job[j].then /\ w.todo = job[j].todo
      /\ w.key = None /\ w.then = "" /\ w.matched = job[j].matched
    BY <1>4 DEF Works
<1> HIDE DEF w
<1>6. Becomes(j, w.pc, w.todo, w.key, w.then, w.matched)
    BY <1>2, <1>5, Replaced
<1> QED
    BY <1>5, <1>6

-----------------------------------------------------------------------------
(* What a step makes of the alerts.                                        *)

\* Nothing changed.
LEMMA SameAlerts ==
    ASSUME alerts' = alerts
    PROVE OpenKeys' = OpenKeys /\ \A k \in Keys : IsOpen(k)' <=> IsOpen(k)
BY DEF OpenKeys, IsOpen

\* An administrator changes the status of one.
LEMMA Moved ==
    ASSUME TypeOK, NEW k \in Keys, NEW old \in DOMAIN alerts[k], NEW new \in DOMAIN alerts[k],
           old # new, alerts[k][old] > 0,
           alerts' = [alerts EXCEPT ![k][old] = @ - 1, ![k][new] = @ + 1]
    PROVE alerts' \in [Keys -> [open : Nat, acked : Nat, closed : Nat]]
<1> DEFINE Counts == [open : Nat, acked : Nat, closed : Nat]
           row1 == [alerts[k] EXCEPT ![old] = @ - 1]
           row2 == [row1 EXCEPT ![new] = @ + 1]
<1>1. alerts \in [Keys -> Counts] /\ alerts[k] \in Counts
    BY DEF TypeOK
<1>2. old \in {"open", "acked", "closed"} /\ new \in {"open", "acked", "closed"}
    BY <1>1
<1>3. row1 \in Counts
    BY <1>1, <1>2
<1>4. alerts' = [alerts EXCEPT ![k] = row2]
    BY <1>1
<1> HIDE DEF row1
<1>5. row2 \in Counts
    BY <1>2, <1>3
<1> QED
    BY <1>1, <1>4, <1>5

\* An alert is added.
LEMMA Opened ==
    ASSUME TypeOK, NEW k \in Keys, alerts' = [alerts EXCEPT ![k].open = @ + 1]
    PROVE /\ alerts' \in [Keys -> [open : Nat, acked : Nat, closed : Nat]]
          /\ \A x \in Keys : IsOpen(x)' <=> IsOpen(x) \/ x = k
          /\ \A x \in Keys : x # k => alerts'[x] = alerts[x]
          /\ OpenKeys' = OpenKeys \cup {k}
<1>1. alerts[k] \in [open : Nat, acked : Nat, closed : Nat] /\ alerts \in [Keys -> [open : Nat, acked : Nat, closed : Nat]]
    BY DEF TypeOK
<1>2. [alerts[k] EXCEPT !.open = @ + 1] \in [open : Nat, acked : Nat, closed : Nat]
    BY <1>1
<1>3. alerts' \in [Keys -> [open : Nat, acked : Nat, closed : Nat]] /\ \A x \in Keys : x # k => alerts'[x] = alerts[x]
    BY <1>1, <1>2
<1>4. alerts'[k].open = alerts[k].open + 1 /\ alerts'[k].acked = alerts[k].acked
      /\ alerts[k].open \in Nat /\ alerts[k].acked \in Nat
    BY <1>1
<1>5. IsOpen(k)'
    BY <1>4 DEF IsOpen
<1>6. \A x \in Keys : IsOpen(x)' <=> IsOpen(x) \/ x = k
    BY <1>3, <1>5 DEF IsOpen
<1> QED
    BY <1>3, <1>6 DEF OpenKeys

\* All alerts of a key are closed.
LEMMA Shut ==
    ASSUME TypeOK, NEW k \in Keys, alerts' = [alerts EXCEPT ![k] = Resolved(@)]
    PROVE /\ alerts' \in [Keys -> [open : Nat, acked : Nat, closed : Nat]]
          /\ \A x \in Keys : IsOpen(x)' <=> IsOpen(x) /\ x # k
          /\ alerts'[k].open = 0 /\ \A x \in Keys : x # k => alerts'[x] = alerts[x]
          /\ OpenKeys' = OpenKeys \ {k}
<1> DEFINE shut == Resolved(alerts[k])
<1>1. /\ alerts \in [Keys -> [open : Nat, acked : Nat, closed : Nat]]
      /\ shut \in [open : Nat, acked : Nat, closed : Nat]
      /\ shut.open = 0 /\ shut.acked = 0
    BY DEF TypeOK, Resolved
<1>2. alerts' = [alerts EXCEPT ![k] = shut]
    OBVIOUS
<1> HIDE DEF shut
<1>3. /\ alerts' \in [Keys -> [open : Nat, acked : Nat, closed : Nat]]
      /\ alerts'[k] = shut /\ \A x \in Keys : x # k => alerts'[x] = alerts[x]
    BY <1>1, <1>2
<1>4. ~IsOpen(k)' /\ alerts'[k].open = 0
    BY <1>1, <1>3 DEF IsOpen
<1>5. \A x \in Keys : IsOpen(x)' <=> IsOpen(x) /\ x # k
    BY <1>3, <1>4 DEF IsOpen
<1> QED
    BY <1>3, <1>4, <1>5 DEF OpenKeys

-----------------------------------------------------------------------------
(* Each step of a goroutine: what was so before it, and what is so after.  *)

Before(j) ==
    /\ TypeOK /\ StepOK(job[j]) /\ BatchOK(j)
    /\ quiet[j] => KnownOK(j) /\ DoneOK(j) /\ batch \in {j, None}

After(j) ==
    /\ TypeOK' /\ StepOK(job'[j]) /\ (batch' = j => Stage(job'[j]) \notin {"idle", "batch"})
    /\ quiet'[j] => KnownOK(j)' /\ DoneOK(j)'

\* The batch is loaded.
LEMMA BeginBatchStep ==
    ASSUME NEW j \in Jobs, Before(j), BeginBatch(j)
    PROVE After(j)
<1> DEFINE w == job[j]
<1>1. TypeOK /\ w \in Works /\ w.pc = "batch" /\ Stage(w) = "batch" /\ ~w.matched
    BY DEF Before, TypeOK, BeginBatch, At, StepOK, Stage, Steps
<1>2. Spoken(w.view) \in SUBSET Keys
    BY DEF Spoken, Keys
<1>3. Becomes(j, "check", Spoken(w.view), w.key, w.then, w.matched)
    BY <1>1, <1>2, TurnDoes DEF BeginBatch, Stages
<1>4. /\ UNCHANGED <<host, alerts, file, quiet>> /\ known' = OpenKeys /\ batch' = j
    BY DEF BeginBatch, table, OpenAlertKeys
<1>5. Stage(job'[j]) = "check" /\ Left(job'[j]) = Spoken(w.view)
    BY <1>3 DEF Becomes, Stage, Left, Steps
<1>6. TypeOK'
    BY <1>1, <1>3, <1>4 DEF TypeOK, Becomes, OpenKeys
<1>7. StepOK(job'[j])
    BY <1>1, <1>3, <1>5 DEF Becomes, StepOK
<1>8. KnownOK(j)'
    BY <1>3, <1>4, SameAlerts DEF Becomes, KnownOK, Held
<1>9. DoneOK(j)'
    BY <1>3, <1>5 DEF Becomes, DoneOK, Settled, Spoken
<1> QED
    BY <1>5, <1>6, <1>7, <1>8, <1>9 DEF After

\* Or not: quiet as it was, and no batch of this report's.
LEMMA NoBatchStep ==
    ASSUME NEW j \in Jobs, Before(j), NoBatch(j)
    PROVE After(j)
<1> DEFINE w == job[j]
<1>1. TypeOK /\ w \in Works /\ w.pc = "batch" /\ Stage(w) = "batch" /\ ~w.matched
    BY DEF Before, TypeOK, NoBatch, At, StepOK, Stage, Steps
<1>2. Spoken(w.view) \in SUBSET Keys
    BY DEF Spoken, Keys
<1>3. Becomes(j, "check", Spoken(w.view), w.key, w.then, w.matched)
    BY <1>1, <1>2, TurnDoes DEF NoBatch, Stages
<1>4. /\ UNCHANGED <<host, alerts, file, quiet, known, batch>>
    BY DEF NoBatch, table
<1>5. Stage(job'[j]) = "check" /\ Left(job'[j]) = Spoken(w.view)
    BY <1>3 DEF Becomes, Stage, Left, Steps
<1>6. TypeOK'
    BY <1>1, <1>3, <1>4 DEF TypeOK, Becomes
<1>7. StepOK(job'[j])
    BY <1>1, <1>3, <1>5 DEF Becomes, StepOK
<1>8. KnownOK(j)'
    BY <1>1, <1>3, <1>4 DEF Before, BatchOK, Becomes, KnownOK
<1>9. DoneOK(j)'
    BY <1>3, <1>5 DEF Becomes, DoneOK, Settled, Spoken
<1> QED
    BY <1>5, <1>6, <1>7, <1>8, <1>9 DEF After

\* An alert that is already open, or noted and recorded next.
LEMMA Ensured ==
    ASSUME NEW j \in Jobs, Before(j), NEW k \in job[j].todo, Raises(j, k),
           UNCHANGED <<host, alerts, file, batch>>, known' \subseteq Keys, quiet' \in [Jobs -> BOOLEAN],
           quiet'[j] => quiet[j],
           quiet'[j] => (Skip(j, k) => IsOpen(k)) /\ (Step(j, k, "file") => ~IsOpen(k)),
           quiet'[j] /\ batch = j => known' = known \cup {k},
           Skip(j, k) \/ Step(j, k, "file")
    PROVE After(j)
<1> DEFINE w == job[j]
<1>1. /\ TypeOK /\ w \in Works /\ w.pc \in {"check", "sync"} /\ Stage(w) = w.pc /\ w.view[k] = "wrong"
      /\ k \in Keys /\ Left(w) = w.todo
    BY DEF Before, TypeOK, Works, Raises, Stage, Left, Steps
<1>2. OpenKeys' = OpenKeys /\ \A x \in Keys : IsOpen(x)' <=> IsOpen(x)
    BY SameAlerts
<1>3. TypeOK /\ StepOK(w)
    BY DEF Before
<1>4. CASE Skip(j, k)
    <2>1. Becomes(j, w.pc, w.todo \ {k}, w.key, w.then, w.matched)
        BY <1>1, <1>4, SkipDoes
    <2>2. Stage(job'[j]) = w.pc /\ Left(job'[j]) = w.todo \ {k} /\ job'[j].pc = w.pc /\ job'[j].view = w.view
        BY <1>1, <2>1 DEF Becomes, Stage, Left, Steps
    <2>3. TypeOK'
        BY <1>1, <2>1 DEF TypeOK, Becomes
    <2>4. StepOK(job'[j])
        BY <1>1, <1>3, <2>1, <2>2 DEF Becomes, StepOK
    <2>5. ASSUME quiet'[j] PROVE KnownOK(j)' /\ DoneOK(j)'
        <3>1. quiet[j] /\ IsOpen(k) /\ KnownOK(j) /\ DoneOK(j)
            BY <1>4, <2>5 DEF Before
        <3>2. KnownOK(j)'
            BY <1>1, <1>2, <2>2, <2>5, <3>1 DEF KnownOK, Held, OpenKeys
        <3>3. DoneOK(j)'
            BY <1>1, <1>2, <2>2, <3>1 DEF DoneOK, Settled, Keys
        <3> QED
            BY <3>2, <3>3
    <2> QED
        BY <1>1, <2>2, <2>3, <2>4, <2>5 DEF After
<1>5. CASE Step(j, k, "file")
    <2>1. Becomes(j, "file", w.todo \ {k}, k, w.pc, w.matched)
        BY <1>1, <1>5, StepDoes DEF Stages, Steps
    <2>2. Stage(job'[j]) = w.pc /\ Left(job'[j]) = w.todo /\ job'[j].pc = "file" /\ job'[j].view = w.view
          /\ job'[j].key = k
        BY <1>1, <2>1 DEF Becomes, Stage, Left, Steps
    <2>3. TypeOK'
        BY <1>1, <2>1 DEF TypeOK, Becomes
    <2>4. StepOK(job'[j])
        BY <1>1, <1>3, <2>1, <2>2 DEF Becomes, StepOK
    <2>5. ASSUME quiet'[j] PROVE KnownOK(j)' /\ DoneOK(j)'
        <3>1. quiet[j] /\ ~IsOpen(k) /\ KnownOK(j) /\ DoneOK(j)
            BY <1>5, <2>5 DEF Before
        <3>2. KnownOK(j)'
            BY <1>1, <1>2, <2>2, <2>5, <3>1 DEF KnownOK, Held, OpenKeys
        <3>3. DoneOK(j)'
            BY <1>1, <1>2, <2>2, <3>1 DEF DoneOK, Settled, Keys
        <3> QED
            BY <3>2, <3>3
    <2> QED
        BY <1>1, <2>2, <2>3, <2>4, <2>5 DEF After
<1> QED
    BY <1>4, <1>5

\* With a batch, or without one.
LEMMA EnsureStep ==
    ASSUME NEW j \in Jobs, Before(j), NEW k \in Keys, EnsureInBatch(j, k) \/ EnsureAlone(j, k)
    PROVE After(j)
<1>1. TypeOK /\ job[j] \in Works
    BY DEF Before, TypeOK
<1>2. CASE EnsureInBatch(j, k)
    <2>1. /\ k \in job[j].todo /\ Raises(j, k) /\ batch # None /\ known' = known \cup {k}
          /\ UNCHANGED <<host, alerts, file, batch, quiet>>
          /\ (k \in known /\ Skip(j, k)) \/ (k \notin known /\ Step(j, k, "file"))
        BY <1>2 DEF EnsureInBatch, table
    <2>2. ~(Skip(j, k) /\ Step(j, k, "file"))
        BY <1>1, <2>1, SkipDoes, StepDoes DEF Becomes, Raises, Stages, Steps
    <2>3. ASSUME quiet[j] PROVE known = OpenKeys
        <3>1. batch = j /\ Stage(job[j]) = job[j].pc /\ job[j].pc \in {"check", "sync"}
            BY <2>1, <2>3 DEF Before, Raises, Stage, Steps
        <3> QED
            BY <2>3, <3>1 DEF Before, KnownOK, Held
    <2>4. quiet' \in [Jobs -> BOOLEAN] /\ known' \subseteq Keys
        BY <1>1, <2>1 DEF TypeOK
    <2>5. quiet'[j] => (Skip(j, k) => IsOpen(k)) /\ (Step(j, k, "file") => ~IsOpen(k))
        BY <2>1, <2>2, <2>3 DEF OpenKeys
    <2> QED
        BY <2>1, <2>4, <2>5, Ensured
<1>3. CASE EnsureAlone(j, k)
    <2>1. /\ k \in job[j].todo /\ Raises(j, k) /\ batch = None
          /\ UNCHANGED <<host, alerts, file, batch, known>>
          /\ Skip(j, k) \/ Step(j, k, "file")
          /\ \/ /\ (IsOpen(k) /\ Skip(j, k)) \/ (~IsOpen(k) /\ Step(j, k, "file"))
                /\ quiet' = quiet
             \/ quiet' = [quiet EXCEPT ![j] = FALSE]
        BY <1>3 DEF EnsureAlone, table, Spoilt
    <2>2. ~(Skip(j, k) /\ Step(j, k, "file"))
        BY <1>1, <2>1, SkipDoes, StepDoes DEF Becomes, Raises, Stages, Steps
    <2>3. quiet' \in [Jobs -> BOOLEAN] /\ known' \subseteq Keys /\ (quiet'[j] => quiet[j] /\ quiet' = quiet)
        BY <1>1, <2>1 DEF TypeOK
    <2>4. quiet'[j] => (Skip(j, k) => IsOpen(k)) /\ (Step(j, k, "file") => ~IsOpen(k))
        BY <1>1, <2>1, <2>2 DEF TypeOK
    <2>5. batch # j
        BY <2>1, JobsAssumption
    <2> QED
        BY <2>1, <2>3, <2>4, <2>5, Ensured
<1> QED
    BY <1>2, <1>3

\* Into the file.
LEMMA RecordInFileStep ==
    ASSUME NEW j \in Jobs, Before(j), RecordInFile(j)
    PROVE After(j)
<1> DEFINE w == job[j]
<1>1. /\ TypeOK /\ StepOK(w) /\ w \in Works /\ w.pc = "file" /\ w.key \in Keys
      /\ UNCHANGED <<host, alerts, batch, known, quiet>> /\ file' = file \cup {w.key}
    BY DEF Before, TypeOK, RecordInFile, At, StepOK
<1>2. Becomes(j, "table", w.todo, w.key, w.then, w.matched)
    BY <1>1, GotoDoes DEF RecordInFile, Steps
<1>3. Stage(job'[j]) = Stage(w) /\ Left(job'[j]) = Left(w)
    BY <1>1, <1>2 DEF Becomes, Stage, Left, Steps
<1>4. OpenKeys' = OpenKeys /\ \A x \in Keys : IsOpen(x)' <=> IsOpen(x)
    BY <1>1, SameAlerts
<1>5. TypeOK'
    BY <1>1, <1>2 DEF TypeOK, Becomes
<1>6. StepOK(job'[j])
    BY <1>1, <1>2, <1>3 DEF Becomes, StepOK
<1>7. ASSUME quiet'[j] PROVE KnownOK(j)' /\ DoneOK(j)'
    <2>1. KnownOK(j) /\ DoneOK(j)
        BY <1>1, <1>7 DEF Before
    <2>2. KnownOK(j)'
        BY <1>1, <1>2, <1>3, <1>4, <2>1 DEF Becomes, KnownOK, Held
    <2>3. DoneOK(j)'
        BY <1>1, <1>2, <1>3, <1>4, <2>1 DEF Becomes, DoneOK, Settled, Keys
    <2> QED
        BY <2>2, <2>3
<1> QED
    BY <1>1, <1>3, <1>5, <1>6, <1>7 DEF After, Before, BatchOK

\* Back from the table, with or without the alert.
LEMMA Recorded ==
    ASSUME NEW j \in Jobs, TypeOK, StepOK(job[j]), job[j].pc \in {"table", "resolve"}, Return(j)
    PROVE /\ Becomes(j, job[j].then, job[j].todo, None, "", job[j].matched)
          /\ Stage(job'[j]) = Stage(job[j]) /\ Stage(job[j]) = job[j].then
          /\ job[j].then \in {"check", "sync"} /\ (job[j].pc = "resolve" => job[j].then = "check")
          /\ Left(job'[j]) = job[j].todo /\ Left(job[j]) = job[j].todo \cup {job[j].key}
          /\ job[j].key \in Keys /\ StepOK(job'[j])
<1>1. /\ job[j].then \in {"check", "sync"} /\ job[j].key \in Keys
      /\ (job[j].pc = "resolve" => job[j].then = "check")
    BY DEF StepOK
<1>2. Becomes(j, job[j].then, job[j].todo, None, "", job[j].matched)
    BY <1>1, ReturnDoes DEF Stages
<1>3. /\ Stage(job'[j]) = Stage(job[j]) /\ Stage(job[j]) = job[j].then
      /\ Left(job'[j]) = job[j].todo /\ Left(job[j]) = job[j].todo \cup {job[j].key}
    BY <1>1, <1>2 DEF Becomes, Stage, Left, Steps
<1>4. StepOK(job'[j])
    BY <1>1, <1>2, <1>3 DEF Becomes, StepOK
<1> QED
    BY <1>1, <1>2, <1>3, <1>4

\* Into the table.
LEMMA RecordInTableStep ==
    ASSUME NEW j \in Jobs, Before(j), RecordInTable(j)
    PROVE After(j)
<1> DEFINE w == job[j]
<1>1. /\ TypeOK /\ StepOK(w) /\ w \in Works /\ w.pc = "table" /\ Return(j)
      /\ UNCHANGED <<host, file, batch, known>>
      /\ \/ alerts' = [alerts EXCEPT ![w.key].open = @ + 1] /\ quiet' = quiet
         \/ alerts' = alerts /\ quiet' = [quiet EXCEPT ![j] = FALSE]
    BY DEF Before, TypeOK, RecordInTable, At, Spoilt
<1>2. /\ Becomes(j, w.then, w.todo, None, "", w.matched)
      /\ Stage(job'[j]) = Stage(w) /\ Stage(w) = w.then /\ w.then \in {"check", "sync"}
      /\ Left(job'[j]) = w.todo /\ Left(w) = w.todo \cup {w.key}
      /\ w.key \in Keys /\ StepOK(job'[j])
    BY <1>1, Recorded
<1>3. TypeOK' /\ (quiet'[j] => quiet[j])
    BY <1>1, <1>2, Opened DEF TypeOK, Becomes
<1>4. ASSUME quiet'[j] PROVE KnownOK(j)' /\ DoneOK(j)'
    <2>1. quiet[j] /\ KnownOK(j) /\ DoneOK(j) /\ w.view[w.key] = "wrong"
        BY <1>1, <1>3, <1>4 DEF Before, StepOK
    <2>2. alerts' = [alerts EXCEPT ![w.key].open = @ + 1]
        BY <1>1, <1>4 DEF TypeOK
    <2>3. OpenKeys' = OpenKeys \cup {w.key} /\ \A x \in Keys : IsOpen(x)' <=> IsOpen(x) \/ x = w.key
        BY <1>1, <1>2, <2>2, Opened
    <2>4. KnownOK(j)'
        BY <1>1, <1>2, <2>1, <2>3 DEF Becomes, KnownOK, Held
    <2>5. DoneOK(j)'
        BY <1>1, <1>2, <2>1, <2>3 DEF Becomes, DoneOK, Settled, Keys
    <2> QED
        BY <2>4, <2>5
<1> QED
    BY <1>1, <1>2, <1>3, <1>4 DEF After, Before, BatchOK

\* A check that is right: nothing is open, or it is closed next.
LEMMA ResolveStep ==
    ASSUME NEW j \in Jobs, Before(j), NEW k \in Keys, Resolve(j, k)
    PROVE After(j)
<1> DEFINE w == job[j]
<1>1. /\ TypeOK /\ StepOK(w) /\ w \in Works /\ w.pc = "check" /\ k \in w.todo /\ w.view[k] = "right"
      /\ UNCHANGED <<host, alerts, batch, quiet>> /\ file' = file \ {k}
      /\ Stage(w) = "check" /\ Left(w) = w.todo
    BY DEF Before, TypeOK, Resolve, At, Stage, Left, Steps
<1>2. OpenKeys' = OpenKeys /\ \A x \in Keys : IsOpen(x)' <=> IsOpen(x)
    BY <1>1, SameAlerts
<1>3. known' \in {known, known \ {k}} /\ (Skip(j, k) \/ Step(j, k, "resolve"))
    BY DEF Resolve
<1>4. ASSUME quiet'[j], batch = j PROVE known' = known \ {k} /\ known = OpenKeys
    <2>1. batch # None
        BY <1>4, JobsAssumption
    <2> QED
        BY <1>1, <1>4, <2>1 DEF Before, KnownOK, Held, Resolve
<1>5. CASE Step(j, k, "resolve")
    <2>1. Becomes(j, "resolve", w.todo \ {k}, k, "check", w.matched)
        BY <1>1, <1>5, StepDoes DEF Stages, Steps
    <2>2. Stage(job'[j]) = "check" /\ Left(job'[j]) = w.todo /\ job'[j].pc = "resolve" /\ job'[j].view = w.view
          /\ job'[j].key = k
        BY <1>1, <2>1 DEF Becomes, Stage, Left, Steps
    <2>3. TypeOK'
        BY <1>1, <1>3, <2>1 DEF TypeOK, Becomes
    <2>4. StepOK(job'[j])
        BY <1>1, <2>1, <2>2 DEF Becomes, StepOK
    <2>5. ASSUME quiet'[j] PROVE KnownOK(j)' /\ DoneOK(j)'
        <3>1. quiet[j] /\ KnownOK(j) /\ DoneOK(j)
            BY <1>1, <2>5 DEF Before
        <3>2. KnownOK(j)'
            BY <1>1, <1>2, <1>4, <2>2, <2>5 DEF KnownOK, Held
        <3>3. DoneOK(j)'
            BY <1>1, <1>2, <2>2, <3>1 DEF DoneOK, Settled, Keys
        <3> QED
            BY <3>2, <3>3
    <2> QED
        BY <2>2, <2>3, <2>4, <2>5 DEF After
<1>6. CASE ~Step(j, k, "resolve")
    <2>1. Skip(j, k) /\ k \notin known /\ batch # None
        BY <1>3, <1>6 DEF Resolve
    <2>2. Becomes(j, "check", w.todo \ {k}, w.key, w.then, w.matched)
        BY <1>1, <2>1, SkipDoes
    <2>3. Stage(job'[j]) = "check" /\ Left(job'[j]) = w.todo \ {k} /\ job'[j].pc = "check" /\ job'[j].view = w.view
        BY <1>1, <2>2 DEF Becomes, Stage, Left, Steps
    <2>4. TypeOK'
        BY <1>1, <1>3, <2>2 DEF TypeOK, Becomes
    <2>5. StepOK(job'[j])
        BY <1>1, <2>2, <2>3 DEF Becomes, StepOK
    <2>6. ASSUME quiet'[j] PROVE KnownOK(j)' /\ DoneOK(j)'
        <3>1. quiet[j] /\ KnownOK(j) /\ DoneOK(j) /\ batch = j
            BY <1>1, <2>1, <2>6 DEF Before
        <3>2. KnownOK(j)' /\ ~IsOpen(k)
            BY <1>1, <1>2, <1>4, <2>1, <2>3, <2>6, <3>1 DEF KnownOK, Held, OpenKeys
        <3>3. DoneOK(j)'
            BY <1>1, <1>2, <2>3, <3>1, <3>2 DEF DoneOK, Settled, Keys
        <3> QED
            BY <3>2, <3>3
    <2> QED
        BY <2>3, <2>4, <2>5, <2>6 DEF After
<1> QED
    BY <1>5, <1>6

\* All alerts of the check are closed, or the statement failed.
LEMMA ResolveInTableStep ==
    ASSUME NEW j \in Jobs, Before(j), ResolveInTable(j)
    PROVE After(j)
<1> DEFINE w == job[j]
<1>1. /\ TypeOK /\ StepOK(w) /\ w \in Works /\ w.pc = "resolve" /\ Return(j)
      /\ UNCHANGED <<host, file, batch, known>>
      /\ \/ alerts' = [alerts EXCEPT ![w.key] = Resolved(@)] /\ quiet' = quiet
         \/ alerts' = alerts /\ quiet' = [quiet EXCEPT ![j] = FALSE]
    BY DEF Before, TypeOK, ResolveInTable, At, Spoilt
<1>2. /\ Becomes(j, w.then, w.todo, None, "", w.matched)
      /\ Stage(job'[j]) = Stage(w) /\ Stage(w) = "check" /\ w.then = "check"
      /\ Left(job'[j]) = w.todo /\ Left(w) = w.todo \cup {w.key}
      /\ w.key \in Keys /\ StepOK(job'[j])
    BY <1>1, Recorded
<1>3. TypeOK' /\ (quiet'[j] => quiet[j])
    BY <1>1, <1>2, Shut DEF TypeOK, Becomes
<1>4. ASSUME quiet'[j] PROVE KnownOK(j)' /\ DoneOK(j)'
    <2>1. quiet[j] /\ KnownOK(j) /\ DoneOK(j) /\ w.view[w.key] = "right"
        BY <1>1, <1>3, <1>4 DEF Before, StepOK
    <2>2. alerts' = [alerts EXCEPT ![w.key] = Resolved(@)]
        BY <1>1, <1>4 DEF TypeOK
    <2>3. OpenKeys' = OpenKeys \ {w.key} /\ \A x \in Keys : IsOpen(x)' <=> IsOpen(x) /\ x # w.key
        BY <1>1, <1>2, <2>2, Shut
    <2>4. KnownOK(j)'
        <3>1. batch = j => known = OpenKeys \ {w.key}
            BY <1>1, <1>2, <2>1 DEF KnownOK, Held
        <3>2. job'[j].pc = "check"
            BY <1>1, <1>2 DEF Becomes
        <3>3. batch' = j => known' = OpenKeys'
            BY <1>1, <2>3, <3>1
        <3> QED
            BY <3>2, <3>3 DEF KnownOK, Held
    <2>5. DoneOK(j)'
        <3>1. job'[j].view = w.view /\ Checks \subseteq Keys
            BY <1>2 DEF Becomes, Keys
        <3>2. ASSUME NEW c \in Checks \ w.todo PROVE Settled(w.view, c)'
            <4>1. CASE c = w.key
                BY <2>1, <2>3, <3>1, <4>1 DEF Settled
            <4>2. CASE c # w.key
                <5>1. Settled(w.view, c)
                    BY <1>2, <2>1, <4>2 DEF DoneOK
                <5> QED
                    BY <2>3, <3>1, <4>2, <5>1 DEF Settled
            <4> QED
                BY <4>1, <4>2
        <3> QED
            BY <1>2, <3>1, <3>2 DEF DoneOK, Settled
    <2> QED
        BY <2>4, <2>5
<1> QED
    BY <1>1, <1>2, <1>3, <1>4 DEF After, Before, BatchOK

\* All checks are done.
LEMMA ChecksDoneStep ==
    ASSUME NEW j \in Jobs, Before(j), ChecksDone(j)
    PROVE After(j)
<1> DEFINE w == job[j]
<1>1. /\ TypeOK /\ StepOK(w) /\ w \in Works /\ w.pc = "check" /\ w.todo = {}
      /\ UNCHANGED <<host, alerts, file, batch, known, quiet>>
      /\ Stage(w) = "check" /\ Left(w) = {}
    BY DEF Before, TypeOK, ChecksDone, At, Stage, Left, Steps, table
<1>2. Becomes(j, "match", {}, w.key, w.then, w.matched)
    BY <1>1, GotoDoes DEF ChecksDone, Stages
<1>3. Stage(job'[j]) = "match" /\ Left(job'[j]) = {} /\ job'[j].pc = "match" /\ job'[j].view = w.view
    BY <1>2 DEF Becomes, Stage, Left, Steps
<1>4. OpenKeys' = OpenKeys /\ \A x \in Keys : IsOpen(x)' <=> IsOpen(x)
    BY <1>1, SameAlerts
<1>5. TypeOK' /\ StepOK(job'[j])
    BY <1>1, <1>2, <1>3 DEF TypeOK, StepOK, Becomes
<1>6. ASSUME quiet'[j] PROVE KnownOK(j)' /\ DoneOK(j)'
    <2>1. quiet[j] /\ KnownOK(j) /\ DoneOK(j)
        BY <1>1, <1>6 DEF Before
    <2>2. KnownOK(j)'
        BY <1>1, <1>3, <1>4, <2>1 DEF KnownOK, Held
    <2>3. DoneOK(j)'
        BY <1>1, <1>3, <1>4, <2>1 DEF DoneOK, Settled, Keys
    <2> QED
        BY <2>2, <2>3
<1> QED
    BY <1>3, <1>5, <1>6 DEF After

\* The host is matched, or was as it is, or could not be.
LEMMA MatchStep ==
    ASSUME NEW j \in Jobs, Before(j), Match(j)
    PROVE After(j)
<1> DEFINE w == job[j]
           wrong == {v \in Vulns : w.view[v] = "wrong"}
<1>1. /\ TypeOK /\ StepOK(w) /\ w \in Works /\ w.pc = "match" /\ ~w.matched /\ w.todo = {}
      /\ UNCHANGED <<host, alerts, file, batch, known, quiet>>
      /\ Stage(w) = "match" /\ Left(w) = {}
    BY DEF Before, TypeOK, Match, At, StepOK, Stage, Left, Steps, table
<1>2. OpenKeys' = OpenKeys /\ \A x \in Keys : IsOpen(x)' <=> IsOpen(x)
    BY <1>1, SameAlerts
<1>3. quiet'[j] => quiet[j] /\ KnownOK(j) /\ DoneOK(j)
    BY <1>1 DEF Before
<1>4. CASE Goto(j, "end")
    <2>1. Becomes(j, "end", {}, w.key, w.then, w.matched)
        BY <1>1, <1>4, GotoDoes DEF Stages
    <2>2. Stage(job'[j]) = "end" /\ Left(job'[j]) = {} /\ job'[j].pc = "end" /\ job'[j].view = w.view
          /\ ~job'[j].matched
        BY <1>1, <2>1 DEF Becomes, Stage, Left, Steps
    <2>3. TypeOK' /\ StepOK(job'[j])
        BY <1>1, <2>1, <2>2 DEF TypeOK, StepOK, Becomes
    <2>4. quiet'[j] => KnownOK(j)' /\ DoneOK(j)'
        BY <1>1, <1>2, <1>3, <2>2 DEF KnownOK, DoneOK, Settled, Keys
    <2> QED
        BY <2>2, <2>3, <2>4 DEF After
<1>5. CASE job' = [job EXCEPT ![j].pc = "sync", ![j].matched = TRUE, ![j].todo = wrong]
    <2> DEFINE u == [w EXCEPT !.pc = "sync"]
               v == [u EXCEPT !.matched = TRUE]
               x == [v EXCEPT !.todo = wrong]
    <2>1. job' = [job EXCEPT ![j] = x]
        BY <1>1, <1>5 DEF TypeOK
    <2>2. u \in Works /\ u.pc = "sync" /\ u.view = w.view
        BY <1>1 DEF Works, Stages
    <2> HIDE DEF u
    <2>3. v \in Works /\ v.pc = "sync" /\ v.view = w.view /\ v.matched
        BY <2>2 DEF Works
    <2> HIDE DEF v
    <2>4. wrong \in SUBSET Keys
        BY DEF Keys
    <2>5. x \in Works /\ x.pc = "sync" /\ x.view = w.view /\ x.matched /\ x.todo = wrong
        BY <2>3, <2>4 DEF Works
    <2> HIDE DEF x
    <2>6. Becomes(j, x.pc, x.todo, x.key, x.then, x.matched)
        BY <1>1, <2>1, <2>5, Replaced
    <2>7. Stage(job'[j]) = "sync" /\ Left(job'[j]) = wrong /\ job'[j].pc = "sync" /\ job'[j].view = w.view
          /\ job'[j].matched
        BY <2>5, <2>6 DEF Becomes, Stage, Left, Steps
    <2>8. TypeOK' /\ StepOK(job'[j])
        BY <1>1, <2>6, <2>7 DEF TypeOK, StepOK, Becomes
    <2>9. quiet'[j] => KnownOK(j)' /\ DoneOK(j)'
        <3>1. quiet'[j] => KnownOK(j)'
            BY <1>1, <1>2, <1>3, <2>7 DEF KnownOK, Held
        <3>2. quiet'[j] => DoneOK(j)'
            BY <1>1, <1>2, <1>3, <2>7 DEF DoneOK, Settled, Keys
        <3> QED
            BY <3>1, <3>2
    <2> QED
        BY <2>7, <2>8, <2>9 DEF After
<1> QED
    BY <1>4, <1>5 DEF Match

\* The alerts that are open and not wanted are listed, unless the query failed.
LEMMA ListOpenStep ==
    ASSUME NEW j \in Jobs, Before(j), ListOpen(j)
    PROVE After(j)
<1> DEFINE w == job[j]
           stale == {v \in Vulns : alerts[v].open > 0 /\ w.view[v] # "wrong"}
<1>1. /\ TypeOK /\ StepOK(w) /\ w \in Works /\ w.pc = "sync" /\ w.todo = {}
      /\ UNCHANGED <<host, alerts, file, batch, known>>
      /\ Stage(w) = "sync" /\ Left(w) = {}
      /\ \/ job' = [job EXCEPT ![j].pc = "close", ![j].todo = stale] /\ quiet' = quiet
         \/ Goto(j, "close") /\ quiet' = [quiet EXCEPT ![j] = FALSE]
    BY DEF Before, TypeOK, ListOpen, At, Stage, Left, Steps, Spoilt, table
<1>2. stale \in SUBSET Keys /\ {} \in SUBSET Keys
    BY DEF Keys
<1>3. PICK t \in SUBSET Keys :
        /\ Becomes(j, "close", t, w.key, w.then, w.matched)
        /\ t \in {{}, stale} /\ quiet' \in [Jobs -> BOOLEAN]
        /\ quiet'[j] => quiet[j] /\ t = stale
    <2>1. CASE job' = [job EXCEPT ![j].pc = "close", ![j].todo = stale] /\ quiet' = quiet
        <3> HIDE DEF stale
        <3>1. Becomes(j, "close", stale, w.key, w.then, w.matched)
            BY <1>1, <1>2, <2>1, TurnDoes DEF Stages
        <3> QED
            BY <1>1, <1>2, <2>1, <3>1 DEF TypeOK
    <2>2. CASE Goto(j, "close") /\ quiet' = [quiet EXCEPT ![j] = FALSE]
        <3>1. Becomes(j, "close", {}, w.key, w.then, w.matched)
            BY <1>1, <2>2, GotoDoes DEF Stages
        <3>2. quiet' \in [Jobs -> BOOLEAN] /\ ~quiet'[j]
            BY <1>1, <2>2 DEF TypeOK
        <3> QED
            BY <1>2, <3>1, <3>2
    <2> QED
        BY <1>1, <2>1, <2>2
<1>4. Stage(job'[j]) = "close" /\ job'[j].pc = "close" /\ job'[j].view = w.view /\ job'[j].todo = t
    BY <1>3 DEF Becomes, Stage, Steps
<1>5. OpenKeys' = OpenKeys /\ \A x \in Keys : IsOpen(x)' <=> IsOpen(x)
    BY <1>1, SameAlerts
<1>6. TypeOK'
    BY <1>1, <1>3 DEF TypeOK, Becomes
<1>7. StepOK(job'[j])
    BY <1>1, <1>3, <1>4 DEF StepOK, Becomes
<1>8. ASSUME quiet'[j] PROVE KnownOK(j)' /\ DoneOK(j)'
    <2>1. DoneOK(j) /\ t = stale
        BY <1>3, <1>8 DEF Before
    <2>2. KnownOK(j)'
        BY <1>4 DEF KnownOK
    <2>3. \A v \in Vulns : alerts[v].open \in Nat
        BY <1>1 DEF TypeOK, Keys
    <2>4. \A v \in Vulns : w.view[v] # "wrong" /\ v \notin t => alerts'[v].open = 0
        BY <1>1, <2>1, <2>3
    <2>5. DoneOK(j)'
        BY <1>1, <1>4, <1>5, <2>1, <2>4 DEF DoneOK, Settled, Keys
    <2> QED
        BY <2>2, <2>5
<1> QED
    BY <1>4, <1>6, <1>7, <1>8 DEF After

\* One of them is closed.
LEMMA ResolveVulnStep ==
    ASSUME NEW j \in Jobs, Before(j), NEW k \in Keys, ResolveVuln(j, k)
    PROVE After(j)
<1> DEFINE w == job[j]
<1>1. /\ TypeOK /\ StepOK(w) /\ w \in Works /\ w.pc = "close" /\ k \in w.todo /\ Skip(j, k)
      /\ UNCHANGED <<host, batch, known>> /\ file' = file \ {k}
      /\ Stage(w) = "close"
      /\ \/ alerts' = [alerts EXCEPT ![k] = Resolved(@)] /\ quiet' = quiet
         \/ alerts' = alerts /\ quiet' = [quiet EXCEPT ![j] = FALSE]
    BY DEF Before, TypeOK, ResolveVuln, At, Stage, Steps, Spoilt
<1>2. k \in Vulns /\ w.view[k] # "wrong" /\ k \notin Checks
    BY <1>1, KeysAssumption DEF StepOK
<1>3. Becomes(j, "close", w.todo \ {k}, w.key, w.then, w.matched)
    BY <1>1, SkipDoes
<1>4. Stage(job'[j]) = "close" /\ job'[j].pc = "close" /\ job'[j].view = w.view /\ job'[j].todo = w.todo \ {k}
    BY <1>3 DEF Becomes, Stage, Steps
<1>5. TypeOK' /\ (quiet'[j] => quiet[j])
    BY <1>1, <1>3, Shut DEF TypeOK, Becomes
<1>6. StepOK(job'[j])
    BY <1>1, <1>3, <1>4 DEF StepOK, Becomes
<1>7. ASSUME quiet'[j] PROVE KnownOK(j)' /\ DoneOK(j)'
    <2>1. quiet[j] /\ DoneOK(j)
        BY <1>5, <1>7 DEF Before
    <2>2. alerts' = [alerts EXCEPT ![k] = Resolved(@)]
        BY <1>1, <1>7 DEF TypeOK
    <2>3. /\ \A x \in Keys : IsOpen(x)' <=> IsOpen(x) /\ x # k
          /\ alerts'[k].open = 0 /\ \A x \in Keys : x # k => alerts'[x] = alerts[x]
        BY <1>1, <2>2, Shut
    <2>4. KnownOK(j)'
        BY <1>4 DEF KnownOK
    <2>5. \A c \in Checks : (w.view[c] = "wrong" => IsOpen(c)') /\ (w.view[c] = "right" => ~IsOpen(c)')
        BY <1>1, <1>2, <2>1, <2>3 DEF DoneOK, Settled, Keys
    <2>6. \A v \in Vulns : IF w.view[v] = "wrong" THEN IsOpen(v)'
                           ELSE v \notin w.todo \ {k} => alerts'[v].open = 0
        BY <1>1, <1>2, <2>1, <2>3 DEF DoneOK, Keys
    <2>7. DoneOK(j)'
        BY <1>4, <2>5, <2>6 DEF DoneOK, Settled
    <2> QED
        BY <2>4, <2>7
<1> QED
    BY <1>4, <1>5, <1>6, <1>7 DEF After

\* The match is remembered.
LEMMA RememberStep ==
    ASSUME NEW j \in Jobs, Before(j), Remember(j)
    PROVE After(j)
<1> DEFINE w == job[j]
<1>1. /\ TypeOK /\ StepOK(w) /\ w \in Works /\ w.pc = "close" /\ w.todo = {} /\ Stage(w) = "close"
      /\ UNCHANGED <<host, alerts, file, batch, known, quiet>>
    BY DEF Before, TypeOK, Remember, At, Stage, Steps, table
<1>2. Becomes(j, "end", {}, w.key, w.then, w.matched)
    BY <1>1, GotoDoes DEF Remember, Stages
<1>3. Stage(job'[j]) = "end" /\ job'[j].pc = "end" /\ job'[j].view = w.view /\ job'[j].todo = {}
    BY <1>2 DEF Becomes, Stage, Steps
<1>4. \A x \in Keys : IsOpen(x)' <=> IsOpen(x)
    BY <1>1, SameAlerts
<1>5. TypeOK' /\ StepOK(job'[j])
    BY <1>1, <1>2, <1>3 DEF TypeOK, StepOK, Becomes
<1>6. ASSUME quiet'[j] PROVE KnownOK(j)' /\ DoneOK(j)'
    <2>1. quiet[j] /\ DoneOK(j)
        BY <1>1, <1>6 DEF Before
    <2>2. KnownOK(j)'
        BY <1>3 DEF KnownOK
    <2>3. DoneOK(j)'
        BY <1>1, <1>3, <1>4, <2>1 DEF DoneOK, Settled, Keys
    <2> QED
        BY <2>2, <2>3
<1> QED
    BY <1>3, <1>5, <1>6 DEF After

\* The report is over, and its batch is gone.
LEMMA EndStep ==
    ASSUME NEW j \in Jobs, Before(j), End(j)
    PROVE After(j)
<1>1. /\ TypeOK /\ job' = [job EXCEPT ![j] = Idle] /\ UNCHANGED <<host, alerts, file, quiet>>
      /\ batch' = IF batch = j THEN None ELSE batch
      /\ known' = IF batch = j THEN {} ELSE known
    BY DEF Before, End, table
<1>2. Idle \in Works
    BY DEF Idle, Works, Words, Stages
<1>3. job' \in [Jobs -> Works] /\ job'[j] = Idle
    BY <1>1, <1>2 DEF TypeOK
<1>4. Stage(Idle) = "idle" /\ Idle.pc = "idle" /\ StepOK(Idle) /\ batch' # j
    BY <1>1, JobsAssumption DEF Idle, Stage, Steps, StepOK
<1>5. TypeOK'
    BY <1>1, <1>3 DEF TypeOK
<1>6. KnownOK(j)' /\ DoneOK(j)'
    BY <1>3, <1>4 DEF KnownOK, DoneOK
<1> QED
    BY <1>3, <1>4, <1>5, <1>6 DEF After

\* A report, or a refresh, begins.
LEMMA BeginStep ==
    ASSUME NEW j \in Jobs, Before(j), Begin(j)
    PROVE /\ After(j)
          /\ \A o \in Jobs : o # j => job'[o] = job[o]
          /\ \A o \in Jobs : quiet'[o] <=> o = j /\ \A i \in Jobs : At(i, "idle")
<1>1. /\ TypeOK /\ UNCHANGED <<host, alerts, file, batch, known>>
      /\ At(j, "idle")
      /\ quiet' = [i \in Jobs |-> i = j /\ \A o \in Jobs : At(o, "idle")]
    BY DEF Before, Begin, table
<1>2. PICK w \in Works :
        /\ job' = [job EXCEPT ![j] = w]
        /\ w.todo = {} /\ ~w.matched
        /\ \/ w.pc = "batch"
           \/ w.pc = "match" /\ \A c \in Checks : w.view[c] = "silent"
    <2>1. Idle \in Works /\ Idle.todo = {} /\ ~Idle.matched
        BY DEF Idle, Works, Words, Stages
    <2>2. CASE BeginReport(j)
        <3> DEFINE u == [Idle EXCEPT !.view = host]
                   x == [u EXCEPT !.pc = "batch"]
        <3>1. job' = [job EXCEPT ![j] = x]
            BY <2>2 DEF BeginReport
        <3>2. u \in Works /\ u.todo = {} /\ ~u.matched
            BY <1>1, <2>1 DEF TypeOK, Works
        <3> HIDE DEF u
        <3>3. x \in Works /\ x.pc = "batch" /\ x.todo = {} /\ ~x.matched
            BY <3>2 DEF Works, Stages
        <3> QED
            BY <3>1, <3>3
    <2>3. CASE BeginRefresh(j)
        <3> DEFINE told == [k \in Keys |-> IF k \in Vulns THEN host[k] ELSE "silent"]
                   u == [Idle EXCEPT !.pc = "match"]
                   x == [u EXCEPT !.view = told]
        <3>1. job' = [job EXCEPT ![j] = x]
            BY <2>3 DEF BeginRefresh
        <3>2. told \in [Keys -> Words] /\ \A c \in Checks : told[c] = "silent"
            BY <1>1, KeysAssumption DEF TypeOK, Keys, Words
        <3> HIDE DEF told
        <3>3. u \in Works /\ u.pc = "match" /\ u.todo = {} /\ ~u.matched
            BY <2>1 DEF Works, Stages
        <3> HIDE DEF u
        <3>4. x \in Works /\ x.pc = "match" /\ x.todo = {} /\ ~x.matched /\ x.view = told
            BY <3>2, <3>3 DEF Works
        <3> QED
            BY <3>1, <3>2, <3>4
    <2> QED
        BY <2>2, <2>3 DEF Begin
<1>3. job' \in [Jobs -> Works] /\ job'[j] = w /\ \A o \in Jobs : o # j => job'[o] = job[o]
    BY <1>1, <1>2 DEF TypeOK
<1>4. Stage(w) = w.pc /\ w.pc \in {"batch", "match"}
    BY <1>2 DEF Stage, Steps
<1>5. batch' # j
    BY <1>1 DEF Before, BatchOK, At, Stage, Steps
<1>6. TypeOK'
    <2>1. quiet' \in [Jobs -> BOOLEAN]
        BY <1>1
    <2> QED
        BY <1>1, <1>3, <2>1 DEF TypeOK
<1>7. StepOK(w)
    BY <1>2, <1>4 DEF StepOK
<1>8. KnownOK(j)' /\ DoneOK(j)'
    BY <1>2, <1>3, <1>4, <1>5 DEF KnownOK, DoneOK, Settled
<1>9. \A o \in Jobs : quiet'[o] <=> o = j /\ \A i \in Jobs : At(i, "idle")
    BY <1>1
<1> QED
    BY <1>3, <1>5, <1>6, <1>7, <1>8, <1>9 DEF After

\* Any step of a goroutine at work.
LEMMA WorkStep ==
    ASSUME NEW j \in Jobs, Before(j), Work(j)
    PROVE After(j)
<1>1. CASE \E k \in Keys : EnsureInBatch(j, k) \/ EnsureAlone(j, k) \/ Resolve(j, k) \/ ResolveVuln(j, k)
    BY <1>1, EnsureStep, ResolveStep, ResolveVulnStep
<1> QED
    BY <1>1, BeginBatchStep, NoBatchStep, RecordInFileStep, RecordInTableStep, ResolveInTableStep,
       ChecksDoneStep, MatchStep, ListOpenStep, RememberStep, EndStep, Zenon DEF Work

-----------------------------------------------------------------------------
(* All goroutines.                                                         *)

\* Only the goroutine at work can still be alone after its step.
LEMMA OthersIdle ==
    ASSUME IInv, NEW j \in Jobs, Work(j), NEW o \in Jobs, o # j
    PROVE /\ ~quiet'[o]
          /\ (quiet'[j] => quiet[j])
          /\ (batch' = o => batch = o)
          /\ job'[o] = job[o]
<1>1. TypeOK /\ AloneInv /\ job \in [Jobs -> Works] /\ quiet \in [Jobs -> BOOLEAN]
    BY DEF IInv, TypeOK
<1>2. ~At(j, "idle")
    BY DEF Work, BeginBatch, NoBatch, RecordInFile, RecordInTable, EnsureInBatch, EnsureAlone, Raises,
           Resolve, ResolveVuln, ResolveInTable, ChecksDone, Match, ListOpen, Remember, End, At
<1>3. ~quiet[o]
    BY <1>1, <1>2 DEF AloneInv
<1>4. quiet' = quiet \/ quiet' = [quiet EXCEPT ![j] = FALSE]
    BY DEF Work, BeginBatch, NoBatch, RecordInFile, RecordInTable, EnsureInBatch, EnsureAlone, Spoilt,
           Resolve, ResolveVuln, ResolveInTable, ChecksDone, Match, ListOpen, Remember, End
<1>5. ~quiet'[o] /\ (quiet'[j] => quiet[j])
    BY <1>1, <1>3, <1>4
<1>6. batch' = o => batch = o
    BY JobsAssumption
    DEF Work, BeginBatch, NoBatch, RecordInFile, RecordInTable, EnsureInBatch, EnsureAlone,
        Resolve, ResolveVuln, ResolveInTable, ChecksDone, Match, ListOpen, Remember, End
<1>7. job'[o] = job[o]
    <2>1. CASE BeginBatch(j) \/ NoBatch(j) \/ ChecksDone(j) \/ Match(j) \/ ListOpen(j) \/ Remember(j) \/ End(j)
        BY <1>1, <2>1 DEF BeginBatch, NoBatch, ChecksDone, Match, ListOpen, Remember, End,
            Goto, Step, Skip, Return
    <2>2. CASE RecordInFile(j) \/ RecordInTable(j) \/ \E k \in Keys : EnsureInBatch(j, k) \/ EnsureAlone(j, k)
        BY <1>1, <2>2 DEF RecordInFile, RecordInTable, EnsureInBatch, EnsureAlone,
            Goto, Step, Skip, Return
    <2>3. CASE ResolveInTable(j) \/ \E k \in Keys : Resolve(j, k) \/ ResolveVuln(j, k)
        BY <1>1, <2>3 DEF Resolve, ResolveVuln, ResolveInTable, Goto, Step, Skip, Return
    <2> QED
        BY <2>1, <2>2, <2>3 DEF Work
<1> QED
    BY <1>5, <1>6, <1>7

\* What the invariant says of one goroutine.
LEMMA BeforeHolds ==
    ASSUME IInv, NEW j \in Jobs
    PROVE Before(j)
<1>1. TypeOK /\ StepOK(job[j]) /\ BatchOK(j) /\ (quiet[j] => KnownOK(j) /\ DoneOK(j))
    BY DEF IInv, JobInv
<1>2. quiet[j] => batch \in {j, None}
    <2>1. SUFFICES ASSUME quiet[j], batch # None PROVE batch = j
        BY <2>1
    <2>2. batch \in Jobs /\ BatchOK(batch)
        BY <1>1, <2>1 DEF TypeOK, IInv, JobInv
    <2>3. ~At(batch, "idle")
        BY <2>2 DEF BatchOK, Stage, Steps, At
    <2> QED
        BY <2>1, <2>2, <2>3 DEF IInv, AloneInv
<1> QED
    BY <1>1, <1>2 DEF Before

\* Every step.
LEMMA InductiveStep == IInv /\ [Next]_vars => IInv'
<1> SUFFICES ASSUME IInv, [Next]_vars PROVE IInv'
    OBVIOUS
<1>1. TypeOK /\ AloneInv /\ JobInv
    BY DEF IInv
<1>2. ASSUME NEW j \in Jobs, Work(j) PROVE IInv'
    <2>1. After(j)
        BY <1>2, BeforeHolds, WorkStep
    <2>2. \A o \in Jobs : o # j => /\ ~quiet'[o] /\ (quiet'[j] => quiet[j])
                                   /\ (batch' = o => batch = o) /\ job'[o] = job[o]
        BY <1>2, OthersIdle
    <2>3. AloneInv'
        BY <1>1, <2>2 DEF AloneInv, At
    <2>4. ASSUME NEW o \in Jobs
          PROVE StepOK(job'[o]) /\ BatchOK(o)' /\ (quiet'[o] => KnownOK(o)' /\ DoneOK(o)')
        <3>1. CASE o = j
            BY <2>1, <3>1 DEF After, BatchOK
        <3>2. CASE o # j
            BY <1>1, <2>2, <3>2 DEF JobInv, BatchOK
        <3> QED
            BY <3>1, <3>2
    <2> QED
        BY <2>1, <2>3, <2>4 DEF IInv, JobInv, After
<1>3. ASSUME NEW j \in Jobs, Begin(j) PROVE IInv'
    <2>1. Before(j)
        BY BeforeHolds
    <2>2. /\ After(j) /\ batch' = batch
          /\ \A o \in Jobs : o # j => job'[o] = job[o]
          /\ \A o \in Jobs : quiet'[o] <=> o = j /\ \A i \in Jobs : At(i, "idle")
        BY <1>3, <2>1, BeginStep DEF Begin
    <2>3. AloneInv'
        BY <2>2 DEF AloneInv, At
    <2>4. ASSUME NEW o \in Jobs
          PROVE StepOK(job'[o]) /\ BatchOK(o)' /\ (quiet'[o] => KnownOK(o)' /\ DoneOK(o)')
        <3>1. CASE o = j
            BY <2>2, <3>1 DEF After, BatchOK
        <3>2. CASE o # j
            BY <1>1, <2>2, <3>2 DEF JobInv, BatchOK
        <3> QED
            BY <3>1, <3>2
    <2> QED
        BY <2>2, <2>3, <2>4 DEF IInv, JobInv, After
<1>4. ASSUME NEW k \in Keys, HostChanges(k) PROVE IInv'
    <2>1. /\ UNCHANGED <<alerts, file, batch, known, job, quiet>>
          /\ \E word \in Words : host' = [host EXCEPT ![k] = word]
        BY <1>4 DEF HostChanges, Words, table
    <2>2. TypeOK'
        BY <1>1, <2>1 DEF TypeOK
    <2>3. \A x \in Keys : IsOpen(x)' <=> IsOpen(x)
        BY <2>1, SameAlerts
    <2>4. AloneInv' /\ JobInv'
        BY <1>1, <2>1, <2>3 DEF AloneInv, JobInv, At, BatchOK, KnownOK, DoneOK, Settled, Held, OpenKeys, IsOpen
    <2> QED
        BY <2>2, <2>4 DEF IInv
<1>5. ASSUME NEW k \in Keys, SetStatus(k) PROVE IInv'
    <2>1. /\ UNCHANGED <<host, file, batch, known, job>>
          /\ quiet' = [i \in Jobs |-> FALSE]
        BY <1>5 DEF SetStatus, Disturb
    <2>2. alerts' \in [Keys -> [open : Nat, acked : Nat, closed : Nat]]
        <3>1. PICK old \in DOMAIN alerts[k], new \in DOMAIN alerts[k] :
                /\ old # new /\ alerts[k][old] > 0
                /\ alerts' = [alerts EXCEPT ![k][old] = @ - 1, ![k][new] = @ + 1]
            BY <1>5 DEF SetStatus
        <3> QED
            BY <1>1, <3>1, Moved
    <2>3. TypeOK'
        BY <1>1, <2>1, <2>2 DEF TypeOK
    <2>4. AloneInv' /\ JobInv'
        BY <1>1, <2>1 DEF AloneInv, JobInv, BatchOK
    <2> QED
        BY <2>3, <2>4 DEF IInv
<1>6. CASE UNCHANGED vars
    <2>1. TypeOK' /\ AloneInv'
        BY <1>1, <1>6 DEF TypeOK, AloneInv, At, vars, table
    <2>2. JobInv'
        BY <1>1, <1>6, SameAlerts DEF JobInv, vars, table, BatchOK, KnownOK, DoneOK, Settled, Held, OpenKeys, IsOpen
    <2> QED
        BY <2>1, <2>2 DEF IInv
<1> QED
    BY <1>2, <1>3, <1>4, <1>5, <1>6, Zenon DEF Next

\* No goroutine is at work and there is no alert.
LEMMA InitHolds == Init => IInv
<1> SUFFICES ASSUME Init PROVE IInv
    OBVIOUS
<1>1. Idle \in Works /\ NoAlerts \in [open : Nat, acked : Nat, closed : Nat]
    BY DEF Idle, Works, Words, Stages, NoAlerts
<1>2. TypeOK
    BY <1>1 DEF Init, TypeOK, Words
<1>3. AloneInv
    BY DEF Init, AloneInv
<1>4. ASSUME NEW j \in Jobs PROVE StepOK(job[j]) /\ BatchOK(j) /\ ~quiet[j]
    BY JobsAssumption DEF Init, StepOK, BatchOK, Idle, Stage, Steps
<1>5. JobInv
    BY <1>4 DEF JobInv
<1> QED
    BY <1>2, <1>3, <1>5 DEF IInv

\* Every step keeps the batch and the alerts in step with the verdicts.
THEOREM Invariance == Spec => []IInv
BY InitHolds, InductiveStep, PTL DEF Spec

\* ReportInventory, refreshFindings: a report or a refresh that nobody came between and
\* no call of which failed leaves the alerts its verdicts call for, although the batch
\* answers in the database's place.
THEOREM ReportsAreKept == Spec => []AlertsMatchReport
<1>1. IInv => AlertsMatchReport
    <2> SUFFICES ASSUME IInv, NEW j \in Jobs, At(j, "end"), quiet[j]
                 PROVE /\ \A c \in Checks : /\ (job[j].view[c] = "wrong" => IsOpen(c))
                                            /\ (job[j].view[c] = "right" => ~IsOpen(c))
                       /\ \A v \in Vulns :
                             job[j].matched =>
                                 IF job[j].view[v] = "wrong" THEN IsOpen(v) ELSE alerts[v].open = 0
        BY DEF AlertsMatchReport
    <2>1. DoneOK(j) /\ Stage(job[j]) = "end"
        BY DEF IInv, JobInv, At, Stage, Steps
    <2> QED
        BY <2>1 DEF DoneOK, Settled
<1> QED
    BY <1>1, Invariance, PTL

\* recordAlert, ensureAlert: such a report never raises a second alert for what has one.
THEOREM OneAlert == Spec => NoSecondAlert
<1>1. IInv /\ [Next]_vars =>
        [\A j \in Jobs, k \in Keys :
            (quiet[j] /\ quiet'[j] /\ At(j, "table") /\ alerts'[k].open > alerts[k].open) => ~IsOpen(k)]_vars
    <2> SUFFICES ASSUME IInv, Next, NEW j \in Jobs, NEW k \in Keys,
                        quiet[j], quiet'[j], At(j, "table"), alerts'[k].open > alerts[k].open
                 PROVE ~IsOpen(k)
        BY DEF vars
    <2>1. TypeOK /\ \A o \in Jobs : o # j => At(o, "idle")
        BY DEF IInv, AloneInv
    <2>2. alerts[k].open \in Nat
        BY <2>1 DEF TypeOK
    <2>3. alerts' # alerts
        BY <2>2
    <2>4. ASSUME NEW o \in Jobs, Begin(o) PROVE FALSE
        BY <2>3, <2>4 DEF Begin, table
    <2>5. ASSUME NEW o \in Jobs, Work(o) PROVE o = j /\ RecordInTable(j)
        <3>1. o = j
            BY <2>1, <2>5 DEF At, Work, BeginBatch, NoBatch, RecordInFile, RecordInTable, EnsureInBatch,
                EnsureAlone, Raises, Resolve, ResolveVuln, ResolveInTable, ChecksDone, Match, ListOpen,
                Remember, End
        <3> QED
            BY <2>5, <3>1 DEF At, Work, BeginBatch, NoBatch, RecordInFile, EnsureInBatch,
                EnsureAlone, Raises, Resolve, ResolveVuln, ResolveInTable, ChecksDone, Match, ListOpen,
                Remember, End
    <2>6. ASSUME NEW x \in Keys, HostChanges(x) \/ SetStatus(x) PROVE FALSE
        BY <2>3, <2>6 DEF HostChanges, SetStatus, Disturb, table
    <2>7. RecordInTable(j)
        BY <2>4, <2>5, <2>6 DEF Next
    <2>8. job[j].key \in Keys /\ ~IsOpen(job[j].key)
        BY DEF IInv, JobInv, StepOK, KnownOK, At
    <2>9. alerts' = [alerts EXCEPT ![job[j].key].open = @ + 1]
        BY <2>3, <2>7 DEF RecordInTable
    <2>10. k = job[j].key
        BY <2>1, <2>2, <2>8, <2>9 DEF TypeOK
    <2> QED
        BY <2>8, <2>10
<1> QED
    BY <1>1, Invariance, PTL DEF Spec, NoSecondAlert

-----------------------------------------------------------------------------
(***************************************************************************)
(* The copies of a device (Presence).                                      *)
(***************************************************************************)

Labels == {"idle", "apply", "get", "sync", "beat", "touch", "accept", "acceptrow", "end"}
Calls == [pc : Labels, dev : Store!Devices]
\* Where a goroutine is once the memory knows the device.
Known == {"get", "sync", "touch", "accept", "acceptrow", "end"}

\* The shape of the copies and of the goroutines.
CopiesTypeOK ==
    /\ files \in Contents \cup {Nothing}
    /\ {mem, exported, row} \subseteq Store!Devices \cup {Nothing}
    /\ call \in [Store!Jobs -> Calls]
    /\ alone \in [Store!Jobs -> BOOLEAN]

\* The device in memory stays there as long as the process runs.
MemInv == \A j \in Store!Jobs : call[j].pc \in Known => mem # Nothing

\* Nobody else is at work beside a goroutine that nobody has come between; what it is
\* about to write is the memory, and what it has written is durable.
CopiesAlone ==
    \A j \in Store!Jobs : alone[j] =>
        /\ \A o \in Store!Jobs : o = j \/ Store!At(o, "idle")
        /\ Store!At(j, "sync") => call[j].dev = mem

CopiesIInv == CopiesTypeOK /\ MemInv /\ CopiesAlone /\ Store!AloneIsDurable

-----------------------------------------------------------------------------
\* A device that is enrolled, or that a report or an acceptance changed.
LEMMA DeviceValues ==
    ASSUME Store!WellFormed
    PROVE /\ Store!Enrolled \in Store!Devices /\ Store!Idle \in Calls
          /\ \A d \in Store!Devices : d # Nothing
          /\ \A d \in Store!Devices, f \in Contents \cup {Nothing} : [d EXCEPT !.fim = f] \in Store!Devices
          /\ \A d \in Store!Devices, b \in Contents \cup {Nothing, Store!Emptied} : [d EXCEPT !.base = b] \in Store!Devices
          /\ \A d \in Store!Devices : d.fim \in Contents \cup {Nothing} /\ d.base \in Contents \cup {Nothing, Store!Emptied}
<1>1. Store!Enrolled \in Store!Devices
    BY DEF Store!Enrolled, Store!Devices
<1>2. Store!Idle \in Calls
    BY <1>1 DEF Store!Idle, Calls, Labels
<1> QED
    BY <1>1, <1>2 DEF Store!WellFormed, Store!Devices

\* A goroutine that goes on to another label.
LEMMA GotoTyped ==
    ASSUME call \in [Store!Jobs -> Calls], NEW j \in Store!Jobs
    PROVE /\ \A p \in Labels : /\ [call EXCEPT ![j].pc = p] \in [Store!Jobs -> Calls]
                               /\ [call EXCEPT ![j].pc = p][j] = [call[j] EXCEPT !.pc = p]
                               /\ [call EXCEPT ![j].pc = p][j].pc = p
          /\ \A c \in Calls : /\ [call EXCEPT ![j] = c] \in [Store!Jobs -> Calls]
                              /\ [call EXCEPT ![j] = c][j] = c
          /\ \A p \in Labels, o \in Store!Jobs \ {j} : [call EXCEPT ![j].pc = p][o] = call[o]
          /\ \A c \in Calls, o \in Store!Jobs \ {j} : [call EXCEPT ![j] = c][o] = call[o]
<1>1. call[j] \in Calls
    OBVIOUS
<1>2. \A p \in Labels : [call[j] EXCEPT !.pc = p] \in Calls /\ [call[j] EXCEPT !.pc = p].pc = p
    BY <1>1 DEF Calls
<1> QED
    BY <1>2

LEMMA GoesTo ==
    ASSUME call \in [Store!Jobs -> Calls], NEW j \in Store!Jobs, NEW p \in Labels,
           call' = [call EXCEPT ![j].pc = p]
    PROVE /\ call' \in [Store!Jobs -> Calls] /\ call'[j].pc = p
          /\ \A o \in Store!Jobs \ {j} : call'[o] = call[o]
BY GotoTyped

\* What the table holds after a full row is written.
LEMMA FullRowIs ==
    ASSUME Store!WellFormed, CopiesTypeOK, NEW d \in Store!Devices
    PROVE /\ Store!FullRow(d) \in Store!Devices /\ Store!FullRow(d).fim = d.fim
          /\ Store!FullRow(d).base = d.base \/ d.base = Store!Emptied
<1>1. row \in Store!Devices \cup {Nothing}
    BY DEF CopiesTypeOK
<1>2. (IF d.base = Store!Emptied /\ row # Nothing THEN row.base ELSE d.base) \in Contents \cup {Nothing, Store!Emptied}
    BY <1>1, DeviceValues
<1> QED
    BY <1>2, DeviceValues DEF Store!FullRow, Store!Devices

\* What a step of a goroutine leaves it with, and the copies.
HandleEffect(j) ==
    /\ call' \in [Store!Jobs -> Calls]
    /\ \A o \in Store!Jobs \ {j} : call'[o] = call[o] /\ alone'[o] = alone[o]
    /\ alone' \in [Store!Jobs -> BOOLEAN] /\ (alone'[j] => alone[j])
    /\ mem' \in Store!Devices \cup {Nothing} /\ row' \in Store!Devices \cup {Nothing}
    /\ UNCHANGED <<files, exported>>
    /\ mem # Nothing => mem' # Nothing
    /\ call'[j].pc \in Known => mem' # Nothing
    /\ call'[j].pc = "sync" => call'[j].dev = mem'
    /\ call'[j].pc = "end" /\ alone'[j] =>
          \/ row' # Nothing /\ row'.fim = mem'.fim /\ (row'.base = mem'.base \/ mem'.base = Store!Emptied)

\* Calls, once begun, know what they do; what they write is what they read, or the device
\* in memory.
LEMMA HandleDoes ==
    ASSUME Store!WellFormed, CopiesTypeOK, MemInv, NEW j \in Store!Jobs, Store!Handle(j),
           alone[j] /\ Store!At(j, "sync") => call[j].dev = mem
    PROVE HandleEffect(j)
<1>1. /\ files \in Contents \cup {Nothing} /\ call \in [Store!Jobs -> Calls] /\ alone \in [Store!Jobs -> BOOLEAN]
      /\ mem \in Store!Devices \cup {Nothing} /\ row \in Store!Devices \cup {Nothing} /\ call[j] \in Calls
    BY DEF CopiesTypeOK
<1>2. call[j].dev \in Store!Devices /\ call[j].pc \in Labels
    BY <1>1 DEF Calls
<1> USE DEF Store!At
<1>3. CASE Store!Apply(j)
    <2>1. /\ call' = [call EXCEPT ![j].pc = "get"] /\ UNCHANGED <<files, exported, row, alone>>
          /\ \E b : mem' = [fim |-> call[j].dev.fim, base |-> b] /\ b \in Contents \cup {Nothing, Store!Emptied}
        <3> DEFINE watched == call[j].dev.fim
                   old == IF mem = Nothing THEN Store!Enrolled ELSE mem
                   b == IF old.base \in {Nothing, Store!Emptied} /\ watched # Nothing THEN watched ELSE old.base
        <3>1. mem' = [fim |-> watched, base |-> b] /\ call' = [call EXCEPT ![j].pc = "get"]
              /\ UNCHANGED <<files, exported, row, alone>>
            BY <1>3 DEF Store!Apply, Store!Goto
        <3>2. old \in Store!Devices
            BY <1>1, DeviceValues
        <3>3. b \in Contents \cup {Nothing, Store!Emptied}
            BY <1>2, <3>2, DeviceValues
        <3> QED
            BY <3>1, <3>3
    <2>2. mem' \in Store!Devices /\ mem' # Nothing
        BY <1>2, <2>1, DeviceValues DEF Store!Devices
    <2>3. /\ call' \in [Store!Jobs -> Calls] /\ call'[j].pc = "get"
          /\ \A o \in Store!Jobs \ {j} : call'[o] = call[o]
        BY <1>1, <2>1, GoesTo DEF Labels
    <2> QED
        BY <1>1, <2>1, <2>2, <2>3 DEF HandleEffect
<1>4. CASE Store!GetMerged(j)
    <2>1. mem \in Store!Devices /\ mem # Nothing
        BY <1>1, <1>4 DEF MemInv, Store!GetMerged, Known
    <2>2. [pc |-> "sync", dev |-> mem] \in Calls
        BY <2>1 DEF Calls, Labels
    <2>3. call' = [call EXCEPT ![j] = [pc |-> "sync", dev |-> mem]] /\ UNCHANGED <<files, mem, exported, row, alone>>
        BY <1>4 DEF Store!GetMerged
    <2> QED
        BY <1>1, <2>1, <2>2, <2>3, GotoTyped DEF HandleEffect
<1>5. CASE Store!Sync(j)
    <2>1. /\ call' = [call EXCEPT ![j] = [Store!Idle EXCEPT !.pc = "end"]] /\ UNCHANGED <<files, mem, exported>>
          /\ \/ row' = Store!FullRow(call[j].dev) /\ alone' = alone
             \/ row' = row /\ alone' = [alone EXCEPT ![j] = FALSE]
        BY <1>5 DEF Store!Sync
    <2>2. [Store!Idle EXCEPT !.pc = "end"] \in Calls /\ [Store!Idle EXCEPT !.pc = "end"].pc = "end"
        BY DeviceValues DEF Calls, Labels
    <2>3. mem # Nothing
        BY <1>5 DEF MemInv, Store!Sync, Known
    <2>4. row' = Store!FullRow(call[j].dev) =>
            /\ row' \in Store!Devices /\ row'.fim = call[j].dev.fim
            /\ row'.base = call[j].dev.base \/ call[j].dev.base = Store!Emptied
        BY <1>2, FullRowIs
    <2>5. alone[j] => call[j].dev = mem
        BY <1>5 DEF Store!Sync
    <2>6. call'[j].pc = "end" /\ call' \in [Store!Jobs -> Calls] /\ \A o \in Store!Jobs \ {j} : call'[o] = call[o]
        BY <1>1, <2>1, <2>2, GotoTyped
    <2>7. CASE row' = Store!FullRow(call[j].dev) /\ alone' = alone
        <3>1. row' \in Store!Devices /\ row' # Nothing
            BY <2>4, <2>7, DeviceValues
        <3>2. alone[j] => row'.fim = mem.fim /\ (row'.base = mem.base \/ mem.base = Store!Emptied)
            BY <2>4, <2>5, <2>7
        <3> QED
            BY <1>1, <2>1, <2>3, <2>6, <2>7, <3>1, <3>2 DEF HandleEffect
    <2>8. CASE row' = row /\ alone' = [alone EXCEPT ![j] = FALSE]
        <3>1. alone' \in [Store!Jobs -> BOOLEAN] /\ ~alone'[j] /\ \A o \in Store!Jobs \ {j} : alone'[o] = alone[o]
            BY <1>1, <2>8
        <3> QED
            BY <1>1, <2>1, <2>3, <2>6, <2>8, <3>1 DEF HandleEffect
    <2> QED
        BY <2>1, <2>7, <2>8
<1>6. CASE Store!Beat(j)
    <2>1. /\ call' = [call EXCEPT ![j].pc = "touch"] /\ UNCHANGED <<files, exported, row, alone>>
          /\ mem' = IF mem = Nothing THEN Store!Enrolled ELSE mem
        BY <1>6 DEF Store!Beat, Store!Goto
    <2>2. mem' \in Store!Devices /\ mem' # Nothing
        BY <1>1, <2>1, DeviceValues
    <2>3. /\ call' \in [Store!Jobs -> Calls] /\ call'[j].pc = "touch"
          /\ \A o \in Store!Jobs \ {j} : call'[o] = call[o]
        BY <1>1, <2>1, GoesTo DEF Labels
    <2> QED
        BY <1>1, <2>1, <2>2, <2>3 DEF HandleEffect
<1>7. CASE Store!Touch(j)
    <2>1. mem \in Store!Devices /\ mem # Nothing
        BY <1>1, <1>7 DEF MemInv, Store!Touch, Known
    <2>2. [pc |-> "sync", dev |-> mem] \in Calls /\ Store!Idle \in Calls /\ Store!Idle.pc = "idle"
        BY <2>1, DeviceValues DEF Calls, Labels, Store!Idle
    <2>3. /\ call' = [call EXCEPT ![j] = [pc |-> "sync", dev |-> mem]] \/ call' = [call EXCEPT ![j] = Store!Idle]
          /\ UNCHANGED <<files, mem, exported, row, alone>>
        BY <1>7 DEF Store!Touch
    <2> QED
        BY <1>1, <2>1, <2>2, <2>3, GotoTyped DEF HandleEffect
<1>8. CASE Store!Accept(j)
    <2>1. mem \in Store!Devices /\ mem # Nothing
        BY <1>1, <1>8 DEF MemInv, Store!Accept, Known
    <2>2. /\ call' = [call EXCEPT ![j].pc = "acceptrow"] /\ UNCHANGED <<files, exported, row, alone>>
          /\ mem' = [mem EXCEPT !.base = IF mem.fim = Nothing THEN Store!Emptied ELSE mem.fim]
        BY <1>8 DEF Store!Accept, Store!Goto
    <2>3. (IF mem.fim = Nothing THEN Store!Emptied ELSE mem.fim) \in Contents \cup {Nothing, Store!Emptied}
        BY <2>1, DeviceValues
    <2>4. mem' \in Store!Devices /\ mem' # Nothing
        BY <2>1, <2>2, <2>3, DeviceValues
    <2>5. /\ call' \in [Store!Jobs -> Calls] /\ call'[j].pc = "acceptrow"
          /\ \A o \in Store!Jobs \ {j} : call'[o] = call[o]
        BY <1>1, <2>2, GoesTo DEF Labels
    <2> QED
        BY <1>1, <2>2, <2>4, <2>5 DEF HandleEffect
<1>9. CASE Store!AcceptRow(j)
    <2>1. mem # Nothing
        BY <1>9 DEF MemInv, Store!AcceptRow, Known
    <2>2. /\ call' = [call EXCEPT ![j].pc = "get"] /\ UNCHANGED <<files, mem, exported, alone>>
          /\ row' = Store!RowAccepts \/ row' = row
        BY <1>9 DEF Store!AcceptRow, Store!Goto
    <2>3. Store!RowAccepts \in Store!Devices \cup {Nothing}
        BY <1>1, DeviceValues DEF Store!RowAccepts
    <2>4. /\ call' \in [Store!Jobs -> Calls] /\ call'[j].pc = "get"
          /\ \A o \in Store!Jobs \ {j} : call'[o] = call[o]
        BY <1>1, <2>2, GoesTo DEF Labels
    <2> QED
        BY <1>1, <2>1, <2>2, <2>3, <2>4 DEF HandleEffect
<1>10. CASE Store!End(j)
    <2>1. Store!Idle \in Calls /\ Store!Idle.pc = "idle"
        BY DeviceValues DEF Store!Idle
    <2>2. call' = [call EXCEPT ![j] = Store!Idle] /\ UNCHANGED <<files, mem, exported, row, alone>>
        BY <1>10 DEF Store!End
    <2> QED
        BY <1>1, <2>1, <2>2, GotoTyped DEF HandleEffect, Known
<1> QED
    BY <1>3, <1>4, <1>5, <1>6, <1>7, <1>8, <1>9, <1>10 DEF Store!Handle

-----------------------------------------------------------------------------
\* A goroutine that goes on: where nobody came between, the others are idle.
LEMMA HandleKeeps ==
    ASSUME Store!WellFormed, CopiesIInv, NEW j \in Store!Jobs, Store!Handle(j)
    PROVE CopiesIInv'
<1>1. ~Store!At(j, "idle")
    BY DEF Store!Handle, Store!Apply, Store!GetMerged, Store!Sync, Store!Beat,
       Store!Touch, Store!Accept, Store!AcceptRow, Store!End, Store!At
<1>2. alone[j] /\ Store!At(j, "sync") => call[j].dev = mem
    BY DEF CopiesIInv, CopiesAlone
<1>3. HandleEffect(j)
    BY <1>2, HandleDoes DEF CopiesIInv
<1>4. \A o \in Store!Jobs \ {j} : ~alone'[o]
    BY <1>1, <1>3 DEF CopiesIInv, CopiesAlone, HandleEffect
<1>5. CopiesTypeOK'
    BY <1>3 DEF CopiesIInv, CopiesTypeOK, HandleEffect
<1>6. MemInv'
    BY <1>3 DEF CopiesIInv, MemInv, HandleEffect
<1>7. CopiesAlone'
    <2> SUFFICES ASSUME NEW i \in Store!Jobs, alone'[i]
                 PROVE /\ \A o \in Store!Jobs : o = i \/ call'[o].pc = "idle"
                       /\ call'[i].pc = "sync" => call'[i].dev = mem'
        BY DEF CopiesAlone, Store!At
    <2>1. i = j /\ alone[j]
        BY <1>3, <1>4 DEF HandleEffect
    <2> QED
        BY <1>3, <2>1 DEF CopiesIInv, CopiesAlone, HandleEffect, Store!At
<1>8. Store!AloneIsDurable'
    BY <1>3, <1>4 DEF HandleEffect, Store!AloneIsDurable, Store!SameBase, Store!At
<1> QED
    BY <1>5, <1>6, <1>7, <1>8 DEF CopiesIInv

\* A call that begins does not know the device yet; it is alone if all others are idle.
LEMMA BeginKeeps ==
    ASSUME Store!WellFormed, CopiesIInv, NEW j \in Store!Jobs, NEW kind, NEW label \in Labels \ {"sync", "end"},
           NEW dev \in Store!Devices, Store!Begin(j, kind, label, dev), label \in Known => mem # Nothing
    PROVE CopiesIInv'
<1> DEFINE c == [pc |-> label, dev |-> dev]
<1>1. /\ call' = [call EXCEPT ![j] = c] /\ UNCHANGED <<files, mem, exported, row>>
      /\ alone' = [i \in Store!Jobs |-> i = j /\ \A o \in Store!Jobs : Store!At(o, "idle")]
    BY DEF Store!Begin
<1>2. c \in Calls /\ c.pc = label
    BY DEF Calls
<1>3. call \in [Store!Jobs -> Calls]
    BY DEF CopiesIInv, CopiesTypeOK
<1> HIDE DEF c
<1>4. call' \in [Store!Jobs -> Calls] /\ call'[j] = c /\ \A o \in Store!Jobs \ {j} : call'[o] = call[o]
    BY <1>1, <1>2, <1>3, GotoTyped
<1>5. \A i \in Store!Jobs : alone'[i] \in BOOLEAN /\ (alone'[i] => i = j /\ \A o \in Store!Jobs : Store!At(o, "idle"))
    BY <1>1
<1>6. CopiesTypeOK'
    BY <1>1, <1>4, <1>5 DEF CopiesIInv, CopiesTypeOK
<1>7. MemInv'
    BY <1>1, <1>2, <1>4 DEF CopiesIInv, MemInv
<1>8. CopiesAlone'
    BY <1>2, <1>4, <1>5 DEF CopiesAlone, Store!At
<1>9. Store!AloneIsDurable'
    BY <1>2, <1>4, <1>5 DEF Store!AloneIsDurable, Store!At
<1> QED
    BY <1>6, <1>7, <1>8, <1>9 DEF CopiesIInv

\* Where the memory does not know the device, no goroutine alone is at a write.
LEMMA EnrollKeeps ==
    ASSUME Store!WellFormed, CopiesIInv, Store!Enroll
    PROVE CopiesIInv'
<1>1. /\ mem = Nothing /\ mem' = Store!Enrolled /\ row' \in {Store!Enrolled, row}
      /\ UNCHANGED <<files, exported, call, alone>>
    BY DEF Store!Enroll
<1>2. Store!Enrolled \in Store!Devices /\ Store!Enrolled # Nothing
    BY DeviceValues
<1>3. \A j \in Store!Jobs : call[j].pc \notin Known
    BY <1>1 DEF CopiesIInv, MemInv
<1>4. CopiesTypeOK'
    BY <1>1, <1>2 DEF CopiesIInv, CopiesTypeOK
<1>5. MemInv' /\ CopiesAlone' /\ Store!AloneIsDurable'
    BY <1>1, <1>2, <1>3 DEF CopiesIInv, MemInv, CopiesAlone, Store!AloneIsDurable,
       Store!At, Known
<1> QED
    BY <1>4, <1>5 DEF CopiesIInv

LEMMA RestartKeeps ==
    ASSUME Store!WellFormed, CopiesIInv, Store!Restart
    PROVE CopiesIInv'
<1>1. /\ mem' = IF row = Nothing THEN exported ELSE row
      /\ call' = [j \in Store!Jobs |-> Store!Idle] /\ alone' = [j \in Store!Jobs |-> FALSE]
      /\ UNCHANGED <<files, exported, row>>
    BY DEF Store!Restart
<1>2. Store!Idle \in Calls /\ Store!Idle.pc = "idle"
    BY DeviceValues DEF Store!Idle
<1>3. CopiesTypeOK'
    BY <1>1, <1>2 DEF CopiesIInv, CopiesTypeOK
<1>4. \A j \in Store!Jobs : call'[j].pc = "idle" /\ ~alone'[j]
    BY <1>1, <1>2
<1>5. MemInv' /\ CopiesAlone' /\ Store!AloneIsDurable'
    BY <1>4 DEF MemInv, CopiesAlone, Store!AloneIsDurable, Known
<1> QED
    BY <1>3, <1>5 DEF CopiesIInv

LEMMA CopiesStep ==
    ASSUME Store!WellFormed, CopiesIInv, [Store!Next]_(Store!vars)
    PROVE CopiesIInv'
<1>1. ASSUME Store!Enroll PROVE CopiesIInv'
    BY <1>1, EnrollKeeps
<1>2. ASSUME Store!HostChanges PROVE CopiesIInv'
    <2>1. files' \in Contents \cup {Nothing} /\ UNCHANGED <<mem, exported, row, call, alone>>
        BY <1>2 DEF Store!HostChanges
    <2> QED
        BY <2>1 DEF CopiesIInv, CopiesTypeOK, MemInv, CopiesAlone, Store!AloneIsDurable,
           Store!SameBase, Store!At
<1>3. ASSUME Store!Flush PROVE CopiesIInv'
    <2>1. exported' = mem /\ UNCHANGED <<files, mem, row, call, alone>>
        BY <1>3 DEF Store!Flush
    <2> QED
        BY <2>1 DEF CopiesIInv, CopiesTypeOK, MemInv, CopiesAlone, Store!AloneIsDurable,
           Store!SameBase, Store!At
<1>4. ASSUME Store!Restart PROVE CopiesIInv'
    BY <1>4, RestartKeeps
<1>5. ASSUME NEW j \in Store!Jobs, Store!Call(j) PROVE CopiesIInv'
    <2>1. CASE Store!BeginReport(j)
        <3>1. [Store!Enrolled EXCEPT !.fim = files] \in Store!Devices
            BY DeviceValues DEF CopiesIInv, CopiesTypeOK
        <3>2. Store!Begin(j, Reporters, "apply", [Store!Enrolled EXCEPT !.fim = files])
            BY <2>1 DEF Store!BeginReport
        <3> HIDE DEF Store!Enrolled
        <3>3. "apply" \in Labels \ {"sync", "end"} /\ "apply" \notin Known
            BY DEF Labels, Known
        <3> QED
            BY <3>1, <3>2, <3>3, BeginKeeps
    <2>2. CASE Store!BeginHeartbeat(j)
        <3>1. Store!Begin(j, Beaters, "beat", Store!Enrolled) /\ Store!Enrolled \in Store!Devices
            BY <2>2, DeviceValues DEF Store!BeginHeartbeat
        <3>2. "beat" \in Labels \ {"sync", "end"} /\ "beat" \notin Known
            BY DEF Labels, Known
        <3> QED
            BY <3>1, <3>2, BeginKeeps
    <2> QED
        BY <1>5, <2>1, <2>2 DEF Store!Call
<1>6. ASSUME NEW j \in Store!Jobs, Store!BeginAccept(j) PROVE CopiesIInv'
    <2>1. Store!Begin(j, Admins, "accept", Store!Enrolled) /\ Store!Enrolled \in Store!Devices /\ mem # Nothing
        BY <1>6, DeviceValues DEF Store!BeginAccept
    <2>2. "accept" \in Labels \ {"sync", "end"}
        BY DEF Labels
    <2> QED
        BY <2>1, <2>2, BeginKeeps
<1>7. ASSUME NEW j \in Store!Jobs, Store!Handle(j) PROVE CopiesIInv'
    BY <1>7, HandleKeeps
<1>8. CASE UNCHANGED Store!vars
    BY <1>8 DEF Store!vars, CopiesIInv, CopiesTypeOK, MemInv, CopiesAlone,
       Store!AloneIsDurable, Store!SameBase, Store!At
<1> QED
    BY <1>1, <1>2, <1>3, <1>4, <1>5, <1>6, <1>7, <1>8 DEF Store!Next

LEMMA CopiesInit ==
    ASSUME Store!WellFormed, Store!Init
    PROVE CopiesIInv
<1>1. /\ files \in Contents /\ mem = Nothing /\ exported = Nothing /\ row = Nothing
      /\ call = [j \in Store!Jobs |-> Store!Idle] /\ alone = [j \in Store!Jobs |-> FALSE]
    BY DEF Store!Init, Store!WellFormed
<1>2. Store!Idle \in Calls /\ Store!Idle.pc = "idle"
    BY DeviceValues DEF Store!Idle
<1> QED
    BY <1>1, <1>2 DEF CopiesIInv, CopiesTypeOK, MemInv, CopiesAlone,
       Store!AloneIsDurable, Store!At, Known

-----------------------------------------------------------------------------
LEMMA CopiesInvariance ==
    Store!WellFormed => (Store!Init /\ [][Store!Next]_(Store!vars) => []CopiesIInv)
<1> SUFFICES ASSUME Store!WellFormed PROVE Store!Init /\ [][Store!Next]_(Store!vars) => []CopiesIInv
    OBVIOUS
<1>1. CopiesIInv /\ [Store!Next]_(Store!vars) => CopiesIInv'
    BY CopiesStep
<1>2. Store!Init => CopiesIInv
    BY CopiesInit
<1> QED
    BY <1>1, <1>2, PTL

\* HandleBaseline, ReportInventory, UpsertDevice, Seed: an acceptance, or a report, that
\* nobody came between and whose last write did not fail is what a restart brings back:
\* the row holds the memory's files, and its baseline unless that is of no files.
THEOREM DurableAlone == Store!WellFormed => (DevicesSpec => []AloneIsDurable)
<1> SUFFICES ASSUME Store!WellFormed PROVE DevicesSpec => []AloneIsDurable
    OBVIOUS
<1>1. CopiesIInv => AloneIsDurable
    BY DEF CopiesIInv, AloneIsDurable
<1>2. DevicesInit => Store!Init
    BY DEF DevicesInit
<1>3. [DevicesNext]_all => [Store!Next]_(Store!vars)
    BY DEF DevicesNext, all, store, Store!vars
<1>4. Store!Init /\ [][Store!Next]_(Store!vars) => []CopiesIInv
    BY CopiesInvariance
<1> QED
    BY <1>1, <1>2, <1>3, <1>4, PTL DEF DevicesSpec

\* The alerts behave beside Presence as they do alone.
THEOREM SideBySide == DevicesSpec => Spec
<1>1. DevicesInit => Init
    BY DEF DevicesInit
<1>2. [DevicesNext]_all => [Next]_vars
    BY DEF DevicesNext, all
<1> QED
    BY <1>1, <1>2, PTL DEF DevicesSpec, Spec

=============================================================================
