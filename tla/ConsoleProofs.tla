----------------------------- MODULE ConsoleProofs -----------------------------
(***************************************************************************)
(* Proofs about what the console shows and who gets to see it.             *)
(*                                                                         *)
(* The life of findings (Findings): however many matches of a host         *)
(* overlap, for any keys and inventories, the rows are what the recorded   *)
(* matches agree on, and a finding that comes back keeps its past.         *)
(*                                                                         *)
(* First-run setup (Accounts): it makes one administrator, for any number  *)
(* of setup pages, links, administrators' requests and sign-ins.           *)
(*                                                                         *)
(* The matcher (Matcher): what its loops compute does not depend on the    *)
(* order of their rows, a patched host is never flagged, and a finding     *)
(* names a version that ends it, for inventories and feeds of any length.  *)
(***************************************************************************)
EXTENDS Console, FiniteSetTheorems, WellFoundedInduction, TLAPS

Times == 0..MaxMatches
Prints == [inv : Inventories, snap : Nat]
Intervals == [key : Keys, opened : Times, closed : Times, why : Resolutions]
Owns == UNION {[S -> RowType] : S \in SUBSET Keys}
Stages == {"archive", "upsert", "close", "commit"}

Txs == [pc : Stages, inv : Inventories, print : Prints, found : SUBSET Keys, start : Times,
        own : Owns, kept : SUBSET Intervals, stale : SUBSET Keys, alone : BOOLEAN]

Jobs ==
    {Idle} \cup [pc : {"lookup"}, inv : Inventories]
           \cup [pc : {"match"}, inv : Inventories, print : Prints]
           \cup [pc : {"begin"}, inv : Inventories, print : Prints, found : SUBSET Keys]
           \cup Txs
           \cup [pc : {"remember"}, print : Prints]

\* The shape of the rows, the history and the goroutines.
TypeOK ==
    /\ host \in Inventories
    /\ reports \in Nat /\ snapshot \in Nat /\ loading \in BOOLEAN /\ ranges \subseteq VulnKeys
    /\ seen \in Prints \cup {NoPrint}
    /\ job \in [Matchers -> Jobs]
    /\ rows \in [Keys -> RowType] /\ before \in [Keys -> RowType]
    /\ intervals \subseteq Intervals
    /\ locks \in [Keys -> Matchers \cup {Nobody}]
    /\ clock \in Times
    /\ batch \subseteq [inv : Inventories, found : SUBSET Keys]

\* A match can speak of a key: an advisory's always, a repository's with evidence.
Judges(inv, k) == k \in VulnKeys \/ inv.assessed

FoundIn(bs, k) == \E b \in bs : k \in b.found

-----------------------------------------------------------------------------
\* What a transaction has written is what its match says.
TxOK(t) ==
    /\ \A k \in t.found \cup t.stale : Judges(t.inv, k)
    /\ t.stale \cap t.found = {}
    /\ t.pc = "archive" => t.kept = {}
    /\ t.pc \in {"archive", "upsert"} => t.stale = {} /\ DOMAIN t.own \subseteq t.found
    /\ t.pc = "close" => DOMAIN t.own = t.found
    /\ t.pc = "commit" => DOMAIN t.own = t.found \cup t.stale
    /\ \A k \in DOMAIN t.own \cap t.found : t.own[k].open /\ t.own[k].last = t.start
    /\ \A k \in DOMAIN t.own \ t.found : ~t.own[k].open /\ t.own[k].why = Classify(t.inv, k)

\* Only the writer of a row changes it, from what is committed.
OwnOK(m, t) ==
    \A k \in DOMAIN t.own :
        /\ locks[k] = m
        /\ t.own[k].last <= clock
        /\ t.own[k].first = IF t.own[k].open /\ ~rows[k].open THEN t.start ELSE rows[k].first

\* A row or an interval never carries the time of a transaction under way.
FreshOK(t) ==
    /\ t.start <= clock
    /\ \A k \in Keys : rows[k].first # t.start
    /\ \A i \in intervals : i.opened # t.start

\* A row last seen since a transaction began was found by a match recorded since.
SweptOK(t) == \A k \in Keys : rows[k].last >= t.start => FoundIn(batch, k)

\* What the transaction judges and did not find, it closes, or it is closed, or
\* another has found it.
StaleOK(t) ==
    t.pc \in {"close", "commit"} =>
        \A k \in Keys \ t.found :
            Judges(t.inv, k) => k \in t.stale \/ ~rows[k].open \/ FoundIn(batch, k)

\* An interval to be kept is of a row found, and not of its present life.
KeptOK(t) ==
    \A i \in t.kept :
        /\ i.key \in t.found /\ i.opened <= clock
        /\ rows[i.key].open => rows[i.key].first # i.opened

\* One that meets no other keeps all that is about to begin a new life.
AloneOK(m, t) ==
    t.alone => /\ Running = {m}
               /\ t.pc # "archive" =>
                     \A k \in t.found : Closed(rows[k]) => Interval(k, rows[k]) \in t.kept

\* Two transactions under way.
PairOK(t, u) ==
    /\ t.start # u.start
    /\ \A i \in u.kept : i.opened # t.start
    /\ \A k \in DOMAIN u.own \ u.found : u.own[k].last >= t.start => FoundIn(batch, k)

TxInv ==
    \A m \in Matchers :
        InTx(m) => /\ TxOK(job[m]) /\ OwnOK(m, job[m]) /\ FreshOK(job[m]) /\ SweptOK(job[m])
                   /\ StaleOK(job[m]) /\ KeptOK(job[m]) /\ AloneOK(m, job[m])
                   /\ \A i \in job[m].kept : i.opened # job[m].start

PairInv == \A m, n \in Matchers : m # n /\ InTx(m) /\ InTx(n) => PairOK(job[m], job[n])

BeginInv ==
    \A m \in Matchers : job[m].pc = "begin" => \A k \in job[m].found : Judges(job[m].inv, k)

\* The rows carry no time to come; an interval is of an earlier life of its row.
RowInv ==
    /\ \A k \in Keys : rows[k].first <= clock /\ rows[k].last <= clock
    /\ \A i \in intervals : i.opened <= clock /\ i.opened # rows[i.key].first

\* The rows against the matches recorded since transactions last overlapped none.
GroupInv ==
    \A k \in Keys :
        LET judged == {b \in batch : Judges(b.inv, k)} IN
        /\ (\A b \in batch : k \in b.found) /\ batch # {} => rows[k].open
        /\ ~FoundIn(batch, k) /\ judged # {} => ~rows[k].open
        /\ judged = {} => rows[k] = before[k]
        /\ ~FoundIn(batch, k) =>
              rows[k] = before[k] \/ rows[k].why \in {Classify(b.inv, k) : b \in judged}

IInv == TypeOK /\ BeginInv /\ TxInv /\ PairInv /\ RowInv /\ GroupInv

-----------------------------------------------------------------------------
(* Goroutines and what they hold.                                          *)

\* A goroutine's label says what it holds.
LEMMA JobShapes ==
    ASSUME TypeOK, NEW m \in Matchers
    PROVE /\ job[m] \in Jobs
          /\ InTx(m) <=> job[m].pc \in Stages
          /\ InTx(m) => job[m] \in Txs
          /\ job[m].pc = "lookup" => job[m] \in [pc : {"lookup"}, inv : Inventories]
          /\ job[m].pc = "match" => job[m] \in [pc : {"match"}, inv : Inventories, print : Prints]
          /\ job[m].pc = "begin" =>
                job[m] \in [pc : {"begin"}, inv : Inventories, print : Prints, found : SUBSET Keys]
          /\ job[m].pc = "remember" => job[m] \in [pc : {"remember"}, print : Prints]
<1>1. job[m] \in Jobs
    BY DEF TypeOK
<1>2. \A t \in Txs : t.pc \in Stages
    BY DEF Txs
<1>3. InTx(m) <=> job[m].pc \in Stages
    BY DEF InTx, Stages
<1>4. CASE job[m] = Idle
    BY <1>1, <1>3, <1>4 DEF Idle, Stages
<1>5. CASE job[m] \in [pc : {"lookup"}, inv : Inventories]
    BY <1>1, <1>3, <1>5 DEF Stages
<1>6. CASE job[m] \in [pc : {"match"}, inv : Inventories, print : Prints]
    BY <1>1, <1>3, <1>6 DEF Stages
<1>7. CASE job[m] \in [pc : {"begin"}, inv : Inventories, print : Prints, found : SUBSET Keys]
    BY <1>1, <1>3, <1>7 DEF Stages
<1>8. CASE job[m] \in Txs
    BY <1>1, <1>2, <1>3, <1>8 DEF Stages
<1>9. CASE job[m] \in [pc : {"remember"}, print : Prints]
    BY <1>1, <1>3, <1>9 DEF Stages
<1> QED
    BY <1>1, <1>4, <1>5, <1>6, <1>7, <1>8, <1>9 DEF Jobs

\* The fields of a transaction.
LEMMA TxFields ==
    ASSUME NEW t \in Txs
    PROVE /\ t.pc \in Stages /\ t.inv \in Inventories /\ t.print \in Prints
          /\ t.found \subseteq Keys /\ t.start \in Times /\ t.kept \subseteq Intervals
          /\ t.stale \subseteq Keys /\ t.alone \in BOOLEAN
          /\ DOMAIN t.own \subseteq Keys /\ t.own \in [DOMAIN t.own -> RowType]
<1>1. t.own \in Owns
    BY DEF Txs
<1>2. PICK S \in SUBSET Keys : t.own \in [S -> RowType]
    BY <1>1 DEF Owns
<1>3. DOMAIN t.own = S
    BY <1>2
<1> QED
    BY <1>2, <1>3 DEF Txs

\* A label of a transaction and its other fields make one again.
LEMMA OwnsIntro ==
    ASSUME NEW S \in SUBSET Keys, NEW f \in [S -> RowType]
    PROVE f \in Owns
BY DEF Owns

\* The times are numbers.
LEMMA TimesAreNat ==
    /\ MaxMatches \in Nat
    /\ Times \subseteq Nat
    /\ \A r \in RowType : /\ r.first \in Nat /\ r.last \in Nat /\ r.closed \in Nat
                          /\ r.open \in BOOLEAN /\ r.why \in Resolutions
    /\ \A i \in Intervals : i.key \in Keys /\ i.opened \in Nat
BY BoundsAssumption DEF Times, RowType, Intervals

-----------------------------------------------------------------------------
(* Steps that leave the rows and the history as they are.                  *)

Settled == <<rows, intervals, clock, batch, before>>

\* What is left of the transactions when some end without a trace.
LEMMA QuietStep ==
    ASSUME TypeOK, TxInv, PairInv, RowInv, GroupInv, UNCHANGED Settled,
           \A n \in Matchers : InTx(n)' => InTx(n) /\ job'[n] = job[n],
           \A n \in Matchers, k \in Keys : InTx(n)' /\ locks[k] = n => locks'[k] = n
    PROVE TxInv' /\ PairInv' /\ RowInv' /\ GroupInv'
<1>1. RowInv' /\ GroupInv'
    BY DEF RowInv, GroupInv, Settled, FoundIn
<1>2. ASSUME NEW m \in Matchers, InTx(m)'
      PROVE /\ TxOK(job[m])' /\ OwnOK(m, job[m])' /\ FreshOK(job[m])' /\ SweptOK(job[m])'
            /\ StaleOK(job[m])' /\ KeptOK(job[m])' /\ AloneOK(m, job[m])'
            /\ (\A i \in job[m].kept : i.opened # job[m].start)'
    <2>1. InTx(m) /\ job'[m] = job[m] /\ job[m] \in Txs
        BY <1>2, JobShapes
    <2>2. /\ TxOK(job[m]) /\ OwnOK(m, job[m]) /\ FreshOK(job[m]) /\ SweptOK(job[m])
          /\ StaleOK(job[m]) /\ KeptOK(job[m]) /\ AloneOK(m, job[m])
          /\ \A i \in job[m].kept : i.opened # job[m].start
        BY <2>1 DEF TxInv
    <2>3. TxOK(job[m])' /\ (\A i \in job[m].kept : i.opened # job[m].start)'
        BY <2>1, <2>2 DEF TxOK
    <2>4. OwnOK(m, job[m])'
        BY <1>2, <2>1, <2>2, TxFields DEF OwnOK, Settled
    <2>5. FreshOK(job[m])' /\ SweptOK(job[m])' /\ StaleOK(job[m])' /\ KeptOK(job[m])'
        BY <2>1, <2>2 DEF FreshOK, SweptOK, StaleOK, KeptOK, Settled, FoundIn
    <2>6. AloneOK(m, job[m])'
        <3>1. Running = {m} => Running' = {m}
            BY <1>2 DEF Running
        <3> QED
            BY <2>1, <2>2, <3>1 DEF AloneOK, Settled, Closed, Interval
    <2> QED
        BY <2>3, <2>4, <2>5, <2>6
<1>3. TxInv'
    BY <1>2 DEF TxInv
<1>4. PairInv'
    <2> SUFFICES ASSUME NEW m \in Matchers, NEW n \in Matchers, m # n, InTx(m)', InTx(n)'
                 PROVE PairOK(job[m], job[n])'
        BY DEF PairInv
    <2>1. InTx(m) /\ InTx(n) /\ job'[m] = job[m] /\ job'[n] = job[n]
        OBVIOUS
    <2>2. PairOK(job[m], job[n])
        BY <2>1 DEF PairInv
    <2> QED
        BY <2>1, <2>2 DEF PairOK, FoundIn, Settled
<1> QED
    BY <1>1, <1>3, <1>4

\* A goroutine that is in no transaction, and comes into none.
LEMMA OutsideStep ==
    ASSUME IInv, NEW m \in Matchers, NEW w \in Jobs, w.pc \notin Stages,
           job' = [job EXCEPT ![m] = w], ~InTx(m), UNCHANGED data,
           w.pc = "begin" => \A k \in w.found : Judges(w.inv, k)
    PROVE job' \in [Matchers -> Jobs] /\ BeginInv' /\ TxInv' /\ PairInv' /\ RowInv' /\ GroupInv'
<1>1. job' \in [Matchers -> Jobs] /\ job'[m] = w /\ \A n \in Matchers \ {m} : job'[n] = job[n]
    BY DEF IInv, TypeOK
<1>2. BeginInv'
    BY <1>1 DEF IInv, BeginInv
<1>3. \A n \in Matchers : InTx(n)' => InTx(n) /\ job'[n] = job[n]
    BY <1>1 DEF InTx, Stages
<1>4. TxInv' /\ PairInv' /\ RowInv' /\ GroupInv'
    BY <1>3, QuietStep DEF IInv, data, Settled
<1> QED
    BY <1>1, <1>2, <1>4

\* The feed runner touches no transaction.
LEMMA LoadStep ==
    ASSUME IInv, LoadStarts \/ LoadCommits \/ LoadEnds
    PROVE IInv'
<1>1. UNCHANGED <<host, reports, seen, job, data>>
    BY DEF LoadStarts, LoadCommits, LoadEnds
<1>2. TypeOK'
    <2>1. snapshot' \in Nat /\ loading' \in BOOLEAN /\ ranges' \subseteq VulnKeys
        <3>1. snapshot \in Nat /\ loading \in BOOLEAN /\ ranges \subseteq VulnKeys
            BY DEF IInv, TypeOK
        <3>2. CASE LoadStarts
            BY <3>1, <3>2 DEF LoadStarts
        <3>3. CASE LoadCommits
            BY <3>1, <3>3 DEF LoadCommits
        <3>4. CASE LoadEnds
            BY <3>1, <3>4 DEF LoadEnds
        <3> QED
            BY <3>2, <3>3, <3>4
    <2> QED
        BY <1>1, <2>1 DEF IInv, TypeOK, data
<1>3. \A n \in Matchers : InTx(n)' => InTx(n) /\ job'[n] = job[n]
    BY <1>1 DEF InTx
<1>4. BeginInv' /\ TxInv' /\ PairInv' /\ RowInv' /\ GroupInv'
    BY <1>1, <1>3, QuietStep DEF IInv, data, Settled, BeginInv
<1> QED
    BY <1>2, <1>4 DEF IInv

\* What Match finds, the inventory speaks of.
LEMMA FoundIsJudged ==
    ASSUME NEW inv, NEW known \in SUBSET VulnKeys
    PROVE Found(inv, known) \subseteq Keys /\ \A k \in Found(inv, known) : Judges(inv, k)
BY DEF Found, Judges, Keys

\* Up to the transaction.
LEMMA MatchStep ==
    ASSUME IInv, NEW m \in Matchers, Match(m)
    PROVE IInv'
<1>1. UNCHANGED <<feed, seen, data>>
    BY DEF Match, ReportInventory, ListDevices, LookUpSnapshot, Unchanged, QueryRanges, GiveUp
<1>2. SUFFICES ASSUME host' \in Inventories, reports' \in Nat,
                      NEW w \in Jobs, w.pc \notin Stages, job' = [job EXCEPT ![m] = w], ~InTx(m),
                      w.pc = "begin" => \A k \in w.found : Judges(w.inv, k)
               PROVE IInv'
    <2>1. job[m] \in Jobs /\ host \in Inventories /\ reports \in Nat /\ snapshot \in Nat /\ ranges \subseteq VulnKeys
        BY JobShapes DEF IInv, TypeOK
    <2>2. Idle \in Jobs /\ Idle.pc \notin Stages /\ Idle.pc # "begin"
        BY DEF Jobs, Idle, Stages
    <2>3. CASE ReportInventory(m)
        <3>1. PICK inv \in Inventories :
                  host' = inv /\ job' = [job EXCEPT ![m] = [pc |-> "lookup", inv |-> inv]]
            BY <2>3 DEF ReportInventory
        <3>2. [pc |-> "lookup", inv |-> inv] \in Jobs
            BY DEF Jobs
        <3>3. ~InTx(m) /\ reports' \in Nat /\ host' \in Inventories
            BY <2>1, <2>3, <3>1 DEF ReportInventory, InTx, Idle
        <3> QED
            BY <1>2, <3>1, <3>2, <3>3 DEF Stages
    <2>4. CASE ListDevices(m)
        <3>1. [pc |-> "lookup", inv |-> host] \in Jobs
            BY <2>1 DEF Jobs
        <3>2. ~InTx(m) /\ host' = host /\ reports' = reports
              /\ job' = [job EXCEPT ![m] = [pc |-> "lookup", inv |-> host]]
            BY <2>4 DEF ListDevices, InTx, Idle
        <3> QED
            BY <1>2, <2>1, <3>1, <3>2 DEF Stages
    <2>5. CASE LookUpSnapshot(m)
        <3>1. job[m].inv \in Inventories
            BY <2>5, JobShapes DEF IInv, LookUpSnapshot
        <3>2. [pc |-> "match", inv |-> job[m].inv, print |-> Fingerprint(job[m].inv, snapshot)] \in Jobs
            BY <2>1, <3>1 DEF Jobs, Prints, Fingerprint
        <3> QED
            BY <1>2, <2>1, <2>5, <3>2 DEF LookUpSnapshot, InTx, Stages
    <2>6. CASE Unchanged(m)
        BY <1>2, <2>1, <2>2, <2>6 DEF Unchanged, InTx, Stages
    <2>7. CASE QueryRanges(m)
        <3>1. job[m].inv \in Inventories /\ job[m].print \in Prints
            BY <2>7, JobShapes DEF IInv, QueryRanges
        <3> DEFINE w == [pc |-> "begin", inv |-> job[m].inv, print |-> job[m].print,
                         found |-> Found(job[m].inv, ranges)]
        <3>2. w.found \subseteq Keys /\ \A k \in w.found : Judges(w.inv, k)
            BY <2>1, FoundIsJudged
        <3>3. w \in Jobs
            BY <3>1, <3>2 DEF Jobs
        <3>4. job' = [job EXCEPT ![m] = w] /\ ~InTx(m) /\ w.pc \notin Stages
            BY <2>7 DEF QueryRanges, InTx, Stages
        <3> QED
            BY <1>2, <2>1, <2>7, <3>2, <3>3, <3>4 DEF QueryRanges
    <2>8. CASE GiveUp(m)
        BY <1>2, <2>1, <2>2, <2>8 DEF GiveUp, InTx, Stages
    <2> QED
        BY <2>3, <2>4, <2>5, <2>6, <2>7, <2>8 DEF Match
<1>3. job' \in [Matchers -> Jobs] /\ BeginInv' /\ TxInv' /\ PairInv' /\ RowInv' /\ GroupInv'
    BY <1>1, <1>2, OutsideStep
<1>4. TypeOK'
    BY <1>1, <1>2, <1>3 DEF IInv, TypeOK, feed, data
<1> QED
    BY <1>3, <1>4 DEF IInv

\* After the commit.
LEMMA RememberStep ==
    ASSUME IInv, NEW m \in Matchers, Remember(m)
    PROVE IInv'
<1>1. job[m].print \in Prints
    BY JobShapes DEF IInv, Remember
<1>2. Idle \in Jobs /\ Idle.pc \notin Stages /\ Idle.pc # "begin" /\ ~InTx(m)
    BY DEF Jobs, Idle, Stages, Remember, InTx
<1>3. job' \in [Matchers -> Jobs] /\ BeginInv' /\ TxInv' /\ PairInv' /\ RowInv' /\ GroupInv'
    BY <1>2, OutsideStep DEF Remember
<1>4. TypeOK'
    BY <1>1, <1>3 DEF IInv, TypeOK, Remember, feed, data
<1> QED
    BY <1>3, <1>4 DEF IInv

\* Transactions that end without a trace: of one goroutine, or of all.
LEMMA UndoneStep ==
    ASSUME IInv, Restart \/ \E m \in Matchers : Rollback(m)
    PROVE IInv'
<1>1. UNCHANGED <<host, reports, feed>> /\ UNCHANGED Settled /\ seen' \in Prints \cup {NoPrint}
    BY DEF Restart, Rollback, Settled, IInv, TypeOK
<1>2. Idle \in Jobs /\ Idle.pc \notin Stages /\ Idle.pc # "begin"
    BY DEF Jobs, Idle, Stages
<1>3. /\ job' \in [Matchers -> Jobs]
      /\ \A n \in Matchers : job'[n] = Idle \/ job'[n] = job[n]
      /\ locks' \in [Keys -> Matchers \cup {Nobody}]
      /\ \A n \in Matchers, k \in Keys : job'[n] # Idle /\ locks[k] = n => locks'[k] = n
    <2>1. job \in [Matchers -> Jobs] /\ locks \in [Keys -> Matchers \cup {Nobody}]
        BY DEF IInv, TypeOK
    <2>2. CASE Restart
        BY <1>2, <2>1, <2>2 DEF Restart
    <2>3. ASSUME NEW m \in Matchers, Rollback(m)
          PROVE <1>3!1 /\ <1>3!2 /\ <1>3!3 /\ <1>3!4
        BY <1>2, <2>1, <2>3 DEF Rollback, Unlocked
    <2> QED
        BY <2>2, <2>3
<1>4. \A n \in Matchers : InTx(n)' => InTx(n) /\ job'[n] = job[n] /\ job'[n] # Idle
    BY <1>2, <1>3 DEF InTx, Stages
<1>5. TxInv' /\ PairInv' /\ RowInv' /\ GroupInv'
    BY <1>1, <1>3, <1>4, QuietStep DEF IInv
<1>6. BeginInv'
    BY <1>2, <1>3 DEF IInv, BeginInv
<1>7. TypeOK'
    BY <1>1, <1>3 DEF IInv, TypeOK, feed, Settled
<1> QED
    BY <1>5, <1>6, <1>7 DEF IInv

-----------------------------------------------------------------------------
(* The statements of a transaction before its commit.                      *)

\* The transaction's record replaced by another that is as sound.
LEMMA StatementStep ==
    ASSUME IInv, NEW m \in Matchers, InTx(m), NEW w \in Txs, job' = [job EXCEPT ![m] = w],
           UNCHANGED Settled, UNCHANGED <<host, reports, feed, seen>>,
           locks' \in [Keys -> Matchers \cup {Nobody}],
           \A n \in Matchers \ {m}, k \in Keys : locks[k] = n => locks'[k] = n,
           w.start = job[m].start, w.alone = job[m].alone,
           TxOK(w), StaleOK(w), KeptOK(w), AloneOK(m, w),
           \A i \in w.kept : i.opened # w.start,
           \A k \in DOMAIN w.own :
               /\ locks'[k] = m
               /\ w.own[k].last <= clock
               /\ w.own[k].first = IF w.own[k].open /\ ~rows[k].open THEN w.start ELSE rows[k].first,
           \A n \in Matchers \ {m} : InTx(n) => PairOK(job[n], w)
    PROVE IInv'
<1>1. /\ job' \in [Matchers -> Jobs] /\ job'[m] = w
      /\ \A n \in Matchers \ {m} : job'[n] = job[n]
    BY DEF IInv, TypeOK, Jobs
<1>2. w.pc \in Stages /\ InTx(m)'
    BY <1>1, TxFields DEF InTx, Stages
<1>3. \A n \in Matchers \ {m} : InTx(n)' <=> InTx(n)
    BY <1>1 DEF InTx
<1>4. Running' = Running
    BY <1>2, <1>3 DEF Running
<1>5. TypeOK' /\ RowInv' /\ GroupInv'
    <2>1. TypeOK'
        BY <1>1 DEF IInv, TypeOK, Settled, feed
    <2>2. RowInv' /\ GroupInv'
        BY DEF IInv, RowInv, GroupInv, Settled, FoundIn
    <2> QED
        BY <2>1, <2>2
<1>6. BeginInv'
    BY <1>1, <1>2 DEF IInv, BeginInv, Stages
<1>7. ASSUME NEW n \in Matchers, InTx(n)'
      PROVE /\ TxOK(job[n])' /\ OwnOK(n, job[n])' /\ FreshOK(job[n])' /\ SweptOK(job[n])'
            /\ StaleOK(job[n])' /\ KeptOK(job[n])' /\ AloneOK(n, job[n])'
            /\ (\A i \in job[n].kept : i.opened # job[n].start)'
    <2>1. CASE n = m
        <3>1. FreshOK(job[m]) /\ SweptOK(job[m])
            BY DEF IInv, TxInv
        <3>2. FreshOK(job[m])' /\ SweptOK(job[m])'
            BY <1>1, <3>1 DEF FreshOK, SweptOK, Settled, FoundIn
        <3>3. TxOK(job[m])' /\ (\A i \in job[m].kept : i.opened # job[m].start)'
            BY <1>1 DEF TxOK
        <3>4. OwnOK(m, job[m])'
            BY <1>1 DEF OwnOK, Settled
        <3>5. StaleOK(job[m])' /\ KeptOK(job[m])'
            BY <1>1 DEF StaleOK, KeptOK, Settled, FoundIn
        <3>6. AloneOK(m, job[m])'
            BY <1>1, <1>4 DEF AloneOK, Settled, Closed, Interval
        <3> QED
            BY <2>1, <3>2, <3>3, <3>4, <3>5, <3>6
    <2>2. CASE n # m
        <3>1. InTx(n) /\ job'[n] = job[n] /\ job[n] \in Txs
            BY <1>1, <1>3, <1>7, <2>2, JobShapes DEF IInv
        <3>2. /\ TxOK(job[n]) /\ OwnOK(n, job[n]) /\ FreshOK(job[n]) /\ SweptOK(job[n])
              /\ StaleOK(job[n]) /\ KeptOK(job[n]) /\ AloneOK(n, job[n])
              /\ \A i \in job[n].kept : i.opened # job[n].start
            BY <3>1 DEF IInv, TxInv
        <3>3. TxOK(job[n])' /\ (\A i \in job[n].kept : i.opened # job[n].start)'
            BY <3>1, <3>2 DEF TxOK
        <3>4. OwnOK(n, job[n])'
            BY <2>2, <3>1, <3>2, TxFields DEF OwnOK, Settled
        <3>5. FreshOK(job[n])' /\ SweptOK(job[n])' /\ StaleOK(job[n])' /\ KeptOK(job[n])'
            BY <3>1, <3>2 DEF FreshOK, SweptOK, StaleOK, KeptOK, Settled, FoundIn
        <3>6. AloneOK(n, job[n])'
            BY <1>4, <3>1, <3>2 DEF AloneOK, Settled, Closed, Interval
        <3> QED
            BY <3>3, <3>4, <3>5, <3>6
    <2> QED
        BY <2>1, <2>2
<1>8. TxInv'
    BY <1>7 DEF TxInv
<1>9. PairInv'
    <2> SUFFICES ASSUME NEW p \in Matchers, NEW q \in Matchers, p # q, InTx(p)', InTx(q)'
                 PROVE PairOK(job[p], job[q])'
        BY DEF PairInv
    <2>1. InTx(p) /\ InTx(q) /\ PairOK(job[p], job[q])
        BY <1>3 DEF IInv, PairInv
    <2>2. CASE p = m
        BY <1>1, <2>1, <2>2 DEF PairOK, FoundIn, Settled
    <2>3. CASE q = m
        BY <1>1, <2>1, <2>3 DEF PairOK, FoundIn, Settled
    <2>4. CASE p # m /\ q # m
        BY <1>1, <2>1, <2>4 DEF PairOK, FoundIn, Settled
    <2> QED
        BY <2>2, <2>3, <2>4
<1> QED
    BY <1>5, <1>6, <1>8, <1>9 DEF IInv

\* What the invariant says of a transaction.
LEMMA TxKnown ==
    ASSUME IInv, NEW m \in Matchers, InTx(m)
    PROVE /\ job[m] \in Txs /\ job \in [Matchers -> Jobs] /\ rows \in [Keys -> RowType]
          /\ locks \in [Keys -> Matchers \cup {Nobody}]
          /\ TxOK(job[m]) /\ OwnOK(m, job[m]) /\ FreshOK(job[m]) /\ SweptOK(job[m])
          /\ StaleOK(job[m]) /\ KeptOK(job[m]) /\ AloneOK(m, job[m])
          /\ \A i \in job[m].kept : i.opened # job[m].start
          /\ \A n \in Matchers \ {m} :
                InTx(n) => PairOK(job[n], job[m]) /\ FreshOK(job[n]) /\ SweptOK(job[n])
<1>1. job[m] \in Txs /\ job \in [Matchers -> Jobs] /\ rows \in [Keys -> RowType]
      /\ locks \in [Keys -> Matchers \cup {Nobody}]
    BY JobShapes DEF IInv, TypeOK
<1> QED
    BY <1>1 DEF IInv, TxInv, PairInv

\* The interval of a row is an interval.
LEMMA IntervalType ==
    ASSUME NEW k \in Keys, NEW row \in RowType
    PROVE Interval(k, row) \in Intervals
BY DEF Interval, Intervals, RowType, Times

\* archiveReopenedSQL
LEMMA ArchiveStep ==
    ASSUME IInv, NEW m \in Matchers, Archive(m)
    PROVE IInv'
<1> DEFINE mine == {Interval(k, rows[k]) : k \in {k \in job[m].found : Closed(rows[k])}}
           u == [job[m] EXCEPT !.pc = "upsert"]
           w == [u EXCEPT !.kept = mine]
<1>1. InTx(m) /\ job[m].pc = "archive"
    BY DEF Archive, InTx
<1>2. /\ job[m] \in Txs /\ TxOK(job[m]) /\ OwnOK(m, job[m]) /\ FreshOK(job[m])
      /\ AloneOK(m, job[m]) /\ rows \in [Keys -> RowType]
      /\ locks \in [Keys -> Matchers \cup {Nobody}]
    BY <1>1, TxKnown
<1>3. \A n \in Matchers \ {m} : InTx(n) => PairOK(job[n], job[m]) /\ FreshOK(job[n])
    BY <1>1, TxKnown
<1>4. job[m].found \subseteq Keys
    BY <1>2, TxFields
<1>5. mine \subseteq Intervals
    BY <1>2, <1>4, IntervalType
<1>6. /\ w \in Txs /\ w.pc = "upsert" /\ w.kept = mine
      /\ w.inv = job[m].inv /\ w.found = job[m].found /\ w.start = job[m].start
      /\ w.own = job[m].own /\ w.stale = job[m].stale /\ w.alone = job[m].alone
    BY <1>2, <1>5 DEF Txs, Stages
<1>7. job' = [job EXCEPT ![m] = w]
    BY DEF Archive
<1> HIDE DEF w, u
<1>8. \A i \in mine : \E k \in job[m].found :
          i.key = k /\ i.opened = rows[k].first /\ Closed(rows[k])
    BY DEF Interval
<1>9. TxOK(w) /\ StaleOK(w)
    BY <1>1, <1>2, <1>6 DEF TxOK, StaleOK
<1>10. KeptOK(w)
    BY <1>4, <1>6, <1>8 DEF KeptOK, Closed, IInv, RowInv
<1>11. AloneOK(m, w)
    BY <1>2, <1>6 DEF AloneOK
<1>12. \A i \in w.kept : i.opened # w.start
    BY <1>2, <1>4, <1>6, <1>8 DEF FreshOK
<1>13. \A k \in DOMAIN w.own :
           /\ locks'[k] = m
           /\ w.own[k].last <= clock
           /\ w.own[k].first = IF w.own[k].open /\ ~rows[k].open THEN w.start ELSE rows[k].first
    BY <1>2, <1>6 DEF OwnOK, Archive, data
<1>14. \A n \in Matchers \ {m} : InTx(n) => PairOK(job[n], w)
    BY <1>3, <1>4, <1>6, <1>8 DEF PairOK, FreshOK
<1>15. UNCHANGED Settled /\ UNCHANGED <<host, reports, feed, seen>> /\ locks' = locks
    BY DEF Archive, data, Settled
<1> HIDE DEF mine
<1> QED
    BY <1>1, <1>2, <1>6, <1>7, <1>9, <1>10, <1>11, <1>12, <1>13, <1>14, <1>15, StatementStep

\* A row confirmed is a row.
LEMMA ConfirmedType ==
    ASSUME NEW row \in RowType, NEW start \in Times
    PROVE Confirmed(row, start) \in RowType
<1>1. ASSUME NEW first \in Times
      PROVE [open |-> TRUE, first |-> first, last |-> start, closed |-> 0, why |-> ""] \in RowType
    <2>1. 0 \in Times /\ "" \in Resolutions
        BY BoundsAssumption DEF Times, Resolutions
    <2>2. RowType = [open : BOOLEAN, first : Times, last : Times, closed : Times, why : Resolutions]
        BY DEF RowType, Times
    <2> QED
        BY <2>1, <2>2
<1>2. row.first \in Times
    BY DEF RowType, Times
<1> QED
    BY <1>1, <1>2 DEF Confirmed

\* upsertFindingSQL
LEMMA UpsertStep ==
    ASSUME IInv, NEW m \in Matchers, NEW k \in Keys, Upsert(m, k)
    PROVE IInv'
<1> DEFINE f == [x \in DOMAIN job[m].own \cup {k} |->
                    IF x = k THEN Confirmed(rows[k], job[m].start) ELSE job[m].own[x]]
           w == [job[m] EXCEPT !.own = f]
<1>1. /\ InTx(m) /\ job[m].pc = "upsert" /\ k \in job[m].found /\ k \notin DOMAIN job[m].own
      /\ locks[k] = Nobody
    BY DEF Upsert, InTx
<1>2. /\ job[m] \in Txs /\ TxOK(job[m]) /\ OwnOK(m, job[m]) /\ KeptOK(job[m])
      /\ AloneOK(m, job[m]) /\ FreshOK(job[m]) /\ rows \in [Keys -> RowType]
      /\ locks \in [Keys -> Matchers \cup {Nobody}]
      /\ \A i \in job[m].kept : i.opened # job[m].start
    BY <1>1, TxKnown
<1>3. \A n \in Matchers \ {m} : InTx(n) => PairOK(job[n], job[m])
    BY <1>1, TxKnown
<1>4. /\ DOMAIN job[m].own \subseteq Keys /\ job[m].own \in [DOMAIN job[m].own -> RowType]
      /\ job[m].start \in Times
    BY <1>2, TxFields
<1>5. rows[k] \in RowType
    BY <1>2
<1>6. Confirmed(rows[k], job[m].start) \in RowType
    BY <1>4, <1>5, ConfirmedType
<1>7. f \in [DOMAIN job[m].own \cup {k} -> RowType]
    BY <1>4, <1>6
<1>8. f \in Owns
    BY <1>4, <1>7, OwnsIntro
<1>9. /\ w \in Txs /\ w.pc = "upsert" /\ w.own = f /\ w.kept = job[m].kept
      /\ w.inv = job[m].inv /\ w.found = job[m].found /\ w.start = job[m].start
      /\ w.stale = job[m].stale /\ w.alone = job[m].alone
    BY <1>1, <1>2, <1>8 DEF Txs
<1>10. job' = [job EXCEPT ![m] = w] /\ locks' = [locks EXCEPT ![k] = m]
    BY DEF Upsert
<1>11. /\ DOMAIN f = DOMAIN job[m].own \cup {k}
       /\ f[k].open /\ f[k].last = job[m].start
       /\ f[k].first = IF rows[k].open THEN rows[k].first ELSE job[m].start
       /\ \A x \in DOMAIN job[m].own : f[x] = job[m].own[x]
    BY <1>1 DEF Confirmed
<1> HIDE DEF w, f
<1>12. TxOK(w) /\ StaleOK(w)
    BY <1>1, <1>2, <1>9, <1>11 DEF TxOK, StaleOK
<1>13. KeptOK(w) /\ AloneOK(m, w) /\ \A i \in w.kept : i.opened # w.start
    BY <1>1, <1>2, <1>9 DEF KeptOK, AloneOK
<1>14. \A x \in DOMAIN w.own :
           /\ locks'[x] = m
           /\ w.own[x].last <= clock
           /\ w.own[x].first = IF w.own[x].open /\ ~rows[x].open THEN w.start ELSE rows[x].first
    BY <1>1, <1>2, <1>4, <1>9, <1>10, <1>11 DEF OwnOK, FreshOK
<1>15. \A n \in Matchers \ {m} : InTx(n) => PairOK(job[n], w)
    BY <1>1, <1>3, <1>9, <1>11 DEF PairOK
<1>16. /\ locks' \in [Keys -> Matchers \cup {Nobody}]
       /\ \A n \in Matchers \ {m}, x \in Keys : locks[x] = n => locks'[x] = n
    BY <1>1, <1>2, <1>10, MatchersAssumption
<1>17. UNCHANGED Settled /\ UNCHANGED <<host, reports, feed, seen>>
    BY DEF Upsert, Settled
<1> QED
    BY <1>1, <1>9, <1>10, <1>12, <1>13, <1>14, <1>15, <1>16, <1>17, StatementStep

\* staleFindingsSQL
LEMMA SelectStep ==
    ASSUME IInv, NEW m \in Matchers, SelectStale(m)
    PROVE IInv'
<1> DEFINE u == [job[m] EXCEPT !.pc = "close"]
           w == [u EXCEPT !.stale = Unconfirmed(m)]
<1>1. InTx(m) /\ job[m].pc = "upsert" /\ job[m].found = DOMAIN job[m].own
    BY DEF SelectStale, InTx
<1>2. /\ job[m] \in Txs /\ TxOK(job[m]) /\ OwnOK(m, job[m]) /\ KeptOK(job[m])
      /\ AloneOK(m, job[m]) /\ SweptOK(job[m]) /\ rows \in [Keys -> RowType]
      /\ locks \in [Keys -> Matchers \cup {Nobody}]
      /\ \A i \in job[m].kept : i.opened # job[m].start
    BY <1>1, TxKnown
<1>3. \A n \in Matchers \ {m} : InTx(n) => PairOK(job[n], job[m])
    BY <1>1, TxKnown
<1>4. job[m].found \subseteq Keys /\ job[m].start \in Times /\ job[m].start \in Nat
    BY <1>2, TxFields, TimesAreNat
<1>5. Unconfirmed(m) \subseteq Keys
    BY DEF Unconfirmed
<1>6. /\ w \in Txs /\ w.pc = "close" /\ w.stale = Unconfirmed(m) /\ w.kept = job[m].kept
      /\ w.inv = job[m].inv /\ w.found = job[m].found /\ w.start = job[m].start
      /\ w.own = job[m].own /\ w.alone = job[m].alone
    BY <1>2, <1>5 DEF Txs, Stages
<1>7. job' = [job EXCEPT ![m] = w]
    BY DEF SelectStale
<1> HIDE DEF w, u
<1>8. \A k \in Unconfirmed(m) : k \notin job[m].found /\ Judges(job[m].inv, k)
    BY <1>1, <1>2, <1>4 DEF Unconfirmed, Seen, TxOK, Judges, Keys
<1>9. TxOK(w)
    BY <1>1, <1>2, <1>6, <1>8 DEF TxOK
<1>10. StaleOK(w)
    <2> SUFFICES ASSUME NEW k \in Keys \ job[m].found, Judges(job[m].inv, k),
                        k \notin Unconfirmed(m), rows[k].open
                 PROVE FoundIn(batch, k)
        BY <1>6 DEF StaleOK
    <2>1. Seen(m, k) = rows[k] /\ (k \in RepoKeys => job[m].inv.assessed)
        BY <1>1, KeysAssumption DEF Seen, Judges
    <2>2. rows[k].last \in Nat
        BY <1>2, TimesAreNat
    <2>3. rows[k].last >= job[m].start
        BY <1>4, <2>1, <2>2 DEF Unconfirmed
    <2> QED
        BY <1>2, <2>3 DEF SweptOK
<1>11. KeptOK(w) /\ AloneOK(m, w) /\ \A i \in w.kept : i.opened # w.start
    BY <1>1, <1>2, <1>6 DEF KeptOK, AloneOK
<1>12. \A k \in DOMAIN w.own :
           /\ locks'[k] = m
           /\ w.own[k].last <= clock
           /\ w.own[k].first = IF w.own[k].open /\ ~rows[k].open THEN w.start ELSE rows[k].first
    BY <1>2, <1>6 DEF OwnOK, SelectStale, data
<1>13. \A n \in Matchers \ {m} : InTx(n) => PairOK(job[n], w)
    BY <1>3, <1>6 DEF PairOK
<1>14. UNCHANGED Settled /\ UNCHANGED <<host, reports, feed, seen>> /\ locks' = locks
    BY DEF SelectStale, data, Settled
<1> QED
    BY <1>1, <1>2, <1>6, <1>7, <1>9, <1>10, <1>11, <1>12, <1>13, <1>14, StatementStep

\* Why a finding closed is one of the resolutions the column allows.
LEMMA ClassifyType ==
    ASSUME NEW inv \in Inventories, NEW k \in Keys
    PROVE Classify(inv, k) \in Resolutions
<1>1. /\ inv.packages \in [VulnKeys -> {"vulnerable", "patched", "absent"}]
      /\ inv.repos \in [RepoKeys -> {"broken", "healthy", "gone"}]
      /\ inv.assessed \in BOOLEAN
    BY InventoriesAssumption
<1>2. CASE k \in VulnKeys
    <2>1. k \notin RepoKeys
        BY <1>2, KeysAssumption
    <2>2. inv.packages[k] \in {"vulnerable", "patched", "absent"}
        BY <1>1, <1>2
    <2> QED
        BY <1>2, <2>1, <2>2 DEF Classify, Resolutions
<1>3. CASE k \in RepoKeys
    <2>1. k \notin VulnKeys
        BY <1>3, KeysAssumption
    <2> QED
        BY <1>1, <1>3, <2>1 DEF Classify, Resolutions
<1> QED
    BY <1>2, <1>3 DEF Keys

\* closeFindingsSQL
LEMMA CloseStep ==
    ASSUME IInv, NEW m \in Matchers, CloseStale(m)
    PROVE IInv'
<1> DEFINE S == job[m].stale
           shut(k) == [rows[k] EXCEPT !.open = FALSE, !.closed = job[m].start,
                                      !.why = Classify(job[m].inv, k)]
           f == [k \in DOMAIN job[m].own \cup S |-> IF k \in S THEN shut(k) ELSE job[m].own[k]]
           u == [job[m] EXCEPT !.pc = "commit"]
           w == [u EXCEPT !.own = f]
<1>1. InTx(m) /\ job[m].pc = "close" /\ \A k \in S : locks[k] = Nobody
    BY DEF CloseStale, InTx
<1>2. /\ job[m] \in Txs /\ TxOK(job[m]) /\ OwnOK(m, job[m]) /\ KeptOK(job[m])
      /\ AloneOK(m, job[m]) /\ StaleOK(job[m]) /\ rows \in [Keys -> RowType]
      /\ locks \in [Keys -> Matchers \cup {Nobody}]
      /\ \A i \in job[m].kept : i.opened # job[m].start
    BY <1>1, TxKnown
<1>3. \A n \in Matchers \ {m} : InTx(n) => PairOK(job[n], job[m]) /\ SweptOK(job[n])
    BY <1>1, TxKnown
<1>4. /\ DOMAIN job[m].own \subseteq Keys /\ job[m].own \in [DOMAIN job[m].own -> RowType]
      /\ job[m].start \in Times /\ S \subseteq Keys /\ job[m].inv \in Inventories
    BY <1>2, TxFields
<1>5. /\ DOMAIN job[m].own = job[m].found /\ S \cap job[m].found = {}
      /\ \A k \in S : Judges(job[m].inv, k)
    BY <1>1, <1>2 DEF TxOK
<1>6. ASSUME NEW k \in S
      PROVE /\ shut(k) \in RowType /\ ~shut(k).open /\ shut(k).why = Classify(job[m].inv, k)
            /\ shut(k).first = rows[k].first /\ shut(k).last = rows[k].last
    <2>1. rows[k] \in RowType /\ Classify(job[m].inv, k) \in Resolutions
        BY <1>2, <1>4, ClassifyType
    <2> QED
        BY <1>4, <2>1 DEF RowType, Times
<1> HIDE DEF shut
<1>7. /\ DOMAIN f = DOMAIN job[m].own \cup S
      /\ \A k \in S : f[k] = shut(k)
      /\ \A k \in DOMAIN job[m].own : f[k] = job[m].own[k]
    BY <1>5
<1>8. f \in Owns
    <2>1. f \in [DOMAIN job[m].own \cup S -> RowType]
        BY <1>4, <1>6
    <2> QED
        BY <1>4, <2>1, OwnsIntro
<1>9. /\ w \in Txs /\ w.pc = "commit" /\ w.own = f /\ w.kept = job[m].kept
      /\ w.inv = job[m].inv /\ w.found = job[m].found /\ w.start = job[m].start
      /\ w.stale = S /\ w.alone = job[m].alone
    BY <1>2, <1>8 DEF Txs, Stages
<1>10. /\ job' = [job EXCEPT ![m] = w]
       /\ locks' = [k \in Keys |-> IF k \in S THEN m ELSE locks[k]]
    BY DEF CloseStale, shut
<1> HIDE DEF w, u, f
<1>11. TxOK(w)
    BY <1>1, <1>2, <1>5, <1>6, <1>7, <1>9 DEF TxOK
<1>12. KeptOK(w) /\ AloneOK(m, w) /\ StaleOK(w) /\ \A i \in w.kept : i.opened # w.start
    BY <1>1, <1>2, <1>9 DEF KeptOK, AloneOK, StaleOK
<1>13. \A k \in DOMAIN w.own :
           /\ locks'[k] = m
           /\ w.own[k].last <= clock
           /\ w.own[k].first = IF w.own[k].open /\ ~rows[k].open THEN w.start ELSE rows[k].first
    BY <1>2, <1>4, <1>6, <1>7, <1>9, <1>10 DEF OwnOK, IInv, RowInv
<1>14. ASSUME NEW n \in Matchers \ {m}, InTx(n)
       PROVE PairOK(job[n], w)
    <2>1. \A k \in DOMAIN w.own \ w.found : k \in S /\ k \in Keys /\ w.own[k].last = rows[k].last
        BY <1>4, <1>5, <1>6, <1>7, <1>9
    <2> QED
        BY <1>3, <1>9, <1>14, <2>1 DEF PairOK, SweptOK
<1>15. /\ locks' \in [Keys -> Matchers \cup {Nobody}]
       /\ \A n \in Matchers \ {m}, k \in Keys : locks[k] = n => locks'[k] = n
    BY <1>1, <1>2, <1>10, MatchersAssumption
<1>16. UNCHANGED Settled /\ UNCHANGED <<host, reports, feed, seen>>
    BY DEF CloseStale, Settled
<1> HIDE DEF S
<1> QED
    BY <1>1, <1>9, <1>10, <1>11, <1>12, <1>13, <1>14, <1>15, <1>16, StatementStep

-----------------------------------------------------------------------------
(* A transaction begins.                                                   *)

\* What a transaction begins with, and what it does to those it meets.
LEMMA BeginDoes ==
    ASSUME IInv, NEW m \in Matchers, BeginTx(m)
    PROVE /\ clock \in Nat /\ clock' = clock + 1 /\ clock' \in Times
          /\ m \notin Running /\ Running' = Running \cup {m}
          /\ UNCHANGED <<host, reports, feed, seen, rows, intervals, locks>>
          /\ batch' = (IF Running = {} THEN {} ELSE batch)
          /\ before' = (IF Running = {} THEN rows ELSE before)
          /\ job' \in [Matchers -> Jobs] /\ InTx(m)'
          /\ job'[m].pc = "archive" /\ job'[m].start = clock + 1 /\ DOMAIN job'[m].own = {}
          /\ job'[m].kept = {} /\ job'[m].stale = {} /\ (job'[m].alone <=> Running = {})
          /\ \A k \in job'[m].found : Judges(job'[m].inv, k)
          /\ \A n \in Matchers \ {m} :
                /\ InTx(n)' <=> InTx(n)
                /\ ~InTx(n) => job'[n] = job[n]
                /\ InTx(n) =>
                      /\ job'[n].pc = job[n].pc /\ job'[n].inv = job[n].inv
                      /\ job'[n].found = job[n].found /\ job'[n].start = job[n].start
                      /\ job'[n].own = job[n].own /\ job'[n].kept = job[n].kept
                      /\ job'[n].stale = job[n].stale /\ ~job'[n].alone
<1> DEFINE w == [pc |-> "archive", inv |-> job[m].inv, print |-> job[m].print,
                 found |-> job[m].found, start |-> clock + 1, own |-> [k \in {} |-> NoRow],
                 kept |-> {}, stale |-> {}, alone |-> Running = {}]
           v(n) == [job[n] EXCEPT !.alone = FALSE]
<1>1. /\ job[m].pc = "begin" /\ clock < MaxMatches /\ clock' = clock + 1
      /\ job' = [n \in Matchers |-> IF n = m THEN w
                                    ELSE IF n \in Running THEN v(n) ELSE job[n]]
    BY DEF BeginTx
<1>2. clock \in Nat /\ clock + 1 \in Times
    BY <1>1, BoundsAssumption DEF IInv, TypeOK, Times
<1>3. m \notin Running /\ job[m].inv \in Inventories /\ job[m].print \in Prints /\ job[m].found \subseteq Keys
      /\ \A k \in job[m].found : Judges(job[m].inv, k)
    BY <1>1, JobShapes DEF Running, InTx, IInv, BeginInv
<1>4. w \in Txs
    <2>1. w.own \in [{} -> RowType]
        OBVIOUS
    <2>2. w.own \in Owns
        BY <2>1, OwnsIntro
    <2>3. w.alone \in BOOLEAN /\ w.pc \in Stages
        BY DEF Stages
    <2> QED
        BY <1>2, <1>3, <2>2, <2>3 DEF Txs
<1>5. ASSUME NEW n \in Matchers, InTx(n)
      PROVE /\ v(n) \in Txs /\ v(n).pc = job[n].pc /\ v(n).inv = job[n].inv
            /\ v(n).found = job[n].found /\ v(n).start = job[n].start
            /\ v(n).own = job[n].own /\ v(n).kept = job[n].kept
            /\ v(n).stale = job[n].stale /\ ~v(n).alone
    <2>1. job[n] \in Txs
        BY <1>5, JobShapes DEF IInv
    <2> QED
        BY <2>1 DEF Txs
<1>6. /\ w.pc = "archive" /\ w.start = clock + 1 /\ DOMAIN w.own = {} /\ w.kept = {}
      /\ w.stale = {} /\ (w.alone <=> Running = {}) /\ w.inv = job[m].inv /\ w.found = job[m].found
    OBVIOUS
<1> HIDE DEF w, v
<1>7. /\ job'[m] = w
      /\ \A n \in Matchers \ {m} : job'[n] = IF InTx(n) THEN v(n) ELSE job[n]
    BY <1>1 DEF Running
<1>8. job' \in [Matchers -> Jobs]
    <2>1. \A n \in Matchers : job[n] \in Jobs
        BY DEF IInv, TypeOK
    <2>2. \A n \in Matchers : job'[n] \in Jobs
        BY <1>4, <1>5, <1>7, <2>1 DEF Jobs
    <2> QED
        BY <1>1, <2>2
<1>9. InTx(m)' /\ \A n \in Matchers \ {m} : InTx(n)' <=> InTx(n)
    BY <1>5, <1>6, <1>7 DEF InTx
<1>10. Running' = Running \cup {m}
    BY <1>9 DEF Running
<1>11. /\ UNCHANGED <<host, reports, feed, seen, rows, intervals, locks>>
       /\ batch' = (IF Running = {} THEN {} ELSE batch)
       /\ before' = (IF Running = {} THEN rows ELSE before)
    BY DEF BeginTx
<1> QED
    BY <1>1, <1>2, <1>3, <1>5, <1>6, <1>7, <1>8, <1>9, <1>10, <1>11

\* Beginning keeps the invariant.
LEMMA BeginStep ==
    ASSUME IInv, NEW m \in Matchers, BeginTx(m)
    PROVE IInv'
<1>1. /\ clock \in Nat /\ clock' = clock + 1 /\ clock' \in Times
      /\ m \notin Running /\ Running' = Running \cup {m}
      /\ UNCHANGED <<host, reports, feed, seen, rows, intervals, locks>>
      /\ batch' = (IF Running = {} THEN {} ELSE batch)
      /\ before' = (IF Running = {} THEN rows ELSE before)
      /\ job' \in [Matchers -> Jobs] /\ InTx(m)'
    BY BeginDoes
<1>2. /\ job'[m].pc = "archive" /\ job'[m].start = clock + 1 /\ DOMAIN job'[m].own = {}
      /\ job'[m].kept = {} /\ job'[m].stale = {} /\ (job'[m].alone <=> Running = {})
      /\ \A k \in job'[m].found : Judges(job'[m].inv, k)
    BY BeginDoes
<1>3. \A n \in Matchers \ {m} :
          /\ InTx(n)' <=> InTx(n)
          /\ ~InTx(n) => job'[n] = job[n]
          /\ InTx(n) =>
                /\ job'[n].pc = job[n].pc /\ job'[n].inv = job[n].inv
                /\ job'[n].found = job[n].found /\ job'[n].start = job[n].start
                /\ job'[n].own = job[n].own /\ job'[n].kept = job[n].kept
                /\ job'[n].stale = job[n].stale /\ ~job'[n].alone
    BY BeginDoes
<1>4. \A n \in Matchers : InTx(n) => batch' = batch
    BY <1>1 DEF Running
<1>5. /\ \A k \in Keys : rows[k].first \in Nat /\ rows[k].last \in Nat
      /\ \A k \in Keys : rows[k].first <= clock /\ rows[k].last <= clock
      /\ \A i \in intervals : i.opened \in Nat /\ i.opened <= clock
    BY TimesAreNat DEF IInv, TypeOK, RowInv
<1>6. TypeOK'
    <2>1. before' \in [Keys -> RowType] /\ batch' \subseteq [inv : Inventories, found : SUBSET Keys]
        BY <1>1 DEF IInv, TypeOK
    <2> QED
        BY <1>1, <2>1 DEF IInv, TypeOK, feed
<1>7. BeginInv'
    BY <1>2, <1>3 DEF IInv, BeginInv, InTx
<1>8. RowInv'
    BY <1>1, <1>5 DEF IInv, RowInv
<1>9. GroupInv'
    <2>1. CASE Running = {}
        BY <1>1, <2>1 DEF GroupInv, FoundIn
    <2>2. CASE Running # {}
        BY <1>1, <2>2 DEF IInv, GroupInv, FoundIn
    <2> QED
        BY <2>1, <2>2
<1>10. ASSUME NEW n \in Matchers, InTx(n)
       PROVE /\ n # m /\ job[n] \in Txs /\ batch' = batch
             /\ TxOK(job[n]) /\ OwnOK(n, job[n]) /\ FreshOK(job[n]) /\ SweptOK(job[n])
             /\ StaleOK(job[n]) /\ KeptOK(job[n]) /\ \A i \in job[n].kept : i.opened # job[n].start
             /\ job[n].start \in Nat /\ job[n].start <= clock
             /\ \A i \in job[n].kept : i.opened \in Nat /\ i.opened <= clock
             /\ DOMAIN job[n].own \subseteq Keys
             /\ \A k \in DOMAIN job[n].own : job[n].own[k].last \in Nat /\ job[n].own[k].last <= clock
    <2>1. job[n] \in Txs /\ TxOK(job[n]) /\ OwnOK(n, job[n]) /\ FreshOK(job[n]) /\ SweptOK(job[n])
          /\ StaleOK(job[n]) /\ KeptOK(job[n]) /\ \A i \in job[n].kept : i.opened # job[n].start
        BY <1>10, TxKnown
    <2>2. job[n].start \in Nat /\ job[n].kept \subseteq Intervals /\ DOMAIN job[n].own \subseteq Keys
          /\ job[n].own \in [DOMAIN job[n].own -> RowType]
        BY <2>1, TxFields, TimesAreNat
    <2>3. n # m /\ batch' = batch
        BY <1>1, <1>4, <1>10 DEF Running
    <2>4. \A k \in DOMAIN job[n].own : job[n].own[k].last \in Nat /\ job[n].own[k].last <= clock
        BY <2>1, <2>2, TimesAreNat DEF OwnOK
    <2>5. \A i \in job[n].kept : i.opened \in Nat /\ i.opened <= clock
        BY <2>1, <2>2, TimesAreNat DEF KeptOK
    <2> QED
        BY <2>1, <2>2, <2>3, <2>4, <2>5 DEF FreshOK
<1>11. ASSUME NEW n \in Matchers, InTx(n)'
       PROVE /\ TxOK(job[n])' /\ OwnOK(n, job[n])' /\ FreshOK(job[n])' /\ SweptOK(job[n])'
             /\ StaleOK(job[n])' /\ KeptOK(job[n])' /\ AloneOK(n, job[n])'
             /\ (\A i \in job[n].kept : i.opened # job[n].start)'
    <2>1. CASE n = m
        <3>1. TxOK(job[m])' /\ OwnOK(m, job[m])' /\ StaleOK(job[m])' /\ KeptOK(job[m])'
              /\ (\A i \in job[m].kept : i.opened # job[m].start)'
            BY <1>2 DEF TxOK, OwnOK, StaleOK, KeptOK
        <3>2. FreshOK(job[m])' /\ SweptOK(job[m])'
            BY <1>1, <1>2, <1>5 DEF FreshOK, SweptOK
        <3>3. AloneOK(m, job[m])'
            BY <1>1, <1>2 DEF AloneOK
        <3> QED
            BY <2>1, <3>1, <3>2, <3>3
    <2>2. CASE n # m
        <3>1. InTx(n)
            BY <1>3, <1>11, <2>2
        <3>2. TxOK(job[n])' /\ (\A i \in job[n].kept : i.opened # job[n].start)'
            BY <1>3, <1>10, <2>2, <3>1 DEF TxOK
        <3>3. OwnOK(n, job[n])'
            BY <1>1, <1>3, <1>10, <2>2, <3>1 DEF OwnOK
        <3>4. FreshOK(job[n])' /\ SweptOK(job[n])'
            BY <1>1, <1>3, <1>10, <2>2, <3>1 DEF FreshOK, SweptOK, FoundIn
        <3>5. StaleOK(job[n])' /\ KeptOK(job[n])'
            BY <1>1, <1>3, <1>10, <2>2, <3>1 DEF StaleOK, KeptOK, FoundIn
        <3>6. AloneOK(n, job[n])'
            BY <1>3, <2>2, <3>1 DEF AloneOK
        <3> QED
            BY <3>2, <3>3, <3>4, <3>5, <3>6
    <2> QED
        BY <2>1, <2>2
<1>12. TxInv'
    BY <1>11 DEF TxInv
<1>13. PairInv'
    <2> SUFFICES ASSUME NEW p \in Matchers, NEW q \in Matchers, p # q, InTx(p)', InTx(q)'
                 PROVE PairOK(job[p], job[q])'
        BY DEF PairInv
    <2>1. CASE p = m
        <3>1. InTx(q) /\ q # m
            BY <1>3, <2>1
        <3> QED
            BY <1>1, <1>2, <1>3, <1>10, <2>1, <3>1 DEF PairOK
    <2>2. CASE q = m
        <3>1. InTx(p) /\ p # m
            BY <1>3, <2>2
        <3> QED
            BY <1>1, <1>2, <1>3, <1>10, <2>2, <3>1 DEF PairOK
    <2>3. CASE p # m /\ q # m
        <3>1. InTx(p) /\ InTx(q) /\ PairOK(job[p], job[q])
            BY <1>3, <2>3 DEF IInv, PairInv
        <3> QED
            BY <1>3, <1>10, <2>3, <3>1 DEF PairOK, FoundIn
    <2> QED
        BY <2>1, <2>2, <2>3
<1> QED
    BY <1>6, <1>7, <1>8, <1>9, <1>12, <1>13 DEF IInv

-----------------------------------------------------------------------------
(* A transaction commits.                                                  *)

\* What a commit does, in terms of what the transaction holds.
LEMMA CommitDoes ==
    ASSUME IInv, NEW m \in Matchers, Commit(m)
    PROVE /\ InTx(m) /\ job[m].pc = "commit" /\ job[m] \in Txs
          /\ UNCHANGED <<host, reports, feed, seen, clock, before>>
          /\ job' \in [Matchers -> Jobs] /\ job'[m].pc = "remember"
          /\ \A n \in Matchers \ {m} : job'[n] = job[n]
          /\ \A k \in Keys : rows'[k] = IF k \in DOMAIN job[m].own THEN job[m].own[k] ELSE rows[k]
          /\ rows' \in [Keys -> RowType]
          /\ intervals \subseteq intervals' /\ intervals' \subseteq intervals \cup job[m].kept
          /\ \A i \in job[m].kept :
                (\A j \in intervals : j.key = i.key => j.opened # i.opened) => i \in intervals'
          /\ locks' \in [Keys -> Matchers \cup {Nobody}]
          /\ \A n \in Matchers \ {m}, k \in Keys : locks[k] = n => locks'[k] = n
          /\ batch' = batch \cup {[inv |-> job[m].inv, found |-> job[m].found]}
<1>1. InTx(m) /\ job[m].pc = "commit"
    BY DEF Commit, InTx
<1>2. job[m] \in Txs /\ job \in [Matchers -> Jobs] /\ rows \in [Keys -> RowType]
      /\ locks \in [Keys -> Matchers \cup {Nobody}]
    BY <1>1, TxKnown
<1>3. /\ DOMAIN job[m].own \subseteq Keys /\ job[m].own \in [DOMAIN job[m].own -> RowType]
      /\ job[m].print \in Prints
    BY <1>2, TxFields
<1>4. /\ job' \in [Matchers -> Jobs] /\ job'[m].pc = "remember"
      /\ \A n \in Matchers \ {m} : job'[n] = job[n]
    <2>1. job' = [job EXCEPT ![m] = [pc |-> "remember", print |-> job[m].print]]
        BY DEF Commit
    <2>2. [pc |-> "remember", print |-> job[m].print] \in Jobs
        BY <1>3 DEF Jobs
    <2> QED
        BY <1>2, <2>1, <2>2
<1>5. /\ \A k \in Keys : rows'[k] = IF k \in DOMAIN job[m].own THEN job[m].own[k] ELSE rows[k]
      /\ rows' \in [Keys -> RowType]
    BY <1>2, <1>3 DEF Commit, Seen
<1>6. /\ intervals \subseteq intervals' /\ intervals' \subseteq intervals \cup job[m].kept
      /\ \A i \in job[m].kept :
            (\A j \in intervals : j.key = i.key => j.opened # i.opened) => i \in intervals'
    BY DEF Commit
<1>7. /\ locks' \in [Keys -> Matchers \cup {Nobody}]
      /\ \A n \in Matchers \ {m}, k \in Keys : locks[k] = n => locks'[k] = n
    BY <1>2 DEF Commit, Unlocked
<1>8. /\ UNCHANGED <<host, reports, feed, seen, clock, before>>
      /\ batch' = batch \cup {[inv |-> job[m].inv, found |-> job[m].found]}
    BY DEF Commit
<1> QED
    BY <1>1, <1>2, <1>4, <1>5, <1>6, <1>7, <1>8

\* The committed rows after a commit: what was found is open, the rest of what was
\* written is closed, and a row's life begins anew only when it is reopened.
LEMMA CommitRows ==
    ASSUME IInv, NEW m \in Matchers, Commit(m), NEW k \in Keys
    PROVE /\ k \notin DOMAIN job[m].own => rows'[k] = rows[k]
          /\ k \in job[m].found => k \in DOMAIN job[m].own /\ rows'[k].open
          /\ k \in DOMAIN job[m].own \ job[m].found =>
                /\ k \in job[m].stale /\ ~rows'[k].open
                /\ rows'[k].why = Classify(job[m].inv, k)
                /\ rows'[k].last = job[m].own[k].last
          /\ k \in DOMAIN job[m].own => rows'[k].last <= clock /\ Judges(job[m].inv, k)
          /\ k \in job[m].stale => k \in DOMAIN job[m].own
          /\ rows'[k].first = rows[k].first
                \/ (rows'[k].first = job[m].start /\ ~rows[k].open)
          /\ rows'[k].open /\ ~rows[k].open => rows'[k].first = job[m].start /\ k \in job[m].found
<1>1. /\ InTx(m) /\ job[m].pc = "commit"
      /\ rows'[k] = IF k \in DOMAIN job[m].own THEN job[m].own[k] ELSE rows[k]
    BY CommitDoes
<1>2. TxOK(job[m]) /\ OwnOK(m, job[m])
    BY <1>1, TxKnown
<1>3. DOMAIN job[m].own = job[m].found \cup job[m].stale
    BY <1>1, <1>2 DEF TxOK
<1>4. CASE k \notin DOMAIN job[m].own
    BY <1>1, <1>3, <1>4
<1>5. CASE k \in DOMAIN job[m].own
    <2>1. /\ k \in job[m].found => job[m].own[k].open
          /\ k \notin job[m].found => ~job[m].own[k].open /\ job[m].own[k].why = Classify(job[m].inv, k)
          /\ Judges(job[m].inv, k)
        BY <1>2, <1>3, <1>5 DEF TxOK
    <2>2. /\ job[m].own[k].last <= clock
          /\ job[m].own[k].first = IF job[m].own[k].open /\ ~rows[k].open
                                   THEN job[m].start ELSE rows[k].first
        BY <1>2, <1>5 DEF OwnOK
    <2> QED
        BY <1>1, <1>3, <1>5, <2>1, <2>2
<1> QED
    BY <1>4, <1>5

\* Committing keeps the invariant.
LEMMA CommitStep ==
    ASSUME IInv, NEW m \in Matchers, Commit(m)
    PROVE IInv'
<1> DEFINE t == job[m]
           b == [inv |-> t.inv, found |-> t.found]
<1>1. /\ InTx(m) /\ t.pc = "commit" /\ t \in Txs
      /\ UNCHANGED <<host, reports, feed, seen, clock, before>>
      /\ job' \in [Matchers -> Jobs] /\ job'[m].pc = "remember"
      /\ \A n \in Matchers \ {m} : job'[n] = job[n]
      /\ rows' \in [Keys -> RowType]
      /\ intervals \subseteq intervals' /\ intervals' \subseteq intervals \cup t.kept
      /\ locks' \in [Keys -> Matchers \cup {Nobody}]
      /\ \A n \in Matchers \ {m}, k \in Keys : locks[k] = n => locks'[k] = n
      /\ batch' = batch \cup {b}
    BY CommitDoes
<1>2. TxOK(t) /\ OwnOK(m, t) /\ FreshOK(t) /\ StaleOK(t) /\ KeptOK(t)
      /\ \A i \in t.kept : i.opened # t.start
    BY <1>1, TxKnown
<1>3. /\ t.inv \in Inventories /\ t.found \subseteq Keys /\ t.kept \subseteq Intervals
      /\ t.stale \subseteq Keys /\ DOMAIN t.own \subseteq Keys
    BY <1>1, TxFields
<1>4. b.inv = t.inv /\ b.found = t.found /\ b \in [inv : Inventories, found : SUBSET Keys]
    BY <1>3
<1>5. \A k \in Keys :
          /\ k \notin DOMAIN t.own => rows'[k] = rows[k]
          /\ k \in t.found => k \in DOMAIN t.own /\ rows'[k].open
          /\ k \in DOMAIN t.own \ t.found =>
                /\ k \in t.stale /\ ~rows'[k].open
                /\ rows'[k].why = Classify(t.inv, k) /\ rows'[k].last = t.own[k].last
          /\ k \in DOMAIN t.own => rows'[k].last <= clock /\ Judges(t.inv, k)
          /\ k \in t.stale => k \in DOMAIN t.own
          /\ rows'[k].first = rows[k].first \/ (rows'[k].first = t.start /\ ~rows[k].open)
          /\ rows'[k].open /\ ~rows[k].open => rows'[k].first = t.start /\ k \in t.found
    BY CommitRows
<1>6. \A k : FoundIn(batch', k) <=> FoundIn(batch, k) \/ k \in t.found
    BY <1>1, <1>4 DEF FoundIn
<1> HIDE DEF t, b
<1>7. TypeOK'
    <2>1. batch' \subseteq [inv : Inventories, found : SUBSET Keys]
        BY <1>1, <1>4 DEF IInv, TypeOK
    <2>2. intervals' \subseteq Intervals
        BY <1>1, <1>3 DEF IInv, TypeOK
    <2> QED
        BY <1>1, <2>1, <2>2 DEF IInv, TypeOK, feed
<1>8. BeginInv'
    BY <1>1 DEF IInv, BeginInv
<1>9. RowInv'
    <2>1. \A k \in Keys : rows'[k].first <= clock /\ rows'[k].last <= clock
        BY <1>2, <1>5 DEF IInv, RowInv, FreshOK
    <2>2. ASSUME NEW i \in intervals'
          PROVE i.opened <= clock /\ i.opened # rows'[i.key].first
        <3>1. i.key \in Keys
            BY <1>1, <1>3, TimesAreNat DEF IInv, TypeOK
        <3>2. CASE i \in intervals
            BY <1>2, <1>5, <3>1, <3>2 DEF IInv, RowInv, FreshOK
        <3>3. CASE i \in t.kept
            <4>1. i.key \in t.found /\ i.opened <= clock /\ i.opened # t.start
                  /\ (rows[i.key].open => rows[i.key].first # i.opened)
                BY <1>2, <3>3 DEF KeptOK
            <4>2. rows'[i.key].open
                BY <1>5, <3>1, <4>1
            <4> QED
                BY <1>5, <3>1, <4>1, <4>2
        <3> QED
            BY <1>1, <3>2, <3>3
    <2> QED
        BY <1>1, <2>1, <2>2 DEF RowInv
<1>10. GroupInv'
    <2> SUFFICES ASSUME NEW k \in Keys
                 PROVE LET judged == {c \in batch' : Judges(c.inv, k)} IN
                       /\ (\A c \in batch' : k \in c.found) /\ batch' # {} => rows'[k].open
                       /\ ~FoundIn(batch', k) /\ judged # {} => ~rows'[k].open
                       /\ judged = {} => rows'[k] = before[k]
                       /\ ~FoundIn(batch', k) =>
                             \/ rows'[k] = before[k]
                             \/ rows'[k].why \in {Classify(c.inv, k) : c \in judged}
        BY <1>1 DEF GroupInv
    <2> DEFINE judged == {c \in batch : Judges(c.inv, k)}
               judgedNow == {c \in batch' : Judges(c.inv, k)}
    <2>1. judged \subseteq judgedNow /\ (Judges(t.inv, k) => b \in judgedNow)
          /\ (~Judges(t.inv, k) => judgedNow = judged) /\ b \in batch'
        BY <1>1, <1>4
    <2>2. /\ ~FoundIn(batch, k) /\ judged # {} => ~rows[k].open
          /\ judged = {} => rows[k] = before[k]
          /\ ~FoundIn(batch, k) =>
                rows[k] = before[k] \/ rows[k].why \in {Classify(c.inv, k) : c \in judged}
        BY DEF IInv, GroupInv
    <2> HIDE DEF judged, judgedNow
    <2>3. (\A c \in batch' : k \in c.found) => rows'[k].open
        BY <1>4, <1>5, <2>1
    <2>4. ~FoundIn(batch', k) /\ judgedNow # {} => ~rows'[k].open
        <3> SUFFICES ASSUME ~FoundIn(batch', k), judgedNow # {}, k \notin DOMAIN t.own
                     PROVE ~rows'[k].open
            BY <1>5, <1>6
        <3>1. rows'[k] = rows[k] /\ k \notin t.found /\ k \notin t.stale /\ ~FoundIn(batch, k)
            BY <1>5, <1>6
        <3>2. CASE Judges(t.inv, k)
            BY <1>1, <1>2, <3>1, <3>2 DEF StaleOK
        <3>3. CASE ~Judges(t.inv, k)
            BY <2>1, <2>2, <3>1, <3>3
        <3> QED
            BY <3>2, <3>3
    <2>5. judgedNow = {} => rows'[k] = before[k]
        BY <1>5, <2>1, <2>2
    <2>6. ~FoundIn(batch', k) =>
              rows'[k] = before[k] \/ rows'[k].why \in {Classify(c.inv, k) : c \in judgedNow}
        <3> SUFFICES ASSUME ~FoundIn(batch', k)
                     PROVE rows'[k] = before[k] \/ \E c \in judgedNow : rows'[k].why = Classify(c.inv, k)
            OBVIOUS
        <3>1. CASE k \in DOMAIN t.own
            BY <1>4, <1>5, <1>6, <2>1, <3>1
        <3>2. CASE k \notin DOMAIN t.own
            BY <1>5, <1>6, <2>1, <2>2, <3>2
        <3> QED
            BY <3>1, <3>2
    <2> QED
        BY <2>3, <2>4, <2>5, <2>6 DEF judgedNow
<1>11. ASSUME NEW n \in Matchers, InTx(n)'
       PROVE /\ n # m /\ InTx(n) /\ job'[n] = job[n] /\ job[n] \in Txs
             /\ TxOK(job[n]) /\ OwnOK(n, job[n]) /\ FreshOK(job[n]) /\ SweptOK(job[n])
             /\ StaleOK(job[n]) /\ KeptOK(job[n]) /\ AloneOK(n, job[n])
             /\ \A i \in job[n].kept : i.opened # job[n].start
             /\ PairOK(job[n], t) /\ PairOK(t, job[n])
             /\ DOMAIN job[n].own \subseteq Keys /\ job[n].kept \subseteq Intervals
    <2>1. n # m
        BY <1>1, <1>11 DEF InTx
    <2>2. InTx(n) /\ job'[n] = job[n]
        BY <1>1, <1>11, <2>1 DEF InTx
    <2>3. PairOK(job[n], t) /\ PairOK(t, job[n])
        BY <1>1, <2>1, <2>2 DEF IInv, PairInv, t
    <2> QED
        BY <2>1, <2>2, <2>3, TxKnown, TxFields
<1>12. ASSUME NEW n \in Matchers, InTx(n)'
       PROVE /\ TxOK(job[n])' /\ OwnOK(n, job[n])' /\ FreshOK(job[n])' /\ SweptOK(job[n])'
             /\ StaleOK(job[n])' /\ KeptOK(job[n])' /\ AloneOK(n, job[n])'
             /\ (\A i \in job[n].kept : i.opened # job[n].start)'
    <2>1. /\ n # m /\ InTx(n) /\ job'[n] = job[n] /\ job[n] \in Txs
          /\ TxOK(job[n]) /\ OwnOK(n, job[n]) /\ FreshOK(job[n]) /\ SweptOK(job[n])
          /\ StaleOK(job[n]) /\ KeptOK(job[n]) /\ AloneOK(n, job[n])
          /\ \A i \in job[n].kept : i.opened # job[n].start
          /\ PairOK(job[n], t) /\ PairOK(t, job[n])
          /\ DOMAIN job[n].own \subseteq Keys /\ job[n].kept \subseteq Intervals
        BY <1>11, <1>12
    <2>2. TxOK(job[n])' /\ (\A i \in job[n].kept : i.opened # job[n].start)'
        BY <2>1 DEF TxOK
    <2>3. OwnOK(n, job[n])'
        <3> SUFFICES ASSUME NEW k \in DOMAIN job[n].own
                     PROVE /\ locks'[k] = n /\ job[n].own[k].last <= clock
                           /\ job[n].own[k].first = IF job[n].own[k].open /\ ~rows'[k].open
                                                    THEN job[n].start ELSE rows'[k].first
            BY <1>1, <2>1 DEF OwnOK
        <3>1. k \in Keys /\ locks[k] = n /\ job[n].own[k].last <= clock
              /\ job[n].own[k].first = IF job[n].own[k].open /\ ~rows[k].open
                                       THEN job[n].start ELSE rows[k].first
            BY <2>1 DEF OwnOK
        <3>2. k \notin DOMAIN t.own
            BY <1>2, <2>1, <3>1 DEF OwnOK
        <3> QED
            BY <1>1, <1>5, <2>1, <3>1, <3>2
    <2>4. FreshOK(job[n])'
        <3>1. \A k \in Keys : rows'[k].first # job[n].start
            BY <1>5, <2>1 DEF FreshOK, PairOK
        <3>2. \A i \in intervals' : i.opened # job[n].start
            BY <1>1, <2>1 DEF FreshOK, PairOK
        <3> QED
            BY <1>1, <2>1, <3>1, <3>2 DEF FreshOK
    <2>5. SweptOK(job[n])'
        <3> SUFFICES ASSUME NEW k \in Keys, rows'[k].last >= job[n].start
                     PROVE FoundIn(batch', k)
            BY <2>1 DEF SweptOK
        <3>1. CASE k \notin DOMAIN t.own
            BY <1>5, <1>6, <2>1, <3>1 DEF SweptOK
        <3>2. CASE k \in DOMAIN t.own \ t.found
            BY <1>5, <1>6, <2>1, <3>2 DEF PairOK
        <3> QED
            BY <1>6, <3>1, <3>2
    <2>6. StaleOK(job[n])'
        BY <1>5, <1>6, <2>1 DEF StaleOK
    <2>7. KeptOK(job[n])'
        <3> SUFFICES ASSUME NEW i \in job[n].kept
                     PROVE /\ i.key \in job[n].found /\ i.opened <= clock
                           /\ rows'[i.key].open => rows'[i.key].first # i.opened
            BY <1>1, <2>1 DEF KeptOK
        <3>1. /\ i.key \in Keys /\ i.key \in job[n].found /\ i.opened <= clock
              /\ rows[i.key].open => rows[i.key].first # i.opened
              /\ i.opened # t.start
            BY <2>1, TimesAreNat DEF KeptOK, PairOK
        <3> QED
            BY <1>5, <3>1
    <2>8. AloneOK(n, job[n])'
        <3>1. n \in Running /\ m \in Running
            BY <1>1, <2>1 DEF Running
        <3> QED
            BY <2>1, <3>1 DEF AloneOK
    <2> QED
        BY <2>2, <2>3, <2>4, <2>5, <2>6, <2>7, <2>8
<1>13. TxInv'
    BY <1>12 DEF TxInv
<1>14. PairInv'
    <2> SUFFICES ASSUME NEW p \in Matchers, NEW q \in Matchers, p # q, InTx(p)', InTx(q)'
                 PROVE PairOK(job[p], job[q])'
        BY DEF PairInv
    <2>1. InTx(p) /\ InTx(q) /\ job'[p] = job[p] /\ job'[q] = job[q]
        BY <1>11
    <2>2. PairOK(job[p], job[q])
        BY <2>1 DEF IInv, PairInv
    <2> QED
        BY <1>6, <2>1, <2>2 DEF PairOK
<1> QED
    BY <1>7, <1>8, <1>9, <1>10, <1>13, <1>14 DEF IInv

-----------------------------------------------------------------------------
\* The rows are typed, and agree with the matches recorded, through every
\* interleaving of statements, rollback and restart.
THEOREM Invariance == Spec => []IInv
<1>1. Init => IInv
    <2> SUFFICES ASSUME Init
                 PROVE IInv
        OBVIOUS
    <2>1. \A m \in Matchers : job[m].pc = "idle"
        BY DEF Init, Idle
    <2>2. NoRow \in RowType
        BY BoundsAssumption DEF NoRow, RowType, Resolutions
    <2>3. TypeOK
        <3>1. Idle \in Jobs
            BY DEF Jobs
        <3>2. 0 \in Times
            BY BoundsAssumption DEF Times
        <3>3. rows \in [Keys -> RowType] /\ before = rows
            BY <2>2 DEF Init
        <3> QED
            BY <3>1, <3>2, <3>3 DEF Init, TypeOK
    <2>4. BeginInv /\ TxInv /\ PairInv
        BY <2>1 DEF BeginInv, TxInv, PairInv, InTx
    <2>5. RowInv
        <3>1. NoRow.first = 0 /\ NoRow.last = 0
            BY DEF NoRow
        <3>2. clock = 0 /\ intervals = {} /\ \A k \in Keys : rows[k] = NoRow
            BY DEF Init
        <3> QED
            BY <3>1, <3>2 DEF RowInv
    <2>6. GroupInv
        BY DEF Init, GroupInv, FoundIn
    <2> QED
        BY <2>3, <2>4, <2>5, <2>6 DEF IInv
<1>2. IInv /\ [Next]_vars => IInv'
    <2> SUFFICES ASSUME IInv, [Next]_vars
                 PROVE IInv'
        OBVIOUS
    <2>1. CASE UNCHANGED vars
        <3>1. TypeOK' /\ BeginInv' /\ UNCHANGED Settled
            BY <2>1 DEF IInv, TypeOK, BeginInv, vars, data, feed, Settled
        <3>2. TxInv' /\ PairInv' /\ RowInv' /\ GroupInv'
            BY <2>1, <3>1, QuietStep DEF IInv, vars, data, InTx
        <3> QED
            BY <3>1, <3>2 DEF IInv
    <2>2. CASE LoadStarts \/ LoadCommits \/ LoadEnds
        BY <2>2, LoadStep
    <2>3. CASE Restart
        BY <2>3, UndoneStep
    <2>4. ASSUME NEW m \in Matchers, Match(m)
          PROVE IInv'
        BY <2>4, MatchStep
    <2>5. ASSUME NEW m \in Matchers, Record(m)
          PROVE IInv'
        BY <2>5, BeginStep, ArchiveStep, UpsertStep, SelectStep, CloseStep, CommitStep,
           RememberStep, UndoneStep DEF Record
    <2> QED
        BY <2>1, <2>2, <2>3, <2>4, <2>5 DEF Next
<1> QED
    BY <1>1, <1>2, PTL DEF Spec

\* Once no match is being recorded, the findings are what the matches recorded
\* since the last such moment agree on (recordFindingsTx, closeStaleFindings):
\* for any number of goroutines, keys and inventories.
THEOREM Agreed == Spec => []AgreedFindings
<1>1. IInv => AgreedFindings
    <2> SUFFICES ASSUME IInv, batch # {}, NEW k \in Keys
                 PROVE LET judged == {b \in batch : k \in VulnKeys \/ b.inv.assessed}
                       IN  /\ (\A b \in batch : k \in b.found) => rows[k].open
                           /\ (\A b \in batch : k \notin b.found) /\ judged # {} =>
                                  /\ ~rows[k].open
                                  /\ before[k].open =>
                                        rows[k].why \in {Classify(b.inv, k) : b \in judged}
                           /\ judged = {} => rows[k] = before[k]
        BY DEF AgreedFindings
    <2> DEFINE judged == {b \in batch : k \in VulnKeys \/ b.inv.assessed}
    <2>1. judged = {b \in batch : Judges(b.inv, k)}
        BY DEF Judges
    <2>2. (\A b \in batch : k \notin b.found) => ~FoundIn(batch, k)
        BY DEF FoundIn
    <2>3. /\ (\A b \in batch : k \in b.found) /\ batch # {} => rows[k].open
          /\ ~FoundIn(batch, k) /\ judged # {} => ~rows[k].open
          /\ judged = {} => rows[k] = before[k]
          /\ ~FoundIn(batch, k) =>
                rows[k] = before[k] \/ rows[k].why \in {Classify(b.inv, k) : b \in judged}
        BY <2>1 DEF IInv, GroupInv
    <2> HIDE DEF judged
    <2>4. /\ (\A b \in batch : k \in b.found) => rows[k].open
          /\ (\A b \in batch : k \notin b.found) /\ judged # {} =>
                 /\ ~rows[k].open
                 /\ before[k].open => rows[k].why \in {Classify(b.inv, k) : b \in judged}
          /\ judged = {} => rows[k] = before[k]
        BY <2>2, <2>3
    <2> QED
        BY <2>4 DEF judged
<1> QED
    BY <1>1, Invariance, PTL

\* The interval that ended is in the history when a match that met no other
\* reopens the row (archiveReopenedSQL), and the history only grows.
THEOREM PastIsKept == Spec => HistorySurvives
<1> DEFINE Keeps ==
        /\ \A k \in Keys :
             Closed(rows[k]) /\ rows'[k].open =>
                 \A m \in Matchers :
                     job[m].pc = "commit" /\ job'[m].pc = "remember" /\ job[m].alone =>
                         Interval(k, rows[k]) \in intervals'
        /\ intervals \subseteq intervals'
<1>1. IInv /\ [Next]_vars => [Keeps]_vars
    <2> SUFFICES ASSUME IInv, Next
                 PROVE Keeps
        OBVIOUS
    <2>1. ASSUME NEW m \in Matchers, Commit(m)
          PROVE Keeps
        <3>1. intervals \subseteq intervals' /\ InTx(m)
              /\ \A n \in Matchers \ {m} : job'[n] = job[n]
            BY <2>1, CommitDoes
        <3>2. ASSUME NEW k \in Keys, Closed(rows[k]), rows'[k].open, NEW n \in Matchers,
                     job[n].pc = "commit", job'[n].pc = "remember", job[n].alone
              PROVE Interval(k, rows[k]) \in intervals'
            <4>1. n = m
                BY <3>1, <3>2
            <4>2. k \in job[m].found
                BY <2>1, <3>2, CommitRows DEF Closed
            <4>3. Interval(k, rows[k]) \in job[m].kept
                BY <3>1, <3>2, <4>1, <4>2, TxKnown DEF AloneOK
            <4>4. /\ Interval(k, rows[k]).key = k
                  /\ Interval(k, rows[k]).opened = rows[k].first
                BY DEF Interval
            <4>5. \A j \in intervals : j.key = k => j.opened # rows[k].first
                BY DEF IInv, RowInv
            <4> QED
                BY <2>1, <4>3, <4>4, <4>5, CommitDoes
        <3> QED
            BY <3>1, <3>2
    <2>2. CASE \A m \in Matchers : ~Commit(m)
        <3>1. rows' = rows /\ intervals' = intervals
            BY <2>2 DEF Next, LoadStarts, LoadCommits, LoadEnds, Restart, Match, Record, data,
               ReportInventory, ListDevices, LookUpSnapshot, Unchanged, QueryRanges, GiveUp,
               BeginTx, Archive, Upsert, SelectStale, CloseStale, Rollback, Remember
        <3> QED
            BY <3>1 DEF Closed
    <2> QED
        BY <2>1, <2>2
<1>2. Spec => [][Keeps]_vars
    BY <1>1, Invariance, PTL DEF Spec
<1> QED
    BY <1>2 DEF HistorySurvives

-----------------------------------------------------------------------------
(***************************************************************************)
(* Accounts.                                                               *)
(***************************************************************************)

ViaValues == Invites \cup {NoInvite}
Requests ==
    [pc : {"idle", "first", "counted", "consumed", "created", "post", "known", "provision"},
     name : Names \cup {NoUser}, via : ViaValues]

\* The shape of the tables and of the requests under way.
AccountsTypeOK ==
    /\ users \in [Names -> [made : {"none", "setup", "post", "sso"}, via : ViaValues]]
    /\ disabled \subseteq Names
    /\ sessions \subseteq Names
    /\ invites \in [Invites -> {"unissued", "unused", "used", "revoked"}]
    /\ issuing \in [Issuers -> [pc : {"idle", "counted", "waiting", "revoked"}, revoking : SUBSET Invites]]
    /\ open \in BOOLEAN
    /\ lock \in Setups \cup {Nobody}
    /\ spending \in ViaValues
    /\ audit \subseteq [name : Names, via : ViaValues]
    /\ request \in [A!Jobs -> Requests]

\* A request that is under way knows its account.
NamedInv == \A p \in A!Jobs : request[p].pc # "idle" => request[p].name \in Names

\* Whoever has the lock is between the count and the commit, and nobody else is there.
LockInv == \A p \in A!Jobs : request[p].pc \in {"counted", "consumed"} <=> lock = p

\* While a transaction makes the first account, setup has made none; the link it
\* spends is unused.  Once it has committed, its account is the one setup made.
FirstInv ==
    \A p \in A!Jobs :
        /\ request[p].pc \in {"counted", "consumed"} => A!BySetup = {}
        /\ request[p].pc = "consumed" =>
             /\ spending = request[p].via
             /\ request[p].via # NoInvite => invites[request[p].via] = "unused"
        /\ request[p].pc = "created" => request[p].name \in A!BySetup /\ users[request[p].name].via = request[p].via

\* The links an issuer has marked as revoked, but not committed, are unused, no other
\* issuer has marked them, and nobody spends one.
Held(b) == issuing[b].pc = "revoked"
RowsInv ==
    \A b \in Issuers : Held(b) =>
        /\ spending \notin issuing[b].revoking
        /\ \A i \in issuing[b].revoking : invites[i] = "unused"
        /\ \A c \in Issuers \ {b} : Held(c) => \A i \in issuing[b].revoking : i \notin issuing[c].revoking

\* Setup makes one account; a link is used exactly by the account it made; the ledger
\* names the account.
AdminInv ==
    /\ \A m, n \in A!BySetup : m = n
    /\ \A i \in Invites : invites[i] = "used" <=> \E n \in A!BySetup : users[n].via = i
    /\ \A e \in audit : e.name \in A!BySetup /\ users[e.name].via = e.via

AccountsIInv == AccountsTypeOK /\ NamedInv /\ LockInv /\ FirstInv /\ RowsInv /\ AdminInv

-----------------------------------------------------------------------------
(* The invariant holds initially, and the types survive every step.        *)

\* No request is under way and there is no account.
LEMMA AccountsInit == A!WellFormed /\ A!Init => AccountsIInv
<1> SUFFICES ASSUME A!WellFormed, A!Init PROVE AccountsIInv
    OBVIOUS
<1>1. AccountsTypeOK
    BY DEF A!Init, AccountsTypeOK, A!New, A!Idle, A!NotIssuing, Requests, ViaValues
<1>2. A!BySetup = {}
    BY DEF A!Init, A!BySetup, A!New
<1>3. NamedInv
    BY DEF A!Init, NamedInv, A!Idle
<1>4. LockInv
    BY DEF A!Init, LockInv, A!Idle, A!WellFormed
<1>5. FirstInv
    BY DEF A!Init, FirstInv, A!Idle
<1>6. AdminInv
    BY <1>2 DEF A!Init, AdminInv
<1>7. RowsInv
    BY DEF A!Init, RowsInv, Held, A!NotIssuing
<1> QED
    BY <1>1, <1>3, <1>4, <1>5, <1>6, <1>7 DEF AccountsIInv

\* A request that has just begun: an account is posted, or somebody recognised.
LEMMA Begun ==
    ASSUME AccountsTypeOK, NEW p \in Posts \cup SignIns, A!Post(p) \/ A!Recognise(p)
    PROVE /\ request' \in [A!Jobs -> Requests]
          /\ request'[p].pc \in {"post", "known", "provision"} /\ request'[p].name \in Names
<1>1. PICK n \in Names, s \in {"post", "known", "provision"} :
        request' = [request EXCEPT ![p] = [request[p] EXCEPT !.pc = s, !.name = n]]
    BY DEF A!Post, A!Recognise
<1>2. [request[p] EXCEPT !.pc = s, !.name = n] \in Requests
    BY DEF AccountsTypeOK, Requests, A!Jobs
<1> QED
    BY <1>1, <1>2 DEF AccountsTypeOK, A!Jobs, Requests

\* The types survive every step.
LEMMA AccountsTypeStep == AccountsIInv /\ [A!Next]_(A!vars) => AccountsTypeOK'
<1> SUFFICES ASSUME AccountsIInv, [A!Next]_(A!vars) PROVE AccountsTypeOK'
    OBVIOUS
<1>0. AccountsTypeOK /\ NamedInv
    BY DEF AccountsIInv
<1> USE DEF AccountsTypeOK, Requests, ViaValues
<1>1. CASE UNCHANGED A!vars
    BY <1>0, <1>1 DEF A!vars
<1>2. CASE A!CloseWindow
    BY <1>0, <1>2 DEF A!CloseWindow
<1>3. CASE A!Restart
    BY <1>0, <1>3 DEF A!Restart, A!Idle
<1>4. ASSUME NEW b \in Issuers,
             A!CountForLink(b) \/ A!RevokeUnused(b) \/ A!RevokeAfterWait(b) \/ A!NoLink(b) \/ \E i \in Invites : A!CommitLink(b, i)
      PROVE AccountsTypeOK'
    <2>1. issuing' \in [Issuers -> [pc : {"idle", "counted", "waiting", "revoked"}, revoking : SUBSET Invites]]
        BY <1>0, <1>4 DEF A!CountForLink, A!RevokeUnused, A!RevokeAfterWait, A!NoLink, A!CommitLink, A!NotIssuing
    <2>2. invites' \in [Invites -> {"unissued", "unused", "used", "revoked"}]
        BY <1>0, <1>4 DEF A!CountForLink, A!RevokeUnused, A!RevokeAfterWait, A!NoLink, A!CommitLink
    <2> QED
        BY <1>0, <1>4, <2>1, <2>2 DEF A!CountForLink, A!RevokeUnused, A!RevokeAfterWait, A!NoLink, A!CommitLink
<1>5. ASSUME NEW p \in Setups, A!SetupStatus(p) PROVE AccountsTypeOK'
    BY <1>0, <1>5 DEF A!SetupStatus, A!ViaInvite, A!Jobs
<1>6. ASSUME NEW p \in Setups, A!LockFirst(p) PROVE AccountsTypeOK'
    BY <1>0, <1>6 DEF A!LockFirst, A!Goto, A!End, A!Idle,
       A!Jobs
<1>7. ASSUME NEW p \in Setups, A!Consume(p) PROVE AccountsTypeOK'
    BY <1>0, <1>7 DEF A!Consume, A!Goto, A!End, A!Idle,
       A!Jobs
<1>8. ASSUME NEW p \in Setups, A!CommitFirst(p) PROVE AccountsTypeOK'
    BY <1>0, <1>8 DEF A!CommitFirst, A!Goto, A!New, A!Jobs
<1>9. ASSUME NEW p \in Setups, A!RollBack(p) PROVE AccountsTypeOK'
    BY <1>0, <1>9 DEF A!RollBack, A!End, A!Idle, A!Jobs
<1>10. ASSUME NEW p \in Setups, A!Welcome(p) PROVE AccountsTypeOK'
    <2>1. request[p].name \in Names /\ request[p].via \in ViaValues
        BY <1>0, <1>10 DEF A!Welcome, A!At, A!Jobs, NamedInv
    <2>2. audit' \subseteq [name : Names, via : ViaValues]
        BY <1>0, <1>10, <2>1 DEF A!Welcome
    <2>3. sessions' \subseteq Names
        BY <1>0, <1>10, <2>1 DEF A!Welcome
    <2>4. request' \in [A!Jobs -> Requests]
        BY <1>0, <1>10 DEF A!Welcome, A!End, A!Idle, A!Jobs
    <2> QED
        BY <1>0, <1>10, <2>2, <2>3, <2>4 DEF A!Welcome
<1>11. ASSUME NEW p \in Posts, A!Post(p) PROVE AccountsTypeOK'
    BY <1>0, <1>11, Begun DEF A!Post
<1>12. ASSUME NEW p \in Posts, A!CreateUser(p) PROVE AccountsTypeOK'
    BY <1>0, <1>12 DEF A!CreateUser, A!At, NamedInv, A!End,
       A!Idle, A!New, A!Jobs
<1>13. ASSUME NEW p \in SignIns, A!Recognise(p) PROVE AccountsTypeOK'
    BY <1>0, <1>13, Begun DEF A!Recognise
<1>14. ASSUME NEW p \in SignIns, A!StoreSession(p) PROVE AccountsTypeOK'
    BY <1>0, <1>14 DEF A!StoreSession, A!At, A!End, A!Idle,
       A!New, A!Jobs, NamedInv
<1>15. ASSUME NEW p \in SignIns, A!NotProvisioned(p) PROVE AccountsTypeOK'
    BY <1>0, <1>15 DEF A!NotProvisioned, A!End, A!Idle, A!Jobs
<1>16. ASSUME NEW n \in Names, A!Disable(n) PROVE AccountsTypeOK'
    BY <1>0, <1>16 DEF A!Disable
<1>17. ASSUME NEW n \in Names, A!Enable(n) PROVE AccountsTypeOK'
    BY <1>0, <1>17 DEF A!Enable
<1>18. ASSUME NEW n \in Names, A!SessionEnds(n) PROVE AccountsTypeOK'
    BY <1>0, <1>18 DEF A!SessionEnds
<1> QED
    BY <1>1, <1>2, <1>3, <1>4, <1>5, <1>6, <1>7, <1>8, <1>9, <1>10, <1>11, <1>12,
       <1>13, <1>14, <1>15, <1>16, <1>17, <1>18 DEF A!Next

-----------------------------------------------------------------------------
(* The requests, the lock and the accounts.                                *)

\* A step of a request touches the row of no other request.
LEMMA OthersStay ==
    ASSUME AccountsTypeOK, NEW p \in A!Jobs, NEW q \in A!Jobs, q # p,
           \/ A!SetupStatus(p) \/ A!LockFirst(p) \/ A!Consume(p) \/ A!CommitFirst(p) \/ A!RollBack(p) \/ A!Welcome(p)
           \/ A!Post(p) \/ A!CreateUser(p) \/ A!Recognise(p) \/ A!StoreSession(p) \/ A!NotProvisioned(p)
    PROVE request'[q] = request[q]
BY DEF AccountsTypeOK, A!SetupStatus, A!LockFirst, A!Consume,
   A!CommitFirst, A!RollBack, A!Welcome, A!Post,
   A!CreateUser, A!Recognise, A!StoreSession, A!NotProvisioned,
   A!Goto, A!End

\* Every step of the server but a restart, and every step of bootstrap-admin but its commit,
\* leaves the requests, the lock, the accounts, the links and the ledger alone.
LEMMA ServerSteps ==
    ASSUME \/ UNCHANGED A!vars \/ A!CloseWindow
           \/ \E n \in Names : A!Disable(n) \/ A!Enable(n) \/ A!SessionEnds(n)
           \/ \E b \in Issuers : A!CountForLink(b) \/ A!RevokeUnused(b) \/ A!RevokeAfterWait(b) \/ A!NoLink(b)
    PROVE UNCHANGED <<request, lock, spending, users, invites, audit>>
BY DEF A!vars, A!CloseWindow, A!Disable, A!Enable,
   A!SessionEnds, A!CountForLink, A!RevokeUnused, A!RevokeAfterWait, A!NoLink

\* A request that is under way knows its account, after every step too.
LEMMA NamedStep == AccountsIInv /\ [A!Next]_(A!vars) => NamedInv'
<1> SUFFICES ASSUME AccountsIInv, [A!Next]_(A!vars) PROVE NamedInv'
    OBVIOUS
<1>0. AccountsTypeOK /\ NamedInv
    BY DEF AccountsIInv
<1>1. CASE \/ UNCHANGED A!vars \/ A!CloseWindow \/ \E n \in Names : A!Disable(n) \/ A!Enable(n) \/ A!SessionEnds(n)
           \/ \E b \in Issuers : A!CountForLink(b) \/ A!RevokeUnused(b) \/ A!RevokeAfterWait(b) \/ A!NoLink(b)
    BY <1>0, <1>1, ServerSteps DEF NamedInv
<1>2. CASE A!Restart
    BY <1>2 DEF A!Restart, A!Idle, NamedInv
<1>3. ASSUME NEW b \in Issuers, NEW i \in Invites, A!CommitLink(b, i) PROVE NamedInv'
    BY <1>0, <1>3 DEF A!CommitLink, NamedInv
<1>4. ASSUME NEW p \in Setups,
             \/ A!SetupStatus(p) \/ A!LockFirst(p) \/ A!Consume(p) \/ A!CommitFirst(p) \/ A!RollBack(p) \/ A!Welcome(p)
      PROVE NamedInv'
    <2>1. request'[p].pc # "idle" => request'[p].name \in Names
        BY <1>0, <1>4 DEF AccountsTypeOK, Requests, NamedInv, A!Jobs,
           A!SetupStatus, A!LockFirst, A!Consume, A!CommitFirst,
           A!RollBack, A!Welcome, A!Goto, A!End, A!Idle,
           A!At
    <2> QED
        BY <1>0, <1>4, <2>1, OthersStay DEF NamedInv, A!Jobs
<1>5. ASSUME NEW p \in Posts, A!Post(p) \/ A!CreateUser(p) PROVE NamedInv'
    <2>1. request'[p].pc # "idle" => request'[p].name \in Names
        BY <1>0, <1>5, Begun DEF AccountsTypeOK, A!Jobs, A!CreateUser,
           A!End, A!Idle
    <2> QED
        BY <1>0, <1>5, <2>1, OthersStay DEF NamedInv, A!Jobs
<1>6. ASSUME NEW p \in SignIns, A!Recognise(p) \/ A!StoreSession(p) \/ A!NotProvisioned(p) PROVE NamedInv'
    <2>1. request'[p].pc # "idle" => request'[p].name \in Names
        BY <1>0, <1>6, Begun DEF AccountsTypeOK, A!Jobs, A!StoreSession,
           A!NotProvisioned, A!End, A!Idle
    <2> QED
        BY <1>0, <1>6, <2>1, OthersStay DEF NamedInv, A!Jobs
<1> QED
    BY <1>1, <1>2, <1>3, <1>4, <1>5, <1>6 DEF A!Next

\* One request at most has the lock, and it is where the lock is held.
LEMMA LockStep == A!WellFormed /\ AccountsIInv /\ [A!Next]_(A!vars) => LockInv'
<1> SUFFICES ASSUME A!WellFormed, AccountsIInv, [A!Next]_(A!vars) PROVE LockInv'
    OBVIOUS
<1>0. AccountsTypeOK /\ LockInv
    BY DEF AccountsIInv
<1>1. CASE \/ UNCHANGED A!vars \/ A!CloseWindow \/ \E n \in Names : A!Disable(n) \/ A!Enable(n) \/ A!SessionEnds(n)
           \/ \E b \in Issuers : A!CountForLink(b) \/ A!RevokeUnused(b) \/ A!RevokeAfterWait(b) \/ A!NoLink(b)
    BY <1>0, <1>1, ServerSteps DEF LockInv
<1>2. CASE A!Restart
    BY <1>2 DEF A!Restart, A!Idle, LockInv, A!WellFormed
<1>3. ASSUME NEW b \in Issuers, NEW i \in Invites, A!CommitLink(b, i) PROVE LockInv'
    BY <1>0, <1>3 DEF A!CommitLink, LockInv
<1>4. ASSUME NEW p \in Setups,
             \/ A!SetupStatus(p) \/ A!LockFirst(p) \/ A!Consume(p) \/ A!CommitFirst(p) \/ A!RollBack(p) \/ A!Welcome(p)
      PROVE LockInv'
    <2>1. request'[p].pc \in {"counted", "consumed"} <=> lock' = p
        BY <1>0, <1>4 DEF AccountsTypeOK, Requests, LockInv, A!Jobs,
           A!SetupStatus, A!LockFirst, A!Consume, A!CommitFirst,
           A!RollBack, A!Welcome, A!Goto, A!End, A!Idle,
           A!At, A!WellFormed
    <2>2. ASSUME NEW q \in A!Jobs, q # p PROVE lock' = q <=> lock = q
        BY <1>0, <1>4, <2>2 DEF LockInv, A!Jobs, A!SetupStatus,
           A!LockFirst, A!Consume, A!CommitFirst, A!RollBack,
           A!Welcome, A!At, A!WellFormed
    <2> QED
        BY <1>0, <1>4, <2>1, <2>2, OthersStay DEF LockInv, A!Jobs
<1>5. ASSUME NEW p \in Posts \cup SignIns,
             A!Post(p) \/ A!CreateUser(p) \/ A!Recognise(p) \/ A!StoreSession(p) \/ A!NotProvisioned(p)
      PROVE LockInv'
    <2>1. request[p].pc \notin {"counted", "consumed"} /\ request'[p].pc \notin {"counted", "consumed"}
        <3>1. CASE A!Post(p) \/ A!Recognise(p)
            BY <1>0, <3>1, Begun DEF A!Post, A!Recognise, A!At
        <3>2. CASE A!CreateUser(p) \/ A!StoreSession(p) \/ A!NotProvisioned(p)
            BY <1>0, <3>2 DEF AccountsTypeOK, A!Jobs, A!CreateUser,
               A!StoreSession, A!NotProvisioned, A!End, A!Idle,
               A!At
        <3> QED
            BY <1>5, <3>1, <3>2
    <2>2. lock' = lock
        BY <1>5 DEF A!Post, A!CreateUser, A!Recognise,
           A!StoreSession, A!NotProvisioned
    <2> QED
        BY <1>0, <1>5, <2>1, <2>2, OthersStay DEF LockInv, A!Jobs
<1> QED
    BY <1>1, <1>2, <1>3, <1>4, <1>5 DEF A!Next

\* What has been set up: unchanged by every step but the commit of a first account.
LEMMA SetUpStays ==
    ASSUME AccountsTypeOK, NamedInv, [A!Next]_(A!vars), ~ \E p \in Setups : A!CommitFirst(p)
    PROVE /\ A!BySetup' = A!BySetup
          /\ \A n \in A!BySetup : users'[n] = users[n]
<1>1. ASSUME NEW p \in Posts, A!CreateUser(p)
      PROVE A!BySetup' = A!BySetup /\ \A n \in A!BySetup : users'[n] = users[n]
    BY <1>1 DEF A!CreateUser, AccountsTypeOK, NamedInv, A!Exists,
       A!New, A!BySetup, A!Jobs, A!At
<1>2. ASSUME NEW p \in SignIns, A!StoreSession(p)
      PROVE A!BySetup' = A!BySetup /\ \A n \in A!BySetup : users'[n] = users[n]
    BY <1>2 DEF A!StoreSession, AccountsTypeOK, NamedInv, A!Exists,
       A!New, A!BySetup, A!Jobs, A!At
<1>3. CASE users' = users
    BY <1>3 DEF A!BySetup
<1> QED
    BY <1>1, <1>2, <1>3 DEF A!Next, A!vars, A!CloseWindow,
       A!Restart, A!CountForLink, A!RevokeUnused, A!RevokeAfterWait, A!NoLink, A!CommitLink,
       A!SetupStatus, A!LockFirst, A!Consume, A!RollBack, A!Welcome, A!Post,
       A!Recognise, A!NotProvisioned, A!Disable, A!Enable,
       A!SessionEnds

\* FirstInv and AdminInv for one request; FirstInv is the first for all of them.
FirstOf(p) ==
    /\ request[p].pc \in {"counted", "consumed"} => A!BySetup = {}
    /\ request[p].pc = "consumed" =>
         /\ spending = request[p].via
         /\ request[p].via # NoInvite => invites[request[p].via] = "unused"
    /\ request[p].pc = "created" => request[p].name \in A!BySetup /\ users[request[p].name].via = request[p].via

\* A step that leaves the accounts made by setup, the links and the spending alone
\* leaves what FirstInv says of a request that it does not touch.
LEMMA FirstUntouched ==
    ASSUME FirstInv, NEW q \in A!Jobs, request'[q] = request[q], A!BySetup' = A!BySetup,
           \A n \in A!BySetup : users'[n] = users[n], UNCHANGED <<invites, spending>>
    PROVE FirstOf(q)'
BY DEF FirstInv, FirstOf

\* A transaction that makes the first account still finds none, and the link it spends unused.
LEMMA FirstStep == A!WellFormed /\ AccountsIInv /\ [A!Next]_(A!vars) => FirstInv'
<1> SUFFICES ASSUME A!WellFormed, AccountsIInv, [A!Next]_(A!vars), NEW q \in A!Jobs PROVE FirstOf(q)'
    BY DEF FirstInv, FirstOf
<1>0. AccountsTypeOK /\ NamedInv /\ LockInv /\ FirstInv /\ RowsInv
    BY DEF AccountsIInv
<1>a. AccountsTypeOK'
    BY AccountsTypeStep
<1>1. CASE \/ UNCHANGED A!vars \/ A!CloseWindow \/ \E n \in Names : A!Disable(n) \/ A!Enable(n) \/ A!SessionEnds(n)
           \/ \E b \in Issuers : A!CountForLink(b) \/ A!RevokeUnused(b) \/ A!RevokeAfterWait(b) \/ A!NoLink(b)
    BY <1>0, <1>1, ServerSteps DEF FirstInv, FirstOf, A!BySetup
<1>2. CASE A!Restart
    BY <1>2 DEF A!Restart, A!Idle, FirstOf
<1>3. ASSUME NEW b \in Issuers, NEW i \in Invites, A!CommitLink(b, i) PROVE FirstOf(q)'
    \* The link a transaction spends is neither new nor among those that are revoked.
    <2>1. UNCHANGED <<users, request, spending>>
        BY <1>3 DEF A!CommitLink
    <2>2. ASSUME request[q].pc = "consumed", request[q].via # NoInvite
          PROVE invites'[request[q].via] = "unused"
        <3>1. request[q].via \in Invites
            BY <1>0, <2>2 DEF AccountsTypeOK, Requests, ViaValues
        <3>2. invites[request[q].via] = "unused" /\ spending = request[q].via
            BY <1>0, <2>2 DEF FirstInv
        <3>3. request[q].via # i /\ request[q].via \notin issuing[b].revoking
            BY <1>0, <1>3, <3>2 DEF A!CommitLink, RowsInv, Held
        <3> QED
            BY <1>3, <3>1, <3>2, <3>3 DEF A!CommitLink
    <2> QED
        BY <1>0, <2>1, <2>2 DEF FirstInv, FirstOf, A!BySetup
<1>4. ASSUME NEW p \in Setups, A!CommitFirst(p) PROVE FirstOf(q)'
    <2>1. CASE q = p
        BY <1>0, <1>4, <2>1 DEF A!CommitFirst, A!Goto, FirstOf,
           A!BySetup, AccountsTypeOK, Requests, NamedInv, A!New, A!At,
           A!Jobs
    <2>2. CASE q # p
        \* Only p holds the lock, and setup had made no account.
        <3>1. request'[q] = request[q]
            BY <1>0, <1>4, <2>2, OthersStay DEF A!Jobs
        <3>2. request[q].pc \notin {"counted", "consumed"}
            BY <1>0, <1>4, <2>2 DEF LockInv, A!CommitFirst, A!At,
               A!Jobs
        <3>3. request[q].pc # "created"
            BY <1>0, <1>4 DEF FirstInv, A!CommitFirst, A!At, A!Jobs
        <3> QED
            BY <3>1, <3>2, <3>3 DEF FirstOf
    <2> QED
        BY <2>1, <2>2
<1>5. ASSUME NEW p \in Setups, A!SetupStatus(p) \/ A!LockFirst(p) \/ A!Consume(p) \/ A!RollBack(p) \/ A!Welcome(p),
             ~ \E r \in Setups : A!CommitFirst(r)
      PROVE FirstOf(q)'
    <2>1. A!BySetup' = A!BySetup /\ \A n \in A!BySetup : users'[n] = users[n]
        BY <1>0, <1>5, SetUpStays
    <2>2. invites' = invites
        BY <1>5 DEF A!SetupStatus, A!LockFirst, A!Consume,
           A!RollBack, A!Welcome
    <2>3. CASE q = p
        BY <1>0, <1>5, <2>1, <2>2, <2>3 DEF A!SetupStatus, A!LockFirst,
           A!Consume, A!RollBack, A!Welcome, A!Goto,
           A!End, A!Idle, A!At, FirstOf, FirstInv, AccountsTypeOK,
           Requests, A!Jobs, A!NoUsers, A!Exists, A!BySetup
    <2>4. CASE q # p
        <3>1. request'[q] = request[q]
            BY <1>0, <1>5, <2>4, OthersStay DEF A!Jobs
        <3>2. CASE spending' = spending
            BY <1>0, <2>1, <2>2, <3>1, <3>2, FirstUntouched
        <3>3. CASE A!Consume(p) \/ A!RollBack(p)
            \* It has the lock, so the other is not in a transaction.
            <4>1. request[q].pc \notin {"counted", "consumed"}
                BY <1>0, <2>4, <3>3 DEF LockInv, A!Consume, A!RollBack,
                   A!At, A!Jobs
            <4> QED
                BY <1>0, <2>1, <2>2, <3>1, <4>1 DEF FirstOf, FirstInv
        <3> QED
            BY <1>5, <3>2, <3>3 DEF A!SetupStatus, A!LockFirst,
               A!Welcome
    <2> QED
        BY <2>3, <2>4
<1>6. ASSUME NEW p \in Posts \cup SignIns,
             A!Post(p) \/ A!CreateUser(p) \/ A!Recognise(p) \/ A!StoreSession(p) \/ A!NotProvisioned(p),
             ~ \E r \in Setups : A!CommitFirst(r)
      PROVE FirstOf(q)'
    <2>1. A!BySetup' = A!BySetup /\ \A n \in A!BySetup : users'[n] = users[n]
        BY <1>0, <1>6, SetUpStays
    <2>2. UNCHANGED <<invites, spending>>
        BY <1>6 DEF A!Post, A!CreateUser, A!Recognise,
           A!StoreSession, A!NotProvisioned
    <2>3. CASE q = p
        <3>1. CASE A!Post(p) \/ A!Recognise(p)
            BY <1>0, <2>3, <3>1, Begun DEF FirstOf
        <3>2. CASE A!CreateUser(p) \/ A!StoreSession(p) \/ A!NotProvisioned(p)
            BY <1>0, <2>3, <3>2 DEF A!CreateUser, A!StoreSession,
               A!NotProvisioned, A!End, A!Idle, AccountsTypeOK,
               FirstOf
        <3> QED
            BY <1>6, <3>1, <3>2
    <2>4. CASE q # p
        <3>1. request'[q] = request[q]
            BY <1>0, <1>6, <2>4, OthersStay DEF A!Jobs
        <3> QED
            BY <1>0, <2>1, <2>2, <3>1, FirstUntouched
    <2> QED
        BY <2>3, <2>4
<1> QED
    BY <1>1, <1>2, <1>3, <1>4, <1>5, <1>6 DEF A!Next

\* What issuers have marked stays theirs until they commit or give up.
LEMMA RowsStep == A!WellFormed /\ AccountsIInv /\ [A!Next]_(A!vars) => RowsInv'
<1> SUFFICES ASSUME A!WellFormed, AccountsIInv, [A!Next]_(A!vars), NEW b \in Issuers, Held(b)'
             PROVE /\ spending' \notin issuing'[b].revoking
                   /\ \A i \in issuing'[b].revoking : invites'[i] = "unused"
                   /\ \A c \in Issuers \ {b} : Held(c)' => \A i \in issuing'[b].revoking : i \notin issuing'[c].revoking
    BY DEF RowsInv
<1>0. AccountsTypeOK /\ FirstInv /\ RowsInv
    BY DEF AccountsIInv
<1> DEFINE Goal == /\ spending' \notin issuing'[b].revoking
                   /\ \A i \in issuing'[b].revoking : invites'[i] = "unused"
                   /\ \A c \in Issuers \ {b} : Held(c)' => \A i \in issuing'[b].revoking : i \notin issuing'[c].revoking
<1>1. CASE UNCHANGED <<issuing, spending, invites>>
    BY <1>0, <1>1 DEF RowsInv, Held
<1>2. ASSUME UNCHANGED <<issuing, invites>>, spending' = NoInvite PROVE Goal
    <2>1. NoInvite \notin issuing[b].revoking
        BY <1>0 DEF AccountsTypeOK, A!WellFormed
    <2> QED
        BY <1>0, <1>2, <2>1 DEF RowsInv, Held
<1>3. ASSUME NEW p \in Setups, A!Consume(p) PROVE Goal
    <2>1. UNCHANGED <<issuing, invites>> /\ (spending' = spending \/ spending' = request[p].via)
        BY <1>3 DEF A!Consume
    <2>2. CASE spending' = spending
        BY <1>1, <2>1, <2>2
    <2>3. CASE request[p].via = NoInvite
        BY <1>1, <1>2, <2>1, <2>2, <2>3
    <2>4. CASE request[p].via # NoInvite
        <3>1. ~A!Locked(request[p].via)
            BY <1>3, <2>4 DEF A!Consume
        <3>2. request[p].via \notin issuing[b].revoking
            BY <2>1, <3>1 DEF A!Locked, Held
        <3> QED
            BY <1>0, <2>1, <3>2 DEF RowsInv, Held
    <2> QED
        BY <2>3, <2>4
<1>4. ASSUME NEW p \in Setups, A!CommitFirst(p) PROVE Goal
    <2>1. issuing' = issuing /\ spending' = NoInvite /\ spending = request[p].via
        BY <1>0, <1>4 DEF A!CommitFirst, A!At, A!Jobs, FirstInv
    <2>2. NoInvite \notin issuing[b].revoking /\ request[p].via \notin issuing[b].revoking
        BY <1>0, <2>1 DEF AccountsTypeOK, A!WellFormed, RowsInv, Held
    <2>3. \A i \in issuing[b].revoking : invites'[i] = invites[i]
        <3>1. invites' = invites \/ invites' = [invites EXCEPT ![request[p].via] = "used"]
            BY <1>4 DEF A!CommitFirst
        <3> QED
            BY <1>0, <2>2, <3>1 DEF AccountsTypeOK
    <2> QED
        BY <1>0, <2>1, <2>2, <2>3 DEF RowsInv, Held
\* Whoever revokes waits for those who have marked before it.
<1>5. ASSUME NEW c \in Issuers, A!RevokeUnused(c) \/ A!RevokeAfterWait(c), UNCHANGED <<invites, spending>>
      PROVE Goal
    <2>1. \A d \in Issuers \ {c} : issuing'[d] = issuing[d]
        BY <1>0, <1>5 DEF AccountsTypeOK, A!RevokeUnused, A!RevokeAfterWait
    <2>2. Held(c)' => \A i \in issuing'[c].revoking : invites[i] = "unused" /\ ~A!Locked(i)
        BY <1>0, <1>5 DEF AccountsTypeOK, A!RevokeUnused, A!RevokeAfterWait, Held
    <2>3. Held(c)' => \A i \in issuing'[c].revoking :
             i # spending /\ \A d \in Issuers : Held(d) => i \notin issuing[d].revoking
        BY <2>2 DEF A!Locked, Held
    <2>4. \A d \in Issuers \ {c} : Held(d)' <=> Held(d)
        BY <2>1 DEF Held
    <2>5. CASE b = c
        BY <1>5, <2>1, <2>2, <2>3, <2>4, <2>5
    <2>6. CASE b # c
        <3>1. issuing'[b] = issuing[b] /\ Held(b)
            BY <2>1, <2>4, <2>6
        <3> QED
            BY <1>0, <1>5, <2>1, <2>3, <2>4, <2>6, <3>1 DEF RowsInv
    <2> QED
        BY <2>5, <2>6
<1>6. ASSUME NEW c \in Issuers,
             A!CountForLink(c) \/ A!NoLink(c) \/ \E i \in Invites : A!CommitLink(c, i)
      PROVE Goal
    <2>1. \A d \in Issuers \ {c} : issuing'[d] = issuing[d]
        BY <1>0, <1>6 DEF AccountsTypeOK, A!CountForLink, A!NoLink, A!CommitLink
    <2>2. ~Held(c)' /\ spending' = spending
        BY <1>0, <1>6 DEF AccountsTypeOK, A!CountForLink, A!NoLink, A!CommitLink, A!NotIssuing, Held
    <2>3. b # c /\ issuing'[b] = issuing[b] /\ Held(b)
        BY <2>1, <2>2 DEF Held
    <2>4. \A i \in issuing[b].revoking : invites'[i] = "unused"
        <3>1. CASE invites' = invites
            BY <1>0, <2>3, <3>1 DEF RowsInv
        <3>2. ASSUME NEW j \in Invites, A!CommitLink(c, j) PROVE \A i \in issuing[b].revoking : invites'[i] = "unused"
            <4>1. Held(c)
                BY <3>2 DEF A!CommitLink, Held
            <4>2. \A i \in issuing[b].revoking : i \in Invites /\ i \notin issuing[c].revoking /\ invites[i] = "unused"
                BY <1>0, <2>3, <4>1 DEF RowsInv, AccountsTypeOK
            <4> QED
                BY <3>2, <4>2 DEF A!CommitLink
        <3> QED
            BY <1>6, <3>1, <3>2 DEF A!CountForLink, A!NoLink
    <2> QED
        BY <1>0, <2>1, <2>2, <2>3, <2>4 DEF RowsInv, Held
<1>7. CASE A!Restart \/ \E p \in Setups : A!RollBack(p)
    BY <1>2, <1>7 DEF A!Restart, A!RollBack
<1>8. CASE \/ UNCHANGED A!vars \/ A!CloseWindow \/ \E n \in Names : A!Disable(n) \/ A!Enable(n) \/ A!SessionEnds(n)
           \/ \E p \in Setups : A!SetupStatus(p) \/ A!LockFirst(p) \/ A!Welcome(p)
           \/ \E p \in Posts : A!Post(p) \/ A!CreateUser(p)
           \/ \E p \in SignIns : A!Recognise(p) \/ A!StoreSession(p) \/ A!NotProvisioned(p)
    BY <1>1, <1>8 DEF A!vars, A!CloseWindow, A!Disable, A!Enable, A!SessionEnds, A!SetupStatus, A!LockFirst,
       A!Welcome, A!Post, A!CreateUser, A!Recognise, A!StoreSession, A!NotProvisioned
<1>9. ASSUME NEW c \in Issuers, A!RevokeUnused(c) \/ A!RevokeAfterWait(c) PROVE Goal
    BY <1>5, <1>9 DEF A!RevokeUnused, A!RevokeAfterWait
<1> HIDE DEF Goal
<1>10. Goal
    BY <1>3, <1>4, <1>6, <1>7, <1>8, <1>9 DEF A!Next, Goal
<1> QED
    BY <1>10 DEF Goal

\* The accounts made by setup, the links and the ledger agree.
LEMMA AdminStep == A!WellFormed /\ AccountsIInv /\ [A!Next]_(A!vars) => AdminInv'
<1> SUFFICES ASSUME A!WellFormed, AccountsIInv, [A!Next]_(A!vars) PROVE AdminInv'
    OBVIOUS
<1>0. AccountsTypeOK /\ NamedInv /\ FirstInv /\ RowsInv /\ AdminInv
    BY DEF AccountsIInv
<1>1. CASE /\ ~ \E p \in Setups : A!CommitFirst(p) \/ A!Welcome(p)
           /\ ~ \E b \in Issuers, i \in Invites : A!CommitLink(b, i)
    <2>1. A!BySetup' = A!BySetup /\ \A n \in A!BySetup : users'[n] = users[n]
        BY <1>0, <1>1, SetUpStays
    <2>2. UNCHANGED <<invites, audit>>
        BY <1>1 DEF A!Next, A!vars, A!CloseWindow, A!Restart, A!CountForLink, A!RevokeUnused,
           A!RevokeAfterWait, A!NoLink, A!SetupStatus, A!LockFirst, A!Consume, A!RollBack,
           A!Post, A!CreateUser, A!Recognise, A!StoreSession,
           A!NotProvisioned, A!Disable, A!Enable, A!SessionEnds
    <2> QED
        BY <1>0, <2>1, <2>2 DEF AdminInv
<1>2. ASSUME NEW p \in Setups, A!Welcome(p) PROVE AdminInv'
    <2>1. UNCHANGED <<users, invites>> /\ audit' \subseteq audit \cup {[name |-> request[p].name, via |-> request[p].via]}
        BY <1>2 DEF A!Welcome
    <2>2. request[p].name \in A!BySetup /\ users[request[p].name].via = request[p].via
        BY <1>0, <1>2 DEF A!Welcome, A!At, FirstInv, A!Jobs
    <2> QED
        BY <1>0, <2>1, <2>2 DEF AdminInv, A!BySetup
<1>3. ASSUME NEW b \in Issuers, NEW i \in Invites, A!CommitLink(b, i) PROVE AdminInv'
    <2>1. /\ invites[i] = "unissued" /\ UNCHANGED <<users, audit>>
          /\ invites' = [j \in Invites |-> IF j = i THEN "unused"
                                          ELSE IF j \in issuing[b].revoking THEN "revoked" ELSE invites[j]]
        BY <1>3 DEF A!CommitLink
    <2>2. \A j \in issuing[b].revoking : invites[j] = "unused"
        BY <1>0, <1>3 DEF A!CommitLink, RowsInv, Held
    <2>3. \A j \in Invites : invites'[j] = "used" <=> invites[j] = "used"
        BY <2>1, <2>2
    <2> QED
        BY <1>0, <2>1, <2>3 DEF AdminInv, A!BySetup
<1>4. ASSUME NEW p \in Setups, A!CommitFirst(p) PROVE AdminInv'
    <2> DEFINE n == request[p].name
               i == request[p].via
    \* Setup had made no account: no link was used, and the ledger named none.
    <2>1. A!BySetup = {} /\ (\A j \in Invites : invites[j] # "used") /\ audit = {}
        BY <1>0, <1>4 DEF FirstInv, AdminInv, A!CommitFirst, A!At,
           A!Jobs
    <2>2. n \in Names /\ i \in ViaValues /\ users' = [users EXCEPT ![n] = A!New("setup", i)] /\ audit' = audit
        BY <1>0, <1>4 DEF A!CommitFirst, NamedInv, AccountsTypeOK, Requests,
           A!At, A!Jobs
    <2>3. A!BySetup' = {n} /\ users'[n].via = i
        BY <1>0, <2>1, <2>2 DEF A!BySetup, A!New, AccountsTypeOK
    <2>4. \A j \in Invites : invites'[j] = IF j = i THEN "used" ELSE invites[j]
        BY <1>0, <1>4 DEF A!CommitFirst, AccountsTypeOK, A!WellFormed
    <2> HIDE DEF n, i
    <2> QED
        BY <1>0, <2>1, <2>2, <2>3, <2>4 DEF AdminInv
<1> QED
    BY <1>1, <1>2, <1>3, <1>4

-----------------------------------------------------------------------------
\* Together they are an invariant.
LEMMA AccountsStep == A!WellFormed /\ AccountsIInv /\ [A!Next]_(A!vars) => AccountsIInv'
BY AccountsTypeStep, NamedStep, LockStep, FirstStep, RowsStep, AdminStep DEF AccountsIInv

\* CreateFirstUserWithInvite, under the advisory lock: in every state that can be
\* reached, a request past the count is alone there and finds no account of setup's.
THEOREM AccountsInvariance == A!WellFormed => (A!Spec => []AccountsIInv)
<1> SUFFICES ASSUME A!WellFormed PROVE A!Spec => []AccountsIInv
    OBVIOUS
<1>1. A!Init => AccountsIInv
    BY AccountsInit
<1>2. AccountsIInv /\ [A!Next]_(A!vars) => AccountsIInv'
    BY AccountsStep
<1> QED
    BY <1>1, <1>2, PTL DEF A!Spec

\* Each part behaves beside the others as it does alone.
THEOREM SideBySide == ConsoleSpec => Spec /\ A!Spec
<1>1. ConsoleInit => Init /\ A!Init
    BY DEF ConsoleInit
<1>2. [ConsoleNext]_all => [Next]_vars /\ [A!Next]_(A!vars)
    BY DEF ConsoleNext, all, accounts, A!vars
<1> QED
    BY <1>1, <1>2, PTL DEF ConsoleSpec, Spec, A!Spec

\* What the invariant says of the sets, said of how many elements they have.
LEMMA OneAtMost ==
    ASSUME NEW S, \A x, y \in S : x = y
    PROVE Cardinality(S) <= 1
<1>1. CASE S = {}
    BY <1>1, FS_EmptySet
<1>2. ASSUME NEW x \in S PROVE Cardinality(S) <= 1
    <2>1. S = {x}
        BY <1>2
    <2> QED
        BY <2>1, FS_Singleton
<1> QED
    BY <1>1, <1>2

\* First-run setup makes one administrator, however many pages are submitted and however
\* many links bootstrap-admin has printed, also twice at once; a link is spent exactly by
\* the account it made, and the ledger's first_admin_created names that account.
THEOREM FirstAdmin == A!WellFormed => (ConsoleSpec => []FirstAdminOnce)
<1>1. AccountsIInv => A!FirstAdminOnce
    <2> SUFFICES ASSUME AdminInv PROVE A!FirstAdminOnce
        BY DEF AccountsIInv
    <2>1. Cardinality(A!BySetup) <= 1
        BY OneAtMost DEF AdminInv
    <2>2. ASSUME NEW S PROVE A!Cardinality(S) = Cardinality(S)
        BY DEF A!Cardinality, Cardinality
    <2> QED
        BY <2>1, <2>2 DEF AdminInv, A!FirstAdminOnce
<1> SUFFICES ASSUME A!WellFormed PROVE ConsoleSpec => []FirstAdminOnce
    OBVIOUS
<1>2. A!Spec => []AccountsIInv
    BY AccountsInvariance
<1> QED
    BY <1>1, <1>2, SideBySide, PTL DEF FirstAdminOnce

-----------------------------------------------------------------------------
(***************************************************************************)
(* The matcher.  Its loops are recursive functions on how many rows have   *)
(* been seen.  HeardIs and KeptIs say that the functions exist, UpTo is    *)
(* the induction; HeardSums and KeptBest say what they are for any         *)
(* sequence, in terms of the set of its rows alone.                        *)
(***************************************************************************)

\* Induction over the natural numbers up to n, for a set of them.
LEMMA UpTo ==
    ASSUME NEW n \in Nat, NEW T, 0 \in T, \A m \in 1..n : m - 1 \in T => m \in T
    PROVE 0..n \subseteq T
<1> SUFFICES ASSUME ~(0..n \subseteq T) PROVE FALSE
    OBVIOUS
<1> DEFINE S == (0..n) \ T
<1>1. PICK x \in S : \A y \in S : ~(<<y, x>> \in OpToRel(<, Nat))
    <2>1. S \subseteq Nat /\ S # {}
        OBVIOUS
    <2> QED
        BY <2>1, NatLessThanWellFounded, WFMin
<1>2. x \in 1..n
    OBVIOUS
<1>3. x - 1 \in S
    BY <1>2
<1>4. <<x - 1, x>> \in OpToRel(<, Nat)
    BY <1>2 DEF OpToRel
<1> QED
    BY <1>1, <1>3, <1>4

\* What is known of a package after one more row of the query.
Hear(p, row, v) == IF M!Attached(row, p) THEN M!Weigh(p, v, row) ELSE v

LEMMA HeardIs ==
    ASSUME NEW p, NEW rs, Len(rs) \in Nat
    PROVE M!Heard(p, rs) =
            [n \in 0..Len(rs) |->
                IF n = 0 THEN M!NoVerdict ELSE Hear(p, rs[n], M!Heard(p, rs)[n - 1])]
<1> DEFINE Loop(h, m) == h = [n \in 0..m |-> IF n = 0 THEN M!NoVerdict ELSE Hear(p, rs[n], h[n - 1])]
           T == {m \in Nat : \E h : Loop(h, m)}
<1>1. 0 \in T
    <2>1. Loop([n \in 0..0 |-> M!NoVerdict], 0)
        OBVIOUS
    <2> QED
        BY <2>1
<1>2. ASSUME NEW m \in 1..Len(rs), m - 1 \in T PROVE m \in T
    <2>1. PICK h : Loop(h, m - 1)
        BY <1>2
    <2> DEFINE g == [n \in 0..m |-> IF n = m THEN Hear(p, rs[m], h[m - 1]) ELSE h[n]]
    <2>2. ASSUME NEW n \in 0..m
          PROVE g[n] = IF n = 0 THEN M!NoVerdict ELSE Hear(p, rs[n], g[n - 1])
        <3>1. CASE n = m
            BY <3>1
        <3>2. CASE n # m
            <4>1. n \in 0..(m - 1)
                BY <3>2
            <4>2. h[n] = IF n = 0 THEN M!NoVerdict ELSE Hear(p, rs[n], h[n - 1])
                BY <2>1, <4>1
            <4>3. n # 0 => n - 1 \in 0..m /\ n - 1 # m
                BY <4>1
            <4> QED
                BY <3>2, <4>2, <4>3
        <3> QED
            BY <3>1, <3>2
    <2> HIDE DEF g
    <2>3. g = [n \in 0..m |-> IF n = 0 THEN M!NoVerdict ELSE Hear(p, rs[n], g[n - 1])]
        <3>1. g = [n \in 0..m |-> g[n]]
            BY DEF g
        <3> QED
            BY <2>2, <3>1
    <2> QED
        BY <2>3
<1>3. Len(rs) \in T
    <2> HIDE DEF T
    <2>1. \A m \in 1..Len(rs) : m - 1 \in T => m \in T
        BY <1>2
    <2>2. 0..Len(rs) \subseteq T
        BY <1>1, <2>1, UpTo
    <2> QED
        BY <2>2
<1>4. PICK h : Loop(h, Len(rs))
    BY <1>3
<1> QED
    BY <1>4 DEF M!Heard, Hear

-----------------------------------------------------------------------------
Versions == M!Version

AnyPackage ==
    [name : Nat, source : Nat, version : Versions, sourceVersion : Versions, revision : BOOLEAN]

AnyRange ==
    {c \in [package : Nat, source : Nat, state : M!RangeStates, introduced : Versions,
            fixed : Versions, pro : BOOLEAN, base : BOOLEAN] :
        c.state = "fixed" => c.fixed # M!None}

Verdicts ==
    [fix : Versions, up : Versions, pro : BOOLEAN, affected : BOOLEAN, informative : BOOLEAN,
     clean : BOOLEAN, notAffected : BOOLEAN]

\* What a range says on its own.
Says(p, c) == Hear(p, c, M!NoVerdict)

LEMMA NoVerdictType == M!NoVerdict \in Verdicts /\ M!None \in Versions
BY DEF M!NoVerdict, M!None, Verdicts, Versions, M!Version

\* Versions are ordered.
LEMMA Ordered ==
    ASSUME NEW u \in Versions, NEW v \in Versions, NEW w \in Versions
    PROVE /\ ~M!Below(u, v) /\ ~M!Below(v, u) => u = v
          /\ ~M!Below(u, v) /\ ~M!Below(v, w) => ~M!Below(u, w)
          /\ ~M!Below(u, u)
          /\ M!Below(u, v) => ~M!Below(v, u)
<1>1. u = <<u[1], u[2]>> /\ v = <<v[1], v[2]>>
    BY DEF Versions, M!Version
<1>2. u[1] \in Nat /\ u[2] \in Nat /\ v[1] \in Nat /\ v[2] \in Nat /\ w[1] \in Nat /\ w[2] \in Nat
    BY DEF Versions, M!Version
<1> QED
    BY <1>1, <1>2 DEF M!Below

LEMMA VersionForType ==
    ASSUME NEW p \in AnyPackage, NEW c \in AnyRange
    PROVE M!VersionFor(c, p) \in Versions
BY DEF AnyPackage, M!VersionFor, M!InheritEpoch, Versions, M!Version

\* What is known after a range that says s, when v was known before.
Adds(w, v, s) ==
    /\ w \in Verdicts
    /\ w.pro = (v.pro \/ s.pro)
    /\ w.affected = (v.affected \/ s.affected)
    /\ w.informative = (v.informative \/ s.informative)
    /\ w.clean = (v.clean \/ s.clean)
    /\ w.notAffected = (v.notAffected \/ s.notAffected)
    /\ w.fix = IF s.fix = M!None THEN v.fix ELSE M!Lower(v.fix, s.fix)
    /\ w.up = IF s.up = M!None THEN v.up ELSE M!Lower(v.up, s.up)

\* A range adds to what is known what it says on its own.
LEMMA HearAdds ==
    ASSUME NEW p \in AnyPackage, NEW c \in AnyRange, NEW v \in Verdicts
    PROVE Adds(Hear(p, c, v), v, Says(p, c))
<1> DEFINE w == Hear(p, c, v)
           s == Says(p, c)
           ver == M!VersionFor(c, p)
<1> SUFFICES Adds(w, v, s)
    OBVIOUS
<1> USE DEF M!Lower, Adds
<1>1. M!NoVerdict \in Verdicts
    BY NoVerdictType
<1>2. c.state \in M!RangeStates /\ c.fixed \in Versions /\ (c.state = "fixed" => c.fixed # M!None)
    BY DEF AnyRange
<1>3. CASE ~M!Attached(c, p) \/ (c.introduced # M!None /\ M!Below(ver, c.introduced))
    <2>1. w = v /\ s = M!NoVerdict
        BY <1>3 DEF Says, Hear, M!Weigh
    <2> QED
        BY <2>1 DEF M!NoVerdict, Verdicts
<1>4. CASE M!Attached(c, p) /\ ~(c.introduced # M!None /\ M!Below(ver, c.introduced))
    <2> HIDE DEF ver
    <2>1. CASE M!OnlyPro(c)
        <3>1. \A x \in Verdicts : Hear(p, c, x) =
                IF M!Below(ver, c.fixed) THEN [x EXCEPT !.pro = TRUE] ELSE [x EXCEPT !.clean = TRUE]
            BY <1>4, <2>1 DEF Hear, M!Weigh, ver
        <3>2. CASE M!Below(ver, c.fixed)
            <4>1. w = [v EXCEPT !.pro = TRUE] /\ s = [M!NoVerdict EXCEPT !.pro = TRUE]
                BY <1>1, <3>1, <3>2 DEF Says
            <4> QED
                BY <1>1, <4>1 DEF M!NoVerdict, Verdicts
        <3>3. CASE ~M!Below(ver, c.fixed)
            <4>1. w = [v EXCEPT !.clean = TRUE] /\ s = [M!NoVerdict EXCEPT !.clean = TRUE]
                BY <1>1, <3>1, <3>3 DEF Says
            <4> QED
                BY <1>1, <4>1 DEF M!NoVerdict, Verdicts
        <3> QED
            BY <3>2, <3>3
    <2>2. CASE ~M!OnlyPro(c)
        <3>1. \/ \A x \in Verdicts : Hear(p, c, x) = [x EXCEPT !.notAffected = TRUE]
              \/ \A x \in Verdicts : Hear(p, c, x) = [x EXCEPT !.clean = TRUE]
              \/ c.fixed # M!None /\ \A x \in Verdicts : Hear(p, c, x) = [x EXCEPT !.up = M!Lower(@, c.fixed)]
              \/ c.fixed # M!None /\ \A x \in Verdicts : Hear(p, c, x) = [x EXCEPT !.fix = M!Lower(@, c.fixed)]
              \/ \A x \in Verdicts : Hear(p, c, x) = [x EXCEPT !.affected = TRUE]
              \/ \A x \in Verdicts : Hear(p, c, x) = [x EXCEPT !.informative = TRUE]
            <4>1. CASE c.state = "not_affected"
                BY <1>4, <2>2, <4>1 DEF Hear, M!Weigh, ver
            <4>2. CASE c.state = "fixed"
                BY <1>2, <1>4, <2>2, <4>2 DEF Hear, M!Weigh, M!Reaches, ver
            <4>3. CASE c.state = "affected"
                BY <1>2, <1>4, <2>2, <4>3 DEF Hear, M!Weigh, M!Reaches, ver
            <4>4. CASE c.state \in {"will_not_fix", "under_investigation"}
                BY <1>4, <2>2, <4>4 DEF Hear, M!Weigh, ver
            <4> QED
                BY <1>2, <4>1, <4>2, <4>3, <4>4 DEF M!RangeStates
        <3>2. ASSUME NEW x \in Versions PROVE M!Lower(x, c.fixed) \in Versions
            BY <1>2
        <3>3. CASE \/ w = [v EXCEPT !.notAffected = TRUE] /\ s = [M!NoVerdict EXCEPT !.notAffected = TRUE]
                   \/ w = [v EXCEPT !.clean = TRUE] /\ s = [M!NoVerdict EXCEPT !.clean = TRUE]
                   \/ w = [v EXCEPT !.affected = TRUE] /\ s = [M!NoVerdict EXCEPT !.affected = TRUE]
                   \/ w = [v EXCEPT !.informative = TRUE] /\ s = [M!NoVerdict EXCEPT !.informative = TRUE]
            <4> HIDE DEF w, s
            <4> QED
                BY <3>3 DEF M!NoVerdict, Verdicts
        <3>4. CASE /\ c.fixed # M!None
                   /\ w = [v EXCEPT !.up = M!Lower(@, c.fixed)]
                   /\ s = [M!NoVerdict EXCEPT !.up = M!Lower(@, c.fixed)]
            <4> HIDE DEF w, s
            <4>1. s.up = c.fixed
                BY <1>1, <3>4 DEF M!NoVerdict
            <4> QED
                BY <1>2, <3>2, <3>4, <4>1 DEF M!NoVerdict, Verdicts
        <3>5. CASE /\ c.fixed # M!None
                   /\ w = [v EXCEPT !.fix = M!Lower(@, c.fixed)]
                   /\ s = [M!NoVerdict EXCEPT !.fix = M!Lower(@, c.fixed)]
            <4> HIDE DEF w, s
            <4>1. s.fix = c.fixed
                BY <1>1, <3>5 DEF M!NoVerdict
            <4> QED
                BY <1>2, <3>2, <3>5, <4>1 DEF M!NoVerdict, Verdicts
        <3>6. w = Hear(p, c, v) /\ s = Hear(p, c, M!NoVerdict)
            BY DEF Says
        <3> HIDE DEF w, s
        <3> QED
            BY <1>1, <3>1, <3>3, <3>4, <3>5, <3>6
    <2> QED
        BY <2>1, <2>2
<1> QED
    BY <1>3, <1>4

\* v is what the ranges of S say together of p: each flag is some range's, each
\* version the lowest that a range names.
Sums(v, p, S) ==
    /\ v \in Verdicts
    /\ v.pro = \E c \in S : Says(p, c).pro
    /\ v.affected = \E c \in S : Says(p, c).affected
    /\ v.informative = \E c \in S : Says(p, c).informative
    /\ v.clean = \E c \in S : Says(p, c).clean
    /\ v.notAffected = \E c \in S : Says(p, c).notAffected
    /\ v.fix # M!None => \E c \in S : Says(p, c).fix = v.fix
    /\ v.up # M!None => \E c \in S : Says(p, c).up = v.up
    /\ \A c \in S : Says(p, c).fix # M!None => v.fix # M!None /\ ~M!Below(Says(p, c).fix, v.fix)
    /\ \A c \in S : Says(p, c).up # M!None => v.up # M!None /\ ~M!Below(Says(p, c).up, v.up)

LEMMA SaysType ==
    ASSUME NEW p \in AnyPackage, NEW c \in AnyRange
    PROVE Says(p, c) \in Verdicts
BY HearAdds, NoVerdictType DEF Says, Adds

LEMMA SumsNothing == ASSUME NEW p PROVE Sums(M!NoVerdict, p, {})
BY NoVerdictType DEF Sums, M!NoVerdict

\* The lower of two versions.
LEMMA LowerIs ==
    ASSUME NEW u \in Versions, NEW v \in Versions, v # M!None
    PROVE /\ M!Lower(u, v) # M!None
          /\ M!Lower(u, v) \in {u, v}
          /\ ~M!Below(v, M!Lower(u, v))
          /\ u # M!None => ~M!Below(u, M!Lower(u, v))
BY Ordered, NoVerdictType DEF M!Lower

LEMMA SumsMore ==
    ASSUME NEW p \in AnyPackage, NEW S \in SUBSET AnyRange, NEW c \in AnyRange, NEW v, Sums(v, p, S)
    PROVE Sums(Hear(p, c, v), p, S \cup {c})
<1> DEFINE w == Hear(p, c, v)
           s == Says(p, c)
<1>1. Adds(w, v, s) /\ s \in Verdicts /\ v \in Verdicts
    BY HearAdds, SaysType DEF Sums
<1>2. \A d \in S : Says(p, d) \in Verdicts
    BY SaysType
<1> SUFFICES Sums(w, p, S \cup {c})
    OBVIOUS
<1> HIDE DEF w
<1>3. /\ w \in Verdicts
      /\ w.pro = \E d \in S \cup {c} : Says(p, d).pro
      /\ w.affected = \E d \in S \cup {c} : Says(p, d).affected
      /\ w.informative = \E d \in S \cup {c} : Says(p, d).informative
      /\ w.clean = \E d \in S \cup {c} : Says(p, d).clean
      /\ w.notAffected = \E d \in S \cup {c} : Says(p, d).notAffected
    BY <1>1 DEF Adds, Sums
<1>4. /\ w.fix # M!None => \E d \in S \cup {c} : Says(p, d).fix = w.fix
      /\ \A d \in S \cup {c} : Says(p, d).fix # M!None => w.fix # M!None /\ ~M!Below(Says(p, d).fix, w.fix)
    <2>1. v.fix \in Versions /\ s.fix \in Versions /\ \A d \in S : Says(p, d).fix \in Versions
        BY <1>1, <1>2 DEF Verdicts
    <2>2. CASE s.fix = M!None
        BY <1>1, <2>2 DEF Adds, Sums
    <2>3. CASE s.fix # M!None
        <3>1. w.fix = M!Lower(v.fix, s.fix)
            BY <1>1, <2>3 DEF Adds
        <3>2. w.fix \in {v.fix, s.fix} /\ w.fix # M!None /\ ~M!Below(s.fix, w.fix)
              /\ (v.fix # M!None => ~M!Below(v.fix, w.fix))
            BY <2>1, <2>3, <3>1, LowerIs
        <3>3. ASSUME NEW d \in S, Says(p, d).fix # M!None PROVE ~M!Below(Says(p, d).fix, w.fix)
            <4>1. v.fix # M!None /\ ~M!Below(Says(p, d).fix, v.fix)
                BY <3>3 DEF Sums
            <4> QED
                BY <2>1, <3>2, <4>1, Ordered
        <3> HIDE DEF s
        <3>4. \E d \in S \cup {c} : Says(p, d).fix = w.fix
            BY <3>2 DEF Sums, s
        <3> QED
            BY <3>2, <3>3, <3>4 DEF s
    <2> QED
        BY <2>2, <2>3
<1>5. /\ w.up # M!None => \E d \in S \cup {c} : Says(p, d).up = w.up
      /\ \A d \in S \cup {c} : Says(p, d).up # M!None => w.up # M!None /\ ~M!Below(Says(p, d).up, w.up)
    <2>1. v.up \in Versions /\ s.up \in Versions /\ \A d \in S : Says(p, d).up \in Versions
        BY <1>1, <1>2 DEF Verdicts
    <2>2. CASE s.up = M!None
        BY <1>1, <2>2 DEF Adds, Sums
    <2>3. CASE s.up # M!None
        <3>1. w.up = M!Lower(v.up, s.up)
            BY <1>1, <2>3 DEF Adds
        <3>2. w.up \in {v.up, s.up} /\ w.up # M!None /\ ~M!Below(s.up, w.up)
              /\ (v.up # M!None => ~M!Below(v.up, w.up))
            BY <2>1, <2>3, <3>1, LowerIs
        <3>3. ASSUME NEW d \in S, Says(p, d).up # M!None PROVE ~M!Below(Says(p, d).up, w.up)
            <4>1. v.up # M!None /\ ~M!Below(Says(p, d).up, v.up)
                BY <3>3 DEF Sums
            <4> QED
                BY <2>1, <3>2, <4>1, Ordered
        <3> HIDE DEF s
        <3>4. \E d \in S \cup {c} : Says(p, d).up = w.up
            BY <3>2 DEF Sums, s
        <3> QED
            BY <3>2, <3>3, <3>4 DEF s
    <2> QED
        BY <2>2, <2>3
<1> QED
    BY <1>3, <1>4, <1>5 DEF Sums

\* What ranges say together does not depend on an order.
LEMMA SumsOne ==
    ASSUME NEW p \in AnyPackage, NEW S \in SUBSET AnyRange, NEW v, Sums(v, p, S), NEW w, Sums(w, p, S)
    PROVE v = w
<1>1. v \in Verdicts /\ w \in Verdicts
    BY DEF Sums
<1>2. v.fix = w.fix /\ v.up = w.up
    BY <1>1, Ordered DEF Sums, Verdicts
<1>3. v.pro = w.pro /\ v.affected = w.affected /\ v.informative = w.informative
      /\ v.clean = w.clean /\ v.notAffected = w.notAffected
    BY DEF Sums
<1> QED
    BY <1>1, <1>2, <1>3 DEF Verdicts

RowsOf(rs, n) == {rs[i] : i \in 1..n}

\* The loop of judge computes it.
LEMMA HeardSums ==
    ASSUME NEW p \in AnyPackage, NEW rs \in Seq(AnyRange)
    PROVE Sums(M!Heard(p, rs)[Len(rs)], p, RowsOf(rs, Len(rs)))
<1> DEFINE h == M!Heard(p, rs)
           T == {n \in 0..Len(rs) : Sums(h[n], p, RowsOf(rs, n))}
<1>1. Len(rs) \in Nat
    OBVIOUS
<1>2. h = [n \in 0..Len(rs) |-> IF n = 0 THEN M!NoVerdict ELSE Hear(p, rs[n], h[n - 1])]
    BY <1>1, HeardIs
<1> HIDE DEF h
<1>3. 0 \in T
    <2>1. RowsOf(rs, 0) = {}
        BY DEF RowsOf
    <2>2. h[0] = M!NoVerdict
        BY <1>1, <1>2
    <2>3. Sums(M!NoVerdict, p, {})
        BY SumsNothing
    <2>4. Sums(h[0], p, RowsOf(rs, 0))
        BY Zenon, <2>1, <2>2, <2>3
    <2> QED
        BY <1>1, <2>4
<1>4. ASSUME NEW m \in 1..Len(rs), m - 1 \in T PROVE m \in T
    <2>1. rs[m] \in AnyRange /\ RowsOf(rs, m - 1) \in SUBSET AnyRange
        BY DEF RowsOf
    <2>2. RowsOf(rs, m) = RowsOf(rs, m - 1) \cup {rs[m]}
        BY DEF RowsOf
    <2>3. h[m] = Hear(p, rs[m], h[m - 1])
        BY <1>2
    <2>4. Sums(h[m - 1], p, RowsOf(rs, m - 1))
        BY <1>4
    <2> QED
        BY <2>1, <2>2, <2>3, <2>4, SumsMore
<1>5. 0..Len(rs) \subseteq T
    <2> HIDE DEF T
    <2>1. \A m \in 1..Len(rs) : m - 1 \in T => m \in T
        BY <1>4
    <2> QED
        BY <1>1, <1>3, <2>1, UpTo
<1> QED
    BY <1>1, <1>5 DEF h

-----------------------------------------------------------------------------
\* A range that calls a version fixed which the package has reached makes it clean.
LEMMA Clears ==
    ASSUME NEW p \in AnyPackage, NEW c \in AnyRange,
           M!Attached(c, p), c.state \in {"fixed", "affected"}, c.fixed # M!None,
           c.introduced = M!None \/ M!Reaches(M!VersionFor(c, p), c.introduced),
           M!Reaches(M!VersionFor(c, p), c.fixed)
    PROVE Says(p, c).clean
<1> DEFINE ver == M!VersionFor(c, p)
<1>1. ~M!Below(ver, c.fixed) /\ ~(c.introduced # M!None /\ M!Below(ver, c.introduced))
    BY DEF M!Reaches
<1> HIDE DEF ver
<1>2. Says(p, c) = [M!NoVerdict EXCEPT !.clean = TRUE]
    <2>1. CASE M!OnlyPro(c)
        BY <1>1, <2>1 DEF Says, Hear, M!Weigh, ver
    <2>2. CASE ~M!OnlyPro(c)
        BY <1>1, <2>2 DEF Says, Hear, M!Weigh, M!Reaches, ver
    <2> QED
        BY <2>1, <2>2
<1> QED
    BY <1>2 DEF M!NoVerdict

\* What a range must be to name the version to install.
LEMMA Fixes ==
    ASSUME NEW p \in AnyPackage, NEW c \in AnyRange, Says(p, c).fix # M!None
    PROVE /\ M!Attached(c, p) /\ c.state = "fixed" /\ c.fixed = Says(p, c).fix
          /\ ~M!OnlyPro(c) /\ ~M!FromBase(c)
          /\ M!Below(M!VersionFor(c, p), c.fixed)
          /\ c.introduced = M!None \/ M!Reaches(M!VersionFor(c, p), c.introduced)
<1> DEFINE ver == M!VersionFor(c, p)
<1> HIDE DEF ver
<1>1. M!NoVerdict.fix = M!None
    BY DEF M!NoVerdict
<1>2. M!Attached(c, p) /\ ~(c.introduced # M!None /\ M!Below(ver, c.introduced))
    BY <1>1 DEF Says, Hear, M!Weigh, ver
<1>3. ~M!OnlyPro(c)
    BY <1>1, <1>2 DEF Says, Hear, M!Weigh, M!NoVerdict, ver
<1>4. c.state = "fixed"
    <2>1. c.state \in M!RangeStates
        BY DEF AnyRange
    <2>2. CASE c.state # "fixed"
        BY <1>1, <1>2, <1>3, <2>1, <2>2 DEF Says, Hear, M!Weigh, M!NoVerdict, M!RangeStates, M!Reaches, ver
    <2> QED
        BY <2>2
<1>5. c.fixed # M!None
    BY <1>4 DEF AnyRange
<1>6. M!Below(ver, c.fixed) /\ ~M!FromBase(c)
    BY <1>1, <1>2, <1>3, <1>4, <1>5 DEF Says, Hear, M!Weigh, M!NoVerdict, M!Reaches, ver
<1>7. c.fixed = Says(p, c).fix
    BY <1>1, <1>2, <1>3, <1>4, <1>5, <1>6 DEF Says, Hear, M!Weigh, M!NoVerdict, M!Reaches, M!Lower, ver
<1> QED
    BY <1>2, <1>3, <1>4, <1>6, <1>7 DEF M!Reaches, ver

\* What the matcher knows of a host, and may be given.
MatcherInv ==
    /\ inventory \in Seq(Packages) /\ loaded \in Seq(Ranges)
    /\ onPro \in BOOLEAN /\ rebuild \in BOOLEAN
    /\ \A i, j \in DOMAIN inventory : inventory[i].name = inventory[j].name => i = j

LEMMA GivenTypes ==
    ASSUME M!WellFormed
    PROVE /\ Packages \subseteq AnyPackage /\ Ranges \subseteq AnyRange
          /\ \A rs \in Seq(Ranges) : rs \in Seq(AnyRange)
<1>1. Packages \subseteq AnyPackage /\ Ranges \subseteq AnyRange
    BY DEF M!WellFormed, AnyPackage, AnyRange, Versions
<1> QED
    BY <1>1

LEMMA JudgeIs ==
    ASSUME NEW p \in AnyPackage, NEW rs \in Seq(AnyRange)
    PROVE \E v : /\ Sums(v, p, RowsOf(rs, Len(rs)))
                 /\ M!Judge(p, rs).kind = M!KindOf(v)
                 /\ M!Judge(p, rs).package = p.name
                 /\ M!Judge(p, rs).fixed = IF v.fix # M!None THEN v.fix ELSE v.up
BY HeardSums DEF M!Judge

\* The version the epoch belongs to is the one compared.
LEMMA TrueIsFor ==
    ASSUME NEW p \in AnyPackage, p.sourceVersion[1] = 0, NEW c
    PROVE M!TrueVersion(c, p) = M!VersionFor(c, p)
<1>1. p.sourceVersion = <<p.sourceVersion[1], p.sourceVersion[2]>>
    BY DEF AnyPackage, Versions, M!Version
<1> QED
    BY <1>1 DEF M!TrueVersion, M!VersionFor, M!InheritEpoch

\* match.go, judge: a package that has reached a version some range calls fixed is
\* clean, whatever other ranges say.
LEMMA CleanJudged ==
    ASSUME NEW p \in AnyPackage, NEW rs \in Seq(AnyRange),
           NEW c \in RowsOf(rs, Len(rs)), Says(p, c).clean
    PROVE M!Judge(p, rs).kind \in {"clean", "not_affected"}
<1>1. PICK v : Sums(v, p, RowsOf(rs, Len(rs))) /\ M!Judge(p, rs).kind = M!KindOf(v)
    BY JudgeIs
<1>2. v.clean /\ v.notAffected \in BOOLEAN
    BY <1>1 DEF Sums, Verdicts
<1> QED
    BY <1>1, <1>2 DEF M!KindOf

LEMMA NeverFlagged == M!WellFormed /\ MatcherInv => M!PatchedNeverFlagged
<1> SUFFICES ASSUME M!WellFormed, MatcherInv, NEW p \in M!Installed, NEW c \in M!Loaded,
                    M!Attached(c, p), c.state \in {"fixed", "affected"}, c.fixed # M!None,
                    c.introduced = M!None \/ M!Reaches(M!TrueVersion(c, p), c.introduced),
                    M!Reaches(M!TrueVersion(c, p), c.fixed)
             PROVE M!Judge(p, loaded).kind \in {"clean", "not_affected"}
    BY DEF M!PatchedNeverFlagged
<1>1. p \in Packages /\ c \in RowsOf(loaded, Len(loaded)) /\ c \in Ranges /\ loaded \in Seq(Ranges)
    BY DEF MatcherInv, M!Installed, M!Loaded, RowsOf
<1>2. p \in AnyPackage /\ c \in AnyRange /\ loaded \in Seq(AnyRange)
    BY <1>1, GivenTypes
<1>3. p.sourceVersion[1] = 0
    BY <1>1 DEF M!WellFormed
<1>4. M!TrueVersion(c, p) = M!VersionFor(c, p)
    BY <1>2, <1>3, TrueIsFor
<1>5. Says(p, c).clean
    BY <1>2, <1>4, Clears
<1> QED
    BY <1>1, <1>2, <1>5, CleanJudged

\* Once a package is brought to the version a range names, the range calls it clean.
LEMMA UpdateClears ==
    ASSUME NEW p \in AnyPackage, NEW c \in AnyRange, Says(p, c).fix # M!None
    PROVE LET q == M!Updated(p, c, c.fixed) IN q \in AnyPackage /\ Says(q, c).clean
<1> DEFINE q == M!Updated(p, c, c.fixed)
           ver == M!VersionFor(c, p)
           new == M!VersionFor(c, q)
           bySource == c.source # M!NoName /\ p.source = c.source /\ p.sourceVersion # M!None
<1>1. /\ M!Attached(c, p) /\ c.state = "fixed"
      /\ M!Below(ver, c.fixed)
      /\ c.introduced = M!None \/ M!Reaches(ver, c.introduced)
    BY Fixes
<1>2. c.fixed \in Versions /\ c.introduced \in Versions /\ c.fixed # M!None
    BY <1>1 DEF AnyRange
<1>3. /\ p.version = <<p.version[1], p.version[2]>> /\ p.version[1] \in Nat /\ p.version[2] \in Nat
      /\ p.sourceVersion \in Versions /\ p.name \in Nat /\ p.source \in Nat /\ p.revision \in BOOLEAN
      /\ c.fixed = <<c.fixed[1], c.fixed[2]>> /\ c.fixed[1] \in Nat /\ c.fixed[2] \in Nat
    BY <1>2 DEF AnyPackage, Versions, M!Version
<1> DEFINE mixed == <<c.fixed[1], p.version[2]>>
           plain == <<0, c.fixed[2]>>
<1>4. mixed \in Versions /\ plain \in Versions
    BY <1>3 DEF Versions, M!Version
<1>5. q = IF bySource THEN [p EXCEPT !.version = mixed, !.sourceVersion = plain]
          ELSE [p EXCEPT !.version = c.fixed]
    BY DEF M!Updated
<1>6. /\ q \in AnyPackage /\ q.name = p.name /\ q.source = p.source
      /\ q.version = IF bySource THEN mixed ELSE c.fixed
      /\ q.sourceVersion = IF bySource THEN plain ELSE p.sourceVersion
    <2> HIDE DEF q, mixed, plain, bySource
    <2> QED
        BY <1>2, <1>4, <1>5 DEF AnyPackage
<1>7. M!Attached(c, q)
    <2> HIDE DEF q
    <2> QED
        BY <1>1, <1>6 DEF M!Attached, M!RangeAppliesTo
<1>8. new \in Versions /\ ver \in Versions
    <2> HIDE DEF q
    <2> QED
        BY <1>6, VersionForType
<1>9. ~M!Below(new, c.fixed)
    <2> HIDE DEF q
    <2>1. CASE ~bySource
        <3>1. new = c.fixed
            BY <1>6, <2>1 DEF M!VersionFor
        <3> QED
            BY <1>2, <3>1, Ordered
    <2>2. CASE bySource
        <3>1. q.version = mixed /\ q.sourceVersion = plain /\ q.source = c.source /\ c.source # M!NoName
            BY <1>6, <2>2
        <3>2. CASE plain = M!None
            <4>1. new = mixed
                BY <3>1, <3>2 DEF M!VersionFor
            <4>2. c.fixed[2] = 0
                BY <3>2 DEF M!None
            <4> QED
                BY <1>3, <4>1, <4>2 DEF M!Below
        <3>3. CASE plain # M!None
            <4>1. new = M!InheritEpoch(plain, mixed)
                BY <3>1, <3>3 DEF M!VersionFor
            <4>2. new[1] = c.fixed[1] /\ new[2] = c.fixed[2]
                BY <1>3, <4>1 DEF M!InheritEpoch
            <4> QED
                BY <1>3, <4>2 DEF M!Below
        <3> QED
            BY <3>2, <3>3
    <2> QED
        BY <2>1, <2>2
<1>10. c.introduced = M!None \/ ~M!Below(new, c.introduced)
    <2> HIDE DEF new, ver
    <2> SUFFICES ASSUME c.introduced # M!None PROVE ~M!Below(new, c.introduced)
        OBVIOUS
    <2>1. ~M!Below(ver, c.introduced)
        BY <1>1 DEF M!Reaches
    <2>2. ~M!Below(c.fixed, ver)
        BY <1>1, <1>2, <1>8, Ordered
    <2>3. ~M!Below(c.fixed, c.introduced)
        BY <1>2, <1>8, <2>1, <2>2, Ordered
    <2> QED
        BY <1>2, <1>8, <1>9, <2>3, Ordered
<1> HIDE DEF q
<1>11. Says(q, c).clean
    BY <1>1, <1>2, <1>6, <1>7, <1>9, <1>10, Clears DEF M!Reaches
<1> QED
    BY <1>6, <1>11 DEF q

\* match.go, judge: the version a finding names is one the host can have, and leads out.
LEMMA LeadsOut == M!WellFormed /\ MatcherInv => M!FixLeadsOut
<1> SUFFICES ASSUME M!WellFormed, MatcherInv, NEW p \in M!Installed, M!Judge(p, loaded).kind = "finding"
             PROVE \E c \in M!Loaded :
                      /\ M!Attached(c, p) /\ c.state = "fixed" /\ c.fixed = M!Judge(p, loaded).fixed
                      /\ c.pro => onPro
                      /\ rebuild => ~c.base
                      /\ M!Judge(M!Updated(p, c, M!Judge(p, loaded).fixed), loaded).kind
                            \in {"clean", "not_affected"}
    BY DEF M!FixLeadsOut
<1> DEFINE S == RowsOf(loaded, Len(loaded))
           f == M!Judge(p, loaded)
<1>1. p \in Packages /\ M!Loaded = S /\ S \subseteq Ranges /\ loaded \in Seq(Ranges)
    BY DEF MatcherInv, M!Installed, M!Loaded, RowsOf
<1>2. p \in AnyPackage /\ S \subseteq AnyRange /\ loaded \in Seq(AnyRange)
    BY <1>1, GivenTypes
<1>3. PICK v : /\ Sums(v, p, S) /\ f.kind = M!KindOf(v)
               /\ f.fixed = IF v.fix # M!None THEN v.fix ELSE v.up
    BY <1>2, JudgeIs
<1>4. v.fix # M!None
    <2>1. v \in Verdicts
        BY <1>3 DEF Sums
    <2> QED
        BY <1>3, <2>1 DEF M!KindOf, Verdicts
<1>5. PICK c \in S : Says(p, c).fix = v.fix
    BY <1>3, <1>4 DEF Sums
<1>6. c \in AnyRange /\ Says(p, c).fix # M!None
    BY <1>2, <1>4, <1>5
<1> HIDE DEF f
<1>7. /\ M!Attached(c, p) /\ c.state = "fixed" /\ c.fixed = f.fixed
      /\ c.pro => onPro
      /\ rebuild => ~c.base
    BY <1>2, <1>3, <1>4, <1>5, <1>6, Fixes DEF M!OnlyPro, M!FromBase
<1>8. M!Judge(M!Updated(p, c, f.fixed), loaded).kind \in {"clean", "not_affected"}
    BY <1>2, <1>6, <1>7, UpdateClears, CleanJudged
<1> QED
    BY <1>1, <1>7, <1>8 DEF f

-----------------------------------------------------------------------------
\* Rows in another order: the same ranges, and so the same verdict.
LEMMA SameVerdict ==
    ASSUME NEW p \in AnyPackage, NEW rs \in Seq(AnyRange), NEW ts \in Seq(AnyRange),
           RowsOf(rs, Len(rs)) = RowsOf(ts, Len(ts))
    PROVE M!VerdictOn(p, rs) = M!VerdictOn(p, ts)
<1>1. M!Mapped(p, rs) = M!Mapped(p, ts)
    <2>1. M!Mapped(p, rs) = \E c \in RowsOf(rs, Len(rs)) : M!Attached(c, p)
        BY DEF M!Mapped, RowsOf
    <2>2. M!Mapped(p, ts) = \E c \in RowsOf(ts, Len(ts)) : M!Attached(c, p)
        BY DEF M!Mapped, RowsOf
    <2> QED
        BY <2>1, <2>2
<1>2. M!Judge(p, rs) = M!Judge(p, ts)
    <2>1. RowsOf(rs, Len(rs)) \subseteq AnyRange
        BY DEF RowsOf
    <2>2. M!Heard(p, rs)[Len(rs)] = M!Heard(p, ts)[Len(ts)]
        BY <2>1, HeardSums, SumsOne
    <2> QED
        BY <2>2 DEF M!Judge
<1> QED
    BY <1>1, <1>2 DEF M!VerdictOn

\* What is kept for a family after one more package.
Keep(p, rs, family, f) ==
    IF M!FamilyOf(p) = family THEN M!AddFinding(f, M!VerdictOn(p, rs)) ELSE f

LEMMA KeptIs ==
    ASSUME NEW ps, NEW rs, NEW family, Len(ps) \in Nat
    PROVE M!Kept(ps, rs, family) =
            [n \in 0..Len(ps) |->
                IF n = 0 THEN M!NoFinding ELSE Keep(ps[n], rs, family, M!Kept(ps, rs, family)[n - 1])]
<1> DEFINE Loop(h, m) ==
              h = [n \in 0..m |-> IF n = 0 THEN M!NoFinding ELSE Keep(ps[n], rs, family, h[n - 1])]
           T == {m \in Nat : \E h : Loop(h, m)}
<1>1. 0 \in T
    <2>1. Loop([n \in 0..0 |-> M!NoFinding], 0)
        OBVIOUS
    <2> QED
        BY <2>1
<1>2. ASSUME NEW m \in 1..Len(ps), m - 1 \in T PROVE m \in T
    <2>1. PICK h : Loop(h, m - 1)
        BY <1>2
    <2> DEFINE g == [n \in 0..m |-> IF n = m THEN Keep(ps[m], rs, family, h[m - 1]) ELSE h[n]]
    <2>2. ASSUME NEW n \in 0..m
          PROVE g[n] = IF n = 0 THEN M!NoFinding ELSE Keep(ps[n], rs, family, g[n - 1])
        <3>1. CASE n = m
            BY <3>1
        <3>2. CASE n # m
            <4>1. n \in 0..(m - 1)
                BY <3>2
            <4>2. h[n] = IF n = 0 THEN M!NoFinding ELSE Keep(ps[n], rs, family, h[n - 1])
                BY <2>1, <4>1
            <4>3. n # 0 => n - 1 \in 0..m /\ n - 1 # m
                BY <4>1
            <4> QED
                BY <3>2, <4>2, <4>3
        <3> QED
            BY <3>1, <3>2
    <2> HIDE DEF g
    <2>3. g = [n \in 0..m |-> IF n = 0 THEN M!NoFinding ELSE Keep(ps[n], rs, family, g[n - 1])]
        <3>1. g = [n \in 0..m |-> g[n]]
            BY DEF g
        <3> QED
            BY <2>2, <3>1
    <2> QED
        BY <2>3
<1>3. Len(ps) \in T
    <2> HIDE DEF T
    <2>1. \A m \in 1..Len(ps) : m - 1 \in T => m \in T
        BY <1>2
    <2>2. 0..Len(ps) \subseteq T
        BY <1>1, <2>1, UpTo
    <2> QED
        BY <2>2
<1>4. PICK h : Loop(h, Len(ps))
    BY <1>3
<1> QED
    BY <1>4 DEF M!Kept, Keep

\* A package with something to report for the family.
Counts(p, rs, family) == M!FamilyOf(p) = family /\ M!VerdictOn(p, rs).kind \in M!FindingKinds

Better(f, g) ==
    \/ M!KindRank(f.kind) < M!KindRank(g.kind)
    \/ f.kind = g.kind /\ f.package < g.package

\* f is what is kept of the packages of S: the verdict on one of them, and none is better.
Best(f, S, rs, family) ==
    /\ f.kind \notin M!FindingKinds => f = M!NoFinding /\ \A p \in S : ~Counts(p, rs, family)
    /\ f.kind \in M!FindingKinds =>
          /\ \E p \in S : Counts(p, rs, family) /\ f = M!VerdictOn(p, rs)
          /\ \A p \in S : Counts(p, rs, family) => ~Better(M!VerdictOn(p, rs), f)

LEMMA VerdictNames ==
    ASSUME NEW p, NEW rs
    PROVE M!VerdictOn(p, rs).package = p.name
BY DEF M!VerdictOn, M!Judge, M!NoFinding

LEMMA BestNothing == ASSUME NEW rs, NEW family PROVE Best(M!NoFinding, {}, rs, family)
BY DEF Best, M!NoFinding, M!FindingKinds

LEMMA BestMore ==
    ASSUME NEW S \in SUBSET AnyPackage, NEW p \in AnyPackage, NEW rs, NEW family, NEW f,
           Best(f, S, rs, family)
    PROVE Best(Keep(p, rs, family, f), S \cup {p}, rs, family)
<1> DEFINE g == M!VerdictOn(p, rs)
           k == Keep(p, rs, family, f)
<1>1. CASE ~Counts(p, rs, family)
    <2>1. k = f
        BY <1>1 DEF Counts, Keep, M!AddFinding
    <2> QED
        BY <1>1, <2>1 DEF Best
<1>2. CASE Counts(p, rs, family) /\ f.kind \notin M!FindingKinds
    <2>1. k = g
        BY <1>2 DEF Counts, Keep, M!AddFinding
    <2>2. g.kind \in M!FindingKinds /\ g.package \in Nat
        BY <1>2, VerdictNames DEF Counts, AnyPackage
    <2>3. ~Better(g, g)
        BY <2>2 DEF Better, M!KindRank, M!FindingKinds
    <2> HIDE DEF g, k
    <2> QED
        BY <1>2, <2>1, <2>2, <2>3 DEF Best, g, k
<1>3. CASE Counts(p, rs, family) /\ f.kind \in M!FindingKinds
    <2>1. g.kind \in M!FindingKinds /\ g.package \in Nat
        BY <1>3, VerdictNames DEF Counts, AnyPackage
    <2>2. PICK q \in S : Counts(q, rs, family) /\ f = M!VerdictOn(q, rs)
        BY <1>3 DEF Best
    <2>3. f.package \in Nat
        BY <2>2, VerdictNames DEF AnyPackage
    <2>4. k = IF Better(g, f) THEN g ELSE f
        <3>1. k = M!AddFinding(f, g)
            BY <1>3 DEF Counts, Keep
        <3> HIDE DEF g, k
        <3> QED
            BY <1>3, <2>1, <2>3, <3>1 DEF M!AddFinding, Better, M!KindRank, M!FindingKinds
    <2>5. ~Better(g, g)
        BY <2>1 DEF Better, M!KindRank, M!FindingKinds
    <2>6. ASSUME NEW r \in S, Counts(r, rs, family), Better(g, f) PROVE ~Better(M!VerdictOn(r, rs), g)
        <3> DEFINE h == M!VerdictOn(r, rs)
        <3>1. ~Better(h, f)
            BY <1>3, <2>6 DEF Best
        <3>2. h.kind \in M!FindingKinds /\ h.package \in Nat
            BY <2>6, VerdictNames DEF Counts, AnyPackage
        <3> HIDE DEF g, h
        <3> QED
            BY <1>3, <2>1, <2>3, <2>6, <3>1, <3>2 DEF Better, M!KindRank, M!FindingKinds, h
    <2> HIDE DEF g, k
    <2>7. CASE Better(g, f)
        BY <1>3, <2>1, <2>4, <2>5, <2>6, <2>7 DEF Best, g, k
    <2>8. CASE ~Better(g, f)
        BY <1>3, <2>2, <2>4, <2>8 DEF Best, g, k
    <2> QED
        BY <2>7, <2>8
<1> QED
    BY <1>1, <1>2, <1>3

LEMMA KeptBest ==
    ASSUME NEW ps \in Seq(AnyPackage), NEW rs, NEW family
    PROVE Best(M!Match(ps, rs, family), RowsOf(ps, Len(ps)), rs, family)
<1> DEFINE h == M!Kept(ps, rs, family)
           T == {n \in 0..Len(ps) : Best(h[n], RowsOf(ps, n), rs, family)}
<1>1. Len(ps) \in Nat
    OBVIOUS
<1>2. h = [n \in 0..Len(ps) |-> IF n = 0 THEN M!NoFinding ELSE Keep(ps[n], rs, family, h[n - 1])]
    BY <1>1, KeptIs
<1> HIDE DEF h
<1>3. 0 \in T
    <2>1. RowsOf(ps, 0) = {}
        BY DEF RowsOf
    <2>2. h[0] = M!NoFinding
        BY <1>1, <1>2
    <2>3. Best(M!NoFinding, {}, rs, family)
        BY BestNothing
    <2>4. Best(h[0], RowsOf(ps, 0), rs, family)
        BY Zenon, <2>1, <2>2, <2>3
    <2> QED
        BY <1>1, <2>4
<1>4. ASSUME NEW m \in 1..Len(ps), m - 1 \in T PROVE m \in T
    <2>1. ps[m] \in AnyPackage /\ RowsOf(ps, m - 1) \in SUBSET AnyPackage
        BY DEF RowsOf
    <2>2. RowsOf(ps, m) = RowsOf(ps, m - 1) \cup {ps[m]}
        BY DEF RowsOf
    <2>3. h[m] = Keep(ps[m], rs, family, h[m - 1])
        BY <1>2
    <2>4. Best(h[m - 1], RowsOf(ps, m - 1), rs, family)
        BY <1>4
    <2> QED
        BY <2>1, <2>2, <2>3, <2>4, BestMore
<1>5. 0..Len(ps) \subseteq T
    <2> HIDE DEF T
    <2>1. \A m \in 1..Len(ps) : m - 1 \in T => m \in T
        BY <1>4
    <2> QED
        BY <1>1, <1>3, <2>1, UpTo
<1> QED
    BY <1>1, <1>5 DEF h, M!Match

\* Of packages under different names, what is kept is one of them, whatever the order.
LEMMA BestOne ==
    ASSUME NEW S \in SUBSET AnyPackage, \A p, q \in S : p.name = q.name => p = q,
           NEW rs, NEW ts, \A p \in S : M!VerdictOn(p, rs) = M!VerdictOn(p, ts),
           NEW family, NEW f, Best(f, S, rs, family), NEW g, Best(g, S, ts, family)
    PROVE f = g
<1>1. \A p \in S : Counts(p, rs, family) <=> Counts(p, ts, family)
    BY DEF Counts
<1>2. CASE f.kind \notin M!FindingKinds \/ g.kind \notin M!FindingKinds
    BY <1>1, <1>2 DEF Best
<1>3. CASE f.kind \in M!FindingKinds /\ g.kind \in M!FindingKinds
    <2>1. PICK p \in S : Counts(p, rs, family) /\ f = M!VerdictOn(p, rs)
        BY <1>3 DEF Best
    <2>2. PICK q \in S : Counts(q, ts, family) /\ g = M!VerdictOn(q, ts)
        BY <1>3 DEF Best
    <2>3. f.package = p.name /\ g.package = q.name /\ p.name \in Nat /\ q.name \in Nat
        BY <2>1, <2>2, VerdictNames DEF AnyPackage
    <2>4. ~Better(f, g) /\ ~Better(g, f)
        BY <1>1, <1>3, <2>1, <2>2 DEF Best
    <2>5. f.kind = g.kind /\ f.package = g.package
        BY <1>3, <2>3, <2>4 DEF Better, M!KindRank, M!FindingKinds
    <2>6. p = q
        BY <2>3, <2>5
    <2> QED
        BY <2>1, <2>2, <2>6
<1> QED
    BY <1>2, <1>3

\* Reversed, a sequence lists the same.
LEMMA Reversed ==
    ASSUME NEW X, NEW s \in Seq(X)
    PROVE M!Reverse(s) \in Seq(X) /\ RowsOf(M!Reverse(s), Len(M!Reverse(s))) = RowsOf(s, Len(s))
<1> DEFINE r == M!Reverse(s)
<1>1. r = [i \in 1..Len(s) |-> s[(Len(s) - i) + 1]]
    BY DEF M!Reverse
<1>2. r \in Seq(X) /\ Len(r) = Len(s)
    <2> HIDE DEF r
    <2>1. \A i \in 1..Len(s) : (Len(s) - i) + 1 \in 1..Len(s)
        OBVIOUS
    <2>2. Len(s) \in Nat /\ r \in [1..Len(s) -> X]
        BY <1>1, <2>1
    <2> QED
        BY <2>2
<1>3. \A i \in 1..Len(s) : r[i] = s[(Len(s) - i) + 1]
    BY <1>1
<1> HIDE DEF r
<1>4. RowsOf(r, Len(s)) \subseteq RowsOf(s, Len(s))
    BY <1>3 DEF RowsOf
<1>5. ASSUME NEW i \in 1..Len(s) PROVE s[i] \in RowsOf(r, Len(s))
    <2>1. (Len(s) - i) + 1 \in 1..Len(s) /\ (Len(s) - ((Len(s) - i) + 1)) + 1 = i
        OBVIOUS
    <2>2. r[(Len(s) - i) + 1] = s[i]
        BY <1>3, <2>1
    <2> QED
        BY <2>1, <2>2 DEF RowsOf
<1>6. RowsOf(s, Len(s)) \subseteq RowsOf(r, Len(s))
    BY <1>5 DEF RowsOf
<1> QED
    BY <1>2, <1>4, <1>6 DEF r

\* match.go, judge and addFinding: the order of packages and of rows does not matter.
LEMMA OrderDoesNotMatter == M!WellFormed /\ MatcherInv => M!OrderFree
<1> SUFFICES ASSUME M!WellFormed, MatcherInv, NEW family
             PROVE M!Match(inventory, loaded, family)
                    = M!Match(M!Reverse(inventory), M!Reverse(loaded), family)
    BY DEF M!OrderFree
<1> DEFINE ps == M!Reverse(inventory)
           rs == M!Reverse(loaded)
           S == RowsOf(inventory, Len(inventory))
<1>1. inventory \in Seq(Packages) /\ loaded \in Seq(Ranges)
    BY DEF MatcherInv
<1>2. inventory \in Seq(AnyPackage) /\ loaded \in Seq(AnyRange)
    BY <1>1, GivenTypes
<1>3. ps \in Seq(AnyPackage) /\ RowsOf(ps, Len(ps)) = S
    BY <1>2, Reversed
<1>4. rs \in Seq(AnyRange) /\ RowsOf(rs, Len(rs)) = RowsOf(loaded, Len(loaded))
    BY <1>2, Reversed
<1>5. S \in SUBSET AnyPackage
    BY <1>2 DEF RowsOf
<1>6. \A p, q \in S : p.name = q.name => p = q
    BY <1>1 DEF MatcherInv, RowsOf
<1> HIDE DEF ps, rs, S
<1>7. \A p \in S : M!VerdictOn(p, loaded) = M!VerdictOn(p, rs)
    BY <1>2, <1>4, <1>5, SameVerdict
<1>8. Best(M!Match(inventory, loaded, family), S, loaded, family)
    BY <1>2, KeptBest DEF S
<1>9. Best(M!Match(ps, rs, family), S, rs, family)
    BY <1>3, KeptBest
<1>10. M!Match(inventory, loaded, family) = M!Match(ps, rs, family)
    BY <1>5, <1>6, <1>7, <1>8, <1>9, BestOne
<1> QED
    BY <1>10 DEF ps, rs

LEMMA MatcherInit == M!Init => MatcherInv
<1> SUFFICES ASSUME M!Init PROVE MatcherInv
    OBVIOUS
<1>1. inventory = <<>> /\ loaded = <<>> /\ onPro \in BOOLEAN /\ rebuild \in BOOLEAN
    BY DEF M!Init
<1> QED
    BY <1>1 DEF MatcherInv

LEMMA MatcherStep == MatcherInv /\ [M!Next]_(M!vars) => MatcherInv'
<1> SUFFICES ASSUME MatcherInv, [M!Next]_(M!vars) PROVE MatcherInv'
    OBVIOUS
<1>1. CASE M!ReportPackage
    <2>1. PICK p \in Packages : /\ \A i \in DOMAIN inventory : inventory[i].name # p.name
                                /\ inventory' = Append(inventory, p)
        BY <1>1 DEF M!ReportPackage
    <2>2. UNCHANGED <<loaded, onPro, rebuild>>
        BY <1>1 DEF M!ReportPackage
    <2>3. inventory' \in Seq(Packages) /\ Len(inventory') = Len(inventory) + 1
        BY <2>1 DEF MatcherInv
    <2>4. \A i \in DOMAIN inventory' :
             inventory'[i] = IF i \in DOMAIN inventory THEN inventory[i] ELSE p
        BY <2>1 DEF MatcherInv
    <2>5. ASSUME NEW i \in DOMAIN inventory', NEW j \in DOMAIN inventory',
                 inventory'[i].name = inventory'[j].name
          PROVE i = j
        <3>1. i \in 1..(Len(inventory) + 1) /\ j \in 1..(Len(inventory) + 1)
            BY <2>3
        <3>2. DOMAIN inventory = 1..Len(inventory) /\ Len(inventory) \in Nat
            BY DEF MatcherInv
        <3>3. CASE i \in DOMAIN inventory /\ j \in DOMAIN inventory
            BY <2>4, <2>5, <3>3 DEF MatcherInv
        <3>4. CASE i \notin DOMAIN inventory /\ j \notin DOMAIN inventory
            BY <3>1, <3>2, <3>4
        <3>5. ~(i \in DOMAIN inventory /\ j \notin DOMAIN inventory)
            BY <2>1, <2>4, <2>5
        <3>6. ~(i \notin DOMAIN inventory /\ j \in DOMAIN inventory)
            BY <2>1, <2>4, <2>5
        <3> QED
            BY <3>3, <3>4, <3>5, <3>6
    <2> QED
        BY <2>2, <2>3, <2>5 DEF MatcherInv
<1>2. CASE M!LoadRange
    BY <1>2 DEF M!LoadRange, MatcherInv
<1>3. CASE UNCHANGED M!vars
    BY <1>3 DEF M!vars, MatcherInv
<1> QED
    BY <1>1, <1>2, <1>3 DEF M!Next

\* match.go, judge and addFinding: for any packages, ranges and floors, in inventories
\* and feeds of any length, a host that reached a version called fixed is never
\* flagged, a finding names a version the host can have and that ends it, and neither
\* the order of packages nor that of rows changes what is recorded.
THEOREM VerdictsAreRight == M!WellFormed => (ConsoleSpec => []VerdictsHold)
<1> SUFFICES ASSUME M!WellFormed PROVE ConsoleSpec => []VerdictsHold
    OBVIOUS
<1>1. ConsoleInit => MatcherInv
    BY MatcherInit DEF ConsoleInit
<1>2. MatcherInv /\ [ConsoleNext]_all => MatcherInv'
    <2>1. [ConsoleNext]_all => [M!Next]_(M!vars)
        BY DEF ConsoleNext, all, matcher, M!vars
    <2> QED
        BY <2>1, MatcherStep
<1>3. MatcherInv => VerdictsHold
    BY NeverFlagged, LeadsOut, OrderDoesNotMatter DEF VerdictsHold, M!VerdictsHold
<1> QED
    BY <1>1, <1>2, <1>3, PTL DEF ConsoleSpec
=============================================================================
