----------------------------- MODULE AuditChain -----------------------------
(***************************************************************************)
(* The hash-chained audit ledger: internal/storepg/store.go (Audit,        *)
(* auditInTx, VerifyAuditChain, AppendCheckpoint, ExportEvidence),         *)
(* internal/auditchain/chain.go and the bundle checks of                   *)
(* internal/evidence/bundle.go.                                            *)
(*                                                                         *)
(* Every event is recorded by one database transaction that takes the      *)
(* advisory chain lock, reads the tip, inserts the row chained onto it and *)
(* commits.  The transactions interleave freely with each other, with the  *)
(* checkpoint signer, with a verifier and with an evidence export, both of *)
(* which read the ledger a page at a time and without the lock.  Postgres  *)
(* runs each statement at READ COMMITTED: a statement sees every row       *)
(* committed before it started.                                            *)
(*                                                                         *)
(* A hash is what the constant operator ComputeHash returns; the text of   *)
(* an entry (actor, action, device, detail, time) is the event itself.     *)
(***************************************************************************)
EXTENDS Integers, FiniteSets

CONSTANTS
    Events,             \* what is to be recorded, one transaction each
    AtomicEvents,       \* the events recorded in the transaction of the change itself
    Signer,             \* the checkpoint loop
    NoOne,              \* the chain lock is free
    Genesis,            \* auditchain.Genesis
    ComputeHash(_,_,_), \* auditchain.ComputeHash(prevHash, seq, event)
    PageSize,           \* auditChainPage
    FromSeqs,           \* where an evidence export may start
    MaxCheckpoints      \* bound: checkpoints signed in one behaviour

ASSUME EventsAssumption ==
    /\ IsFiniteSet(Events)
    /\ AtomicEvents \subseteq Events
    /\ Signer \notin Events
    /\ NoOne \notin Events \cup {Signer}

ASSUME PageAssumption == PageSize \in Nat \ {0}

ASSUME FromSeqsAssumption == FromSeqs \subseteq Nat \ {0}

ASSUME BoundAssumption == MaxCheckpoints \in Nat

VARIABLES
    audit_log,          \* the committed rows of audit_log with a sequence number
    audit_checkpoints,  \* the committed rows of audit_checkpoints
    changes,            \* atomic events whose change is committed
    lock,               \* holder of auditChainLock
    pc,                 \* where each event's transaction is
    tip,                \* the tip each transaction has read
    signer,             \* where AppendCheckpoint is, and the tip it has read
    verifier,           \* a VerifyAuditChain call
    export              \* an ExportEvidence call and the bundle it builds

vars == <<audit_log, audit_checkpoints, changes, lock, pc, tip, signer, verifier, export>>

txVars == <<changes, lock, pc, tip>>

-----------------------------------------------------------------------------
(***************************************************************************)
(* internal/auditchain.                                                    *)
(***************************************************************************)

Link(prevHash, seq, event) ==
    [seq |-> seq, event |-> event, prev |-> prevHash,
     hash |-> ComputeHash(prevHash, seq, event)]

\* The row of a non-empty set of rows with the highest sequence.
Last(rows) == CHOOSE r \in rows : \A q \in rows : q.seq <= r.seq

First(rows) == CHOOSE r \in rows : \A q \in rows : r.seq <= q.seq

\* The rows are dense, each one names the hash of the one before it (the first
\* one prevHash), and each row's hash is that of its contents.
VerifyFrom(prevHash, rows) ==
    \A r \in rows :
        LET before == {q \in rows : q.seq < r.seq} IN
        /\ before # {} => r.seq = Last(before).seq + 1
        /\ r.prev = IF before = {} THEN prevHash ELSE Last(before).hash
        /\ r.hash = ComputeHash(r.prev, r.seq, r.event)

-----------------------------------------------------------------------------
(***************************************************************************)
(* Queries of internal/storepg.                                            *)
(***************************************************************************)

\* SELECT seq, entry_hash ... ORDER BY seq DESC LIMIT 1
Tip == IF audit_log = {}
         THEN [seq |-> 0, hash |-> Genesis]
         ELSE [seq |-> Last(audit_log).seq, hash |-> Last(audit_log).hash]

\* ListAuditChain(fromSeq, PageSize): the first PageSize rows from fromSeq on.
ListAuditChain(fromSeq) ==
    {r \in audit_log :
        /\ r.seq >= fromSeq
        /\ Cardinality({q \in audit_log : fromSeq <= q.seq /\ q.seq < r.seq}) < PageSize}

-----------------------------------------------------------------------------
Init ==
    /\ audit_log = {}
    /\ audit_checkpoints = {}
    /\ changes = {}
    /\ lock = NoOne
    /\ pc = [e \in Events |-> "idle"]
    /\ tip = [e \in Events |-> [seq |-> 0, hash |-> Genesis]]
    /\ signer = [pc |-> "idle", seq |-> 0, hash |-> Genesis]
    /\ verifier = [pc |-> "idle", from |-> 1, prev |-> Genesis]
    /\ export = [pc |-> "idle", from |-> 1, next |-> 1, audit |-> {},
                 prev |-> Genesis, checkpoints |-> {}]

(***************************************************************************)
(* One event's transaction: Audit, or a larger transaction that calls      *)
(* auditInTx last.                                                         *)
(***************************************************************************)

\* pool.Begin and, for an atomic event, the statements of the change itself.
Begin(e) ==
    /\ pc[e] = "idle"
    /\ pc' = [pc EXCEPT ![e] = "begun"]
    /\ UNCHANGED <<audit_log, audit_checkpoints, changes, lock, tip, signer, verifier, export>>

\* tx.Exec(auditChainLock): blocks until the lock is free.
Lock(e) ==
    /\ pc[e] = "begun"
    /\ lock = NoOne
    /\ lock' = e
    /\ pc' = [pc EXCEPT ![e] = "locked"]
    /\ UNCHANGED <<audit_log, audit_checkpoints, changes, tip, signer, verifier, export>>

ReadTip(e) ==
    /\ pc[e] = "locked"
    /\ tip' = [tip EXCEPT ![e] = Tip]
    /\ pc' = [pc EXCEPT ![e] = "read"]
    /\ UNCHANGED <<audit_log, audit_checkpoints, changes, lock, signer, verifier, export>>

\* Mutant of NewRow: the previous hash is not scanned.
NewRowUnchained(e) == Link(Genesis, tip[e].seq + 1, e)

\* The row this transaction chains onto the tip it read.
NewRow(e) == Link(tip[e].hash, tip[e].seq + 1, e)

Release(e) == lock' = IF lock = e THEN NoOne ELSE lock

\* INSERT INTO audit_log.  The unique index on seq makes it wait for another
\* transaction's uncommitted row with the same sequence, and refuse a committed one.
Insert(e) ==
    /\ pc[e] = "read"
    /\ \A o \in Events \ {e} : pc[o] = "inserted" => NewRow(o).seq # NewRow(e).seq
    /\ IF \E r \in audit_log : r.seq = NewRow(e).seq
         THEN pc' = [pc EXCEPT ![e] = "conflict"] /\ Release(e)
         ELSE pc' = [pc EXCEPT ![e] = "inserted"] /\ UNCHANGED lock
    /\ UNCHANGED <<audit_log, audit_checkpoints, changes, tip, signer, verifier, export>>

\* tx.Commit: the row, the change and the release of the lock are one step.
Commit(e) ==
    /\ pc[e] = "inserted"
    /\ audit_log' = audit_log \cup {NewRow(e)}
    /\ changes' = IF e \in AtomicEvents THEN changes \cup {e} ELSE changes
    /\ pc' = [pc EXCEPT ![e] = "done"]
    /\ Release(e)
    /\ UNCHANGED <<audit_checkpoints, tip, signer, verifier, export>>

\* Mutant of Rollback: a session-level lock, which a rollback does not free.
RollbackKeepsLock(e) ==
    /\ pc[e] \in {"begun", "locked", "read", "inserted"}
    /\ pc' = [pc EXCEPT ![e] = "failed"]
    /\ UNCHANGED <<audit_log, audit_checkpoints, changes, lock, tip, signer, verifier, export>>

\* A statement fails, the context expires or the server dies: the deferred
\* Rollback (or Postgres itself) undoes the transaction and frees the lock.
Rollback(e) ==
    /\ pc[e] \in {"begun", "locked", "read", "inserted"}
    /\ pc' = [pc EXCEPT ![e] = "failed"]
    /\ Release(e)
    /\ UNCHANGED <<audit_log, audit_checkpoints, changes, tip, signer, verifier, export>>

-----------------------------------------------------------------------------
(***************************************************************************)
(* AppendCheckpoint, called by runCheckpointLoop on a timer.               *)
(***************************************************************************)

\* Mutant of SignerLock: the tip is read and signed without the lock.
SignerLockSkipped ==
    /\ signer.pc = "idle"
    /\ Cardinality(audit_checkpoints) < MaxCheckpoints
    /\ signer' = [signer EXCEPT !.pc = "locked"]
    /\ UNCHANGED <<audit_log, audit_checkpoints, txVars, verifier, export>>

SignerLock ==
    /\ signer.pc = "idle"
    /\ Cardinality(audit_checkpoints) < MaxCheckpoints
    /\ lock = NoOne
    /\ lock' = Signer
    /\ signer' = [signer EXCEPT !.pc = "locked"]
    /\ UNCHANGED <<audit_log, audit_checkpoints, changes, pc, tip, verifier, export>>

\* The tip is read; with nothing chained yet there is nothing to attest and
\* the transaction is rolled back.
SignerReadTip ==
    /\ signer.pc = "locked"
    /\ IF audit_log = {}
         THEN signer' = [signer EXCEPT !.pc = "idle"] /\ Release(Signer)
         ELSE signer' = [pc |-> "read", seq |-> Tip.seq, hash |-> Tip.hash] /\ UNCHANGED lock
    /\ UNCHANGED <<audit_log, audit_checkpoints, changes, pc, tip, verifier, export>>

\* SignCheckpoint, the INSERT and the commit.
SignerCommit ==
    /\ signer.pc = "read"
    /\ audit_checkpoints' = audit_checkpoints \cup
                            {[through |-> signer.seq, hash |-> signer.hash]}
    /\ signer' = [signer EXCEPT !.pc = "idle"]
    /\ Release(Signer)
    /\ UNCHANGED <<audit_log, changes, pc, tip, verifier, export>>

SignerRollback ==
    /\ signer.pc # "idle"
    /\ signer' = [signer EXCEPT !.pc = "idle"]
    /\ Release(Signer)
    /\ UNCHANGED <<audit_log, audit_checkpoints, changes, pc, tip, verifier, export>>

-----------------------------------------------------------------------------
(***************************************************************************)
(* VerifyAuditChain: one query per page, no lock.                          *)
(***************************************************************************)

VerifyStart ==
    /\ verifier.pc # "paging"
    /\ verifier' = [pc |-> "paging", from |-> 1, prev |-> Genesis]
    /\ UNCHANGED <<audit_log, audit_checkpoints, txVars, signer, export>>

\* Mutant of VerifyPage: the hash of the last entry is not carried to the next page.
VerifyPageForgets ==
    /\ verifier.pc = "paging"
    /\ LET page == ListAuditChain(verifier.from) IN
       verifier' =
         IF page = {} THEN [verifier EXCEPT !.pc = "intact"]
         ELSE IF ~VerifyFrom(Genesis, page) THEN [verifier EXCEPT !.pc = "tampered"]
         ELSE [pc   |-> IF Cardinality(page) < PageSize THEN "intact" ELSE "paging",
               from |-> Last(page).seq + 1,
               prev |-> Last(page).hash]
    /\ UNCHANGED <<audit_log, audit_checkpoints, txVars, signer, export>>

VerifyPage ==
    /\ verifier.pc = "paging"
    /\ LET page == ListAuditChain(verifier.from) IN
       verifier' =
         IF page = {} THEN [verifier EXCEPT !.pc = "intact"]
         ELSE IF \/ verifier.from = 1 /\ First(page).seq # 1
                 \/ ~VerifyFrom(verifier.prev, page)
                THEN [verifier EXCEPT !.pc = "tampered"]
         ELSE [pc   |-> IF Cardinality(page) < PageSize THEN "intact" ELSE "paging",
               from |-> Last(page).seq + 1,
               prev |-> Last(page).hash]
    /\ UNCHANGED <<audit_log, audit_checkpoints, txVars, signer, export>>

-----------------------------------------------------------------------------
(***************************************************************************)
(* ExportEvidence: the audit range page by page, then the hash before it,  *)
(* then the checkpoints inside the range, each its own query.              *)
(***************************************************************************)

ExportStart(f) ==
    /\ export.pc \in {"idle", "done"}
    /\ export' = [pc |-> "paging", from |-> f, next |-> f, audit |-> {},
                  prev |-> Genesis, checkpoints |-> {}]
    /\ UNCHANGED <<audit_log, audit_checkpoints, txVars, signer, verifier>>

ExportPage ==
    /\ export.pc = "paging"
    /\ LET page == ListAuditChain(export.next) IN
       export' = [export EXCEPT
            !.audit = @ \cup page,
            !.pc    = IF Cardinality(page) < PageSize THEN "prev" ELSE "paging",
            !.next  = IF page = {} THEN @ ELSE Last(page).seq + 1]
    /\ UNCHANGED <<audit_log, audit_checkpoints, txVars, signer, verifier>>

\* The entry before a range that starts partway; none found leaves it empty.
ExportPrev ==
    /\ export.pc = "prev"
    /\ LET before == {r \in audit_log : r.seq = First(export.audit).seq - 1} IN
       export' = [export EXCEPT
            !.pc   = "checkpoints",
            !.prev = IF export.audit # {} /\ before # {} THEN (CHOOSE r \in before : TRUE).hash
                     ELSE Genesis]
    /\ UNCHANGED <<audit_log, audit_checkpoints, txVars, signer, verifier>>

\* Manifest.ThroughSeq: the last sequence shipped, 0 for an empty range.
ThroughSeq == IF export.audit = {} THEN 0 ELSE Last(export.audit).seq

\* Mutant of ShippedCheckpoints: checkpoints past the range are shipped too.
ShippedCheckpointsAll == {c \in audit_checkpoints : export.from <= c.through}

ShippedCheckpoints ==
    {c \in audit_checkpoints : export.from <= c.through /\ c.through <= ThroughSeq}

ExportCheckpoints ==
    /\ export.pc = "checkpoints"
    /\ export' = [export EXCEPT !.pc = "done", !.checkpoints = ShippedCheckpoints]
    /\ UNCHANGED <<audit_log, audit_checkpoints, txVars, signer, verifier>>

(***************************************************************************)
(* The offline checks of evidence.Verify on the audit part of a bundle.    *)
(***************************************************************************)

verifyAuditChain == VerifyFrom(export.prev, export.audit)

verifyCheckpoints ==
    \A c \in export.checkpoints :
        \E r \in export.audit : r.seq = c.through /\ r.hash = c.hash

-----------------------------------------------------------------------------
\* A failed query ends either call with an error and no verdict.
ReaderFails ==
    /\ \/ verifier.pc = "paging" /\ verifier' = [verifier EXCEPT !.pc = "idle"] /\ UNCHANGED export
       \/ export.pc \notin {"idle", "done"} /\ export' = [export EXCEPT !.pc = "idle"] /\ UNCHANGED verifier
    /\ UNCHANGED <<audit_log, audit_checkpoints, txVars, signer>>

Step(e) == ReadTip(e) \/ Insert(e) \/ Commit(e)

Next ==
    \/ \E e \in Events : Begin(e)
    \/ \E e \in Events : Lock(e)
    \/ \E e \in Events : ReadTip(e)
    \/ \E e \in Events : Insert(e)
    \/ \E e \in Events : Commit(e)
    \/ \E e \in Events : Rollback(e)
    \/ SignerLock
    \/ SignerReadTip
    \/ SignerCommit
    \/ SignerRollback
    \/ VerifyStart
    \/ VerifyPage
    \/ \E f \in FromSeqs : ExportStart(f)
    \/ ExportPage
    \/ ExportPrev
    \/ ExportCheckpoints
    \/ ReaderFails

Spec == Init /\ [][Next]_vars

(***************************************************************************)
(* A statement that can run is run, and Postgres queues the waiters of an  *)
(* advisory lock in order, so a waiter is not overtaken forever.           *)
(***************************************************************************)
FairSpec ==
    /\ Spec
    /\ \A e \in Events : WF_vars(Step(e)) /\ SF_vars(Lock(e))
    /\ WF_vars(SignerReadTip \/ SignerCommit)
    /\ WF_vars(VerifyPage)

-----------------------------------------------------------------------------
(***************************************************************************)
(* Properties.                                                             *)
(***************************************************************************)

\* Each variable has the shape its table, transaction or call gives it.
TypeOK ==
    /\ IsFiniteSet(audit_log)
    /\ \A r \in audit_log : r.seq \in Nat \ {0} /\ r.event \in Events
    /\ IsFiniteSet(audit_checkpoints)
    /\ \A c \in audit_checkpoints : c.through \in Nat
    /\ changes \subseteq AtomicEvents
    /\ lock \in Events \cup {Signer, NoOne}
    /\ pc \in [Events -> {"idle", "begun", "locked", "read", "inserted",
                          "done", "failed", "conflict"}]
    /\ DOMAIN tip = Events
    /\ \A e \in Events : tip[e] = [seq |-> tip[e].seq, hash |-> tip[e].hash] /\ tip[e].seq \in Nat
    /\ signer = [pc |-> signer.pc, seq |-> signer.seq, hash |-> signer.hash]
    /\ signer.pc \in {"idle", "locked", "read"}
    /\ signer.seq \in Nat
    /\ verifier = [pc |-> verifier.pc, from |-> verifier.from, prev |-> verifier.prev]
    /\ verifier.pc \in {"idle", "paging", "intact", "tampered"}
    /\ verifier.from \in Nat \ {0}
    /\ export = [pc |-> export.pc, from |-> export.from, next |-> export.next,
                 audit |-> export.audit, prev |-> export.prev,
                 checkpoints |-> export.checkpoints]
    /\ export.pc \in {"idle", "paging", "prev", "checkpoints", "done"}
    /\ export.from \in Nat \ {0}
    /\ export.next \in Nat \ {0}

\* Whatever order transactions commit, roll back or crash in, the stored ledger
\* passes auditchain.Verify: sequences 1..n without a gap or a repetition, each
\* row chained onto the one before it (auditInTx under auditChainLock).
ChainIntact ==
    /\ \A k \in 1..Cardinality(audit_log) : \E r \in audit_log : r.seq = k
    /\ VerifyFrom(Genesis, audit_log)

\* The lock, not the unique index, is what orders the writers: no entry is ever
\* lost because two transactions read the same tip and chained onto it.
NoConflict == \A e \in Events : pc[e] # "conflict"

\* "commit or roll back together": a change made in the transaction of its entry
\* is committed exactly when the entry is in the ledger.
AtomicWithChange ==
    \A e \in AtomicEvents : e \in changes <=> \E r \in audit_log : r.event = e

\* VerifyAuditChain reads page after page while the ledger grows under it, and
\* still never reports an untouched ledger as tampered.
NoFalseAlarm == verifier.pc # "tampered"

\* A signed checkpoint attests a row that is in the ledger, with its hash, even
\* though the signer reads the tip and inserts the checkpoint in two statements.
CheckpointsAttest ==
    \A c \in audit_checkpoints : \E r \in audit_log : r.seq = c.through /\ r.hash = c.hash

\* A bundle exported while entries and checkpoints keep arriving passes the
\* offline verifier's audit-chain and checkpoint checks.
BundleVerifies == export.pc = "done" => verifyAuditChain /\ verifyCheckpoints

\* VerifyAuditChain answers "intact" only after a page that reached the tip of
\* that moment: no full page ends the walk early ("silently stopped checking at
\* sequence 1000" is what an earlier version did).
VerifiedToTheEnd ==
    [][ (verifier.pc = "paging" /\ verifier'.pc = "intact")
          => verifier'.from = Tip.seq + 1 ]_vars

\* Every transaction that has begun ends: it commits or fails, and no rolled
\* back or crashed holder leaves the others waiting for the chain lock.
EveryAppendEnds ==
    \A e \in Events : pc[e] = "begun" ~> pc[e] \in {"done", "failed"}

(***************************************************************************)
(* The ledger the rows stand for, and the lengths the checkpoints attest.  *)
(***************************************************************************)
RowAt(i) == CHOOSE r \in audit_log : r.seq = i

Ledger == INSTANCE AuditLedger WITH
    ledger   <- [i \in 1..Cardinality(audit_log) |-> RowAt(i).event],
    attested <- {c.through : c \in audit_checkpoints}

\* The transactions, whatever their order and whichever of them fail, implement
\* the append-only ledger: nothing recorded is changed, moved or dropped, each
\* event is recorded once, and a checkpoint always attests the whole ledger.
ImplementsLedger == Ledger!Spec

=============================================================================
