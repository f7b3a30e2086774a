-------------------------- MODULE AuditChainProofs --------------------------
(***************************************************************************)
(* Proofs that the audit ledger of AuditChain is what its verifiers take   *)
(* it to be, for any set of events, any page size and any number of        *)
(* checkpoints.                                                            *)
(***************************************************************************)
EXTENDS AuditChain, FiniteSetTheorems, SequenceTheorems, WellFoundedInduction, TLAPS

(***************************************************************************)
(* A set of rows is chained when its sequences are 1..n, each held by one  *)
(* row, and each row is Link-ed onto the row before it.                    *)
(***************************************************************************)
Chained(L) ==
    /\ IsFiniteSet(L)
    /\ \A r \in L : r = Link(r.prev, r.seq, r.event) /\ r.seq \in 1..Cardinality(L)
    /\ \A k \in 1..Cardinality(L) : \E r \in L : r.seq = k
    /\ \A r, q \in L : r.seq = q.seq => r = q
    /\ \A r \in L : r.seq = 1 => r.prev = Genesis
    /\ \A r, q \in L : q.seq = r.seq + 1 => q.prev = r.hash

\* p is what the row with sequence f must name as its previous hash.
Boundary(L, f, p) == \/ f = 1 /\ p = Genesis
                     \/ \E r \in L : r.seq + 1 = f /\ r.hash = p

\* Holding the lock and being between the lock and the commit are the same thing.
LockInv ==
    /\ \A e \in Events : pc[e] \in {"locked", "read", "inserted"} <=> lock = e
    /\ signer.pc # "idle" <=> lock = Signer

\* The tip a transaction or the signer has read is still the tip.
TipInv ==
    /\ \A e \in Events : pc[e] \in {"read", "inserted"} => tip[e] = Tip
    /\ signer.pc = "read" => /\ audit_log # {}
                             /\ signer.seq = Tip.seq
                             /\ signer.hash = Tip.hash

EventInv ==
    /\ \A e \in Events : pc[e] = "done" <=> \E r \in audit_log : r.event = e
    /\ changes = {e \in AtomicEvents : pc[e] = "done"}

VerifierInv ==
    /\ verifier.pc # "tampered"
    /\ verifier.pc = "paging" => Boundary(audit_log, verifier.from, verifier.prev)

ExportInv ==
    /\ export.audit = {r \in audit_log : export.from <= r.seq /\ r.seq < export.next}
    /\ export.from <= export.next
    /\ export.next = export.from \/ export.next <= Cardinality(audit_log) + 1
    /\ export.pc \in {"checkpoints", "done"} /\ export.audit # {}
          => Boundary(audit_log, export.from, export.prev)
    /\ export.pc = "done" => verifyCheckpoints

\* The inductive invariant.
IInv == TypeOK /\ Chained(audit_log) /\ LockInv /\ TipInv /\ EventInv /\ NoConflict
        /\ CheckpointsAttest /\ VerifierInv /\ ExportInv

-----------------------------------------------------------------------------
(***************************************************************************)
(* Lemmas about chained sets of rows.                                      *)
(***************************************************************************)

\* In a set of rows with sequences up to n, some row has the highest sequence.
LEMMA LastExists ==
    ASSUME NEW n \in Nat, NEW S, S # {}, \A r \in S : r.seq \in 1..n
    PROVE  /\ Last(S) \in S
           /\ \A q \in S : q.seq <= Last(S).seq
<1> DEFINE T == {n - r.seq : r \in S}
<1>1. T \subseteq Nat /\ T # {}
  OBVIOUS
<1>2. PICK x \in T : \A y \in T : ~(<<y, x>> \in OpToRel(<, Nat))
  BY <1>1, NatLessThanWellFounded, WFMin
<1>3. \A y \in T : ~(y < x)
  BY <1>1, <1>2 DEF OpToRel
<1>4. PICK r \in S : x = n - r.seq
  OBVIOUS
<1>5. \A q \in S : q.seq <= r.seq
  <2> SUFFICES ASSUME NEW q \in S PROVE q.seq <= r.seq
    OBVIOUS
  <2>1. ~(n - q.seq < n - r.seq)
    BY <1>3, <1>4
  <2> QED BY <2>1
<1> QED BY <1>5 DEF Last

\* The tip of a chained set: its sequence is the number of rows.
LEMMA ChainedLast ==
    ASSUME NEW L, Chained(L), L # {}
    PROVE  /\ Cardinality(L) \in Nat \ {0}
           /\ Last(L) \in L
           /\ Last(L).seq = Cardinality(L)
<1>1. Cardinality(L) \in Nat
  BY FS_CardinalityType DEF Chained
<1>2. Cardinality(L) # 0
  BY FS_EmptySet DEF Chained
<1>3. PICK r \in L : r.seq = Cardinality(L)
  BY <1>1, <1>2 DEF Chained
<1>4. \A q \in L : q.seq <= r.seq
  BY <1>1, <1>3 DEF Chained
<1>5. Last(L) \in L /\ \A q \in L : q.seq <= Last(L).seq
  BY <1>4 DEF Last
<1> QED BY <1>1, <1>2, <1>3, <1>5 DEF Chained

\* Linking one more row onto the tip keeps the set chained.
LEMMA ChainedAppend ==
    ASSUME NEW L, Chained(L), NEW e, NEW s, NEW h,
           L = {} => s = 0 /\ h = Genesis,
           L # {} => s = Last(L).seq /\ h = Last(L).hash
    PROVE  /\ Chained(L \cup {Link(h, s + 1, e)})
           /\ Link(h, s + 1, e) \notin L
           /\ s = Cardinality(L)
           /\ Cardinality(L \cup {Link(h, s + 1, e)}) = Cardinality(L) + 1
<1> DEFINE x == Link(h, s + 1, e)
           n == Cardinality(L)
           K == L \cup {x}
<1>1. n \in Nat /\ s = n
  BY ChainedLast, FS_EmptySet, FS_CardinalityType DEF Chained
<1>2. /\ x.seq = n + 1 /\ x.prev = h /\ x.event = e
      /\ x = Link(x.prev, x.seq, x.event)
  BY <1>1 DEF Link
<1>3. \A r \in L : r.seq \in 1..n
  BY DEF Chained
<1>4. x \notin L
  BY <1>1, <1>2, <1>3
<1>5. IsFiniteSet(K) /\ Cardinality(K) = n + 1
  BY <1>4, FS_AddElement DEF Chained
<1> HIDE DEF x, n, K
<1>6. \A r \in K : r = Link(r.prev, r.seq, r.event) /\ r.seq \in 1..Cardinality(K)
  <2>1. \A r \in L : r = Link(r.prev, r.seq, r.event)
    BY DEF Chained
  <2> QED BY <1>1, <1>2, <1>3, <1>5, <2>1 DEF K
<1>7. \A k \in 1..Cardinality(K) : \E r \in K : r.seq = k
  <2>1. \A k \in 1..n : \E r \in L : r.seq = k
    BY DEF Chained, n
  <2> QED BY <1>1, <1>2, <1>5, <2>1 DEF K
<1>8. \A r, q \in K : r.seq = q.seq => r = q
  <2>1. \A r, q \in L : r.seq = q.seq => r = q
    BY DEF Chained
  <2> QED BY <1>1, <1>2, <1>3, <2>1 DEF K
<1>9. \A r \in K : r.seq = 1 => r.prev = Genesis
  <2>1. \A r \in L : r.seq = 1 => r.prev = Genesis
    BY DEF Chained
  <2>2. ASSUME x.seq = 1 PROVE x.prev = Genesis
    <3>1. n = 0
      BY <1>1, <1>2, <2>2
    <3>2. L = {}
      BY <3>1, ChainedLast DEF n
    <3> QED BY <1>2, <3>2
  <2> QED BY <2>1, <2>2 DEF K
<1>10. \A r, q \in K : q.seq = r.seq + 1 => q.prev = r.hash
  <2>1. \A r, q \in L : q.seq = r.seq + 1 => q.prev = r.hash
    BY DEF Chained
  <2>2. ASSUME NEW r \in L, x.seq = r.seq + 1 PROVE x.prev = r.hash
    <3>1. r.seq = n /\ L # {}
      BY <1>1, <1>2, <1>3, <2>2
    <3>2. Last(L) = r
      BY <3>1, ChainedLast DEF Chained, n
    <3> QED BY <1>2, <3>1, <3>2
  <2>3. ASSUME NEW r \in L, r.seq = x.seq + 1 PROVE FALSE
    BY <1>1, <1>2, <1>3, <2>3
  <2>4. x.seq # x.seq + 1
    BY <1>1, <1>2
  <2> QED BY <2>1, <2>2, <2>3, <2>4 DEF K
<1>11. Chained(K)
  BY <1>5, <1>6, <1>7, <1>8, <1>9, <1>10 DEF Chained
<1> QED BY <1>1, <1>4, <1>5, <1>11 DEF K, x, n

\* A run of rows that leaves no gap after f passes VerifyFrom when it is given
\* the hash the row f must name.
LEMMA RunVerifies ==
    ASSUME NEW L, Chained(L), NEW f \in Nat \ {0}, NEW p, Boundary(L, f, p),
           NEW S \in SUBSET L,
           \A r \in S : r.seq >= f,
           \A r \in S, q \in L : f <= q.seq /\ q.seq < r.seq => q \in S
    PROVE  VerifyFrom(p, S)
<1> SUFFICES ASSUME NEW r \in S
             PROVE  LET before == {q \in S : q.seq < r.seq} IN
                    /\ before # {} => r.seq = Last(before).seq + 1
                    /\ r.prev = IF before = {} THEN p ELSE Last(before).hash
                    /\ r.hash = ComputeHash(r.prev, r.seq, r.event)
  BY DEF VerifyFrom
<1> DEFINE before == {q \in S : q.seq < r.seq}
           n == Cardinality(L)
<1>1. n \in Nat
  BY FS_CardinalityType DEF Chained
<1>2. \A q \in L : q.seq \in 1..n
  BY DEF Chained
<1>3. r.hash = ComputeHash(r.prev, r.seq, r.event)
  BY DEF Chained, Link
<1>4. CASE before = {}
  <2>1. r.seq = f
    <3> SUFFICES ASSUME r.seq # f PROVE FALSE
      OBVIOUS
    <3>1. r.seq - 1 \in 1..n /\ f <= r.seq - 1
      BY <1>1, <1>2
    <3>2. PICK q \in L : q.seq = r.seq - 1
      BY <3>1 DEF Chained
    <3>3. q \in S
      BY <1>1, <1>2, <3>1, <3>2
    <3> QED BY <1>1, <1>2, <1>4, <3>2, <3>3
  <2>2. r.prev = p
    BY <1>1, <1>2, <2>1 DEF Chained, Boundary
  <2> QED BY <1>3, <1>4, <2>2
<1>5. CASE before # {}
  <2>1. PICK q0 \in S : q0.seq < r.seq
    BY <1>5
  <2>2. r.seq - 1 \in 1..n /\ f <= r.seq - 1
    BY <1>1, <1>2, <2>1
  <2>3. PICK q \in L : q.seq = r.seq - 1
    BY <2>2 DEF Chained
  <2>4. q \in before
    BY <1>1, <1>2, <2>2, <2>3
  <2>5. \A o \in before : o.seq <= q.seq
    BY <1>1, <1>2, <2>3
  <2>6. Last(before) \in before /\ \A o \in before : o.seq <= Last(before).seq
    BY <2>4, <2>5 DEF Last
  <2>7. Last(before).seq = q.seq
    BY <1>1, <1>2, <2>4, <2>5, <2>6
  <2>8. Last(before) = q
    BY <2>6, <2>7 DEF Chained
  <2>9. r.seq = q.seq + 1
    BY <1>1, <1>2, <2>3
  <2>10. r.prev = q.hash
    BY <2>9 DEF Chained
  <2> QED BY <1>3, <1>5, <2>8, <2>9, <2>10
<1> QED BY <1>4, <1>5

\* A page is the rows from f up to its last one: nothing is skipped, and a page
\* that is not full holds every row from f on.
LEMMA PageIsRun ==
    ASSUME Chained(audit_log), NEW f \in Nat \ {0}
    PROVE  /\ ListAuditChain(f) \subseteq audit_log
           /\ \A r \in ListAuditChain(f) : r.seq >= f
           /\ \A r \in ListAuditChain(f), q \in audit_log :
                 f <= q.seq /\ q.seq < r.seq => q \in ListAuditChain(f)
           /\ \A q \in audit_log : q.seq = f => q \in ListAuditChain(f)
           /\ IsFiniteSet(ListAuditChain(f))
<1> DEFINE Below(r) == {q \in audit_log : f <= q.seq /\ q.seq < r.seq}
<1>1. \A r \in audit_log : r.seq \in Nat
  BY FS_CardinalityType DEF Chained
<1>2. \A r \in audit_log : IsFiniteSet(Below(r)) /\ Cardinality(Below(r)) \in Nat
  BY FS_Subset, FS_CardinalityType DEF Chained
<1>3. ASSUME NEW r \in ListAuditChain(f), NEW q \in audit_log, f <= q.seq, q.seq < r.seq
      PROVE  q \in ListAuditChain(f)
  <2>1. r \in audit_log /\ Cardinality(Below(r)) < PageSize
    BY DEF ListAuditChain
  <2>2. Below(q) \subseteq Below(r)
    BY <1>1, <1>3, <2>1
  <2>3. Cardinality(Below(q)) <= Cardinality(Below(r))
    BY <1>2, <2>1, <2>2, FS_Subset
  <2>4. Cardinality(Below(q)) \in Nat /\ Cardinality(Below(r)) \in Nat
    BY <1>2, <2>1
  <2>5. Cardinality(Below(q)) < PageSize
    <3> HIDE DEF Below
    <3> QED BY <2>1, <2>3, <2>4, PageAssumption
  <2> QED BY <1>1, <1>3, <2>5 DEF ListAuditChain
<1>4. ASSUME NEW q \in audit_log, q.seq = f PROVE q \in ListAuditChain(f)
  <2>1. Below(q) = {}
    BY <1>1, <1>4
  <2>2. Cardinality(Below(q)) < PageSize
    BY <2>1, FS_EmptySet, PageAssumption
  <2> QED BY <1>1, <1>4, <2>2 DEF ListAuditChain
<1>5. IsFiniteSet(ListAuditChain(f))
  BY FS_Subset DEF Chained, ListAuditChain
<1> QED BY <1>3, <1>4, <1>5 DEF ListAuditChain

\* The last row of a page that is not empty.
LEMMA PageLast ==
    ASSUME Chained(audit_log), NEW f \in Nat \ {0}, ListAuditChain(f) # {}
    PROVE  /\ Last(ListAuditChain(f)) \in ListAuditChain(f)
           /\ \A q \in ListAuditChain(f) : q.seq <= Last(ListAuditChain(f)).seq
           /\ Last(ListAuditChain(f)) \in audit_log
           /\ Last(ListAuditChain(f)).seq \in 1..Cardinality(audit_log)
           /\ Last(ListAuditChain(f)).seq >= f
           /\ ListAuditChain(f) = {r \in audit_log : f <= r.seq
                                        /\ r.seq < Last(ListAuditChain(f)).seq + 1}
<1> DEFINE page == ListAuditChain(f)
<1>1. Cardinality(audit_log) \in Nat /\ \A r \in audit_log : r.seq \in 1..Cardinality(audit_log)
  BY FS_CardinalityType DEF Chained
<1>2. page \subseteq audit_log /\ \A r \in page : r.seq >= f
  BY PageIsRun
<1>3. \A r \in page, q \in audit_log : f <= q.seq /\ q.seq < r.seq => q \in page
  BY PageIsRun
<1> HIDE DEF page
<1>4. Last(page) \in page /\ \A q \in page : q.seq <= Last(page).seq
  <2>1. \A r \in page : r.seq \in 1..Cardinality(audit_log)
    BY <1>1, <1>2
  <2> QED BY <1>1, <2>1, LastExists DEF page
<1>5. \A q \in audit_log : q.seq = Last(page).seq => q = Last(page)
  BY <1>2, <1>4 DEF Chained
<1>6. page = {r \in audit_log : f <= r.seq /\ r.seq < Last(page).seq + 1}
  <2>1. \A r \in page : r \in audit_log /\ f <= r.seq /\ r.seq < Last(page).seq + 1
    BY <1>1, <1>2, <1>4
  <2>2. ASSUME NEW r \in audit_log, f <= r.seq, r.seq < Last(page).seq + 1 PROVE r \in page
    <3>1. r.seq = Last(page).seq \/ r.seq < Last(page).seq
      BY <1>1, <1>2, <1>4, <2>2
    <3> QED BY <1>3, <1>4, <1>5, <2>2, <3>1
  <2> QED BY <2>1, <2>2
<1> QED BY <1>1, <1>2, <1>4, <1>6 DEF page

\* A page that is not full reaches the tip.
LEMMA ShortPageReachesTip ==
    ASSUME Chained(audit_log), NEW f \in Nat \ {0},
           Cardinality(ListAuditChain(f)) < PageSize
    PROVE  \A r \in audit_log : r.seq >= f => r \in ListAuditChain(f)
<1> DEFINE page == ListAuditChain(f)
           rest == {r \in audit_log : r.seq >= f} \ page
           T == {r.seq : r \in rest}
<1>1. \A r \in audit_log : r.seq \in Nat
  BY FS_CardinalityType DEF Chained
<1> SUFFICES ASSUME rest # {} PROVE FALSE
  OBVIOUS
<1>2. T \subseteq Nat /\ T # {}
  BY <1>1
<1>3. PICK x \in T : \A y \in T : ~(<<y, x>> \in OpToRel(<, Nat))
  BY <1>2, NatLessThanWellFounded, WFMin
<1>4. \A y \in T : ~(y < x)
  BY <1>2, <1>3 DEF OpToRel
<1>5. PICK r \in rest : r.seq = x
  OBVIOUS
<1> DEFINE Below == {q \in audit_log : f <= q.seq /\ q.seq < r.seq}
<1>6. Below \subseteq page
  BY <1>1, <1>4, <1>5
<1>7. IsFiniteSet(page)
  BY PageIsRun
<1>8. Cardinality(Below) <= Cardinality(page) /\ IsFiniteSet(Below)
  BY <1>6, <1>7, FS_Subset
<1>9. Cardinality(Below) \in Nat /\ Cardinality(page) \in Nat
  BY <1>7, <1>8, FS_CardinalityType
<1>10. Cardinality(Below) < PageSize
  BY <1>8, <1>9, PageAssumption
<1>11. r \in page
  BY <1>10 DEF ListAuditChain
<1> QED BY <1>11

\* The tip of a chained ledger.
LEMMA TipOfChained ==
    ASSUME Chained(audit_log)
    PROVE  /\ Tip.seq = Cardinality(audit_log)
           /\ Tip.seq \in Nat
           /\ Tip = [seq |-> Tip.seq, hash |-> Tip.hash]
           /\ audit_log # {} => /\ Tip.seq # 0
                                /\ \E r \in audit_log : r.seq = Tip.seq /\ r.hash = Tip.hash
<1>1. CASE audit_log = {}
  BY <1>1, FS_EmptySet DEF Tip
<1>2. CASE audit_log # {}
  BY <1>2, ChainedLast DEF Tip
<1> QED BY <1>1, <1>2

\* A boundary stays one when rows are added.
LEMMA BoundaryMonotone ==
    ASSUME NEW L, NEW K, L \subseteq K, NEW f, NEW p, Boundary(L, f, p)
    PROVE  Boundary(K, f, p)
BY DEF Boundary

-----------------------------------------------------------------------------
(***************************************************************************)
(* What the steps that leave a part of the state alone preserve.           *)
(***************************************************************************)

\* The parts of the invariant about the stored rows and the two readers.
Stored == Chained(audit_log) /\ CheckpointsAttest
Readers == VerifierInv /\ ExportInv

\* A step that leaves the ledger and the checkpoints alone keeps what is stored intact.
LEMMA StoredFrame ==
    ASSUME Stored, UNCHANGED <<audit_log, audit_checkpoints>>
    PROVE  Stored' /\ Tip' = Tip
BY DEF Stored, CheckpointsAttest, Tip

\* A step of a writer that does not commit leaves the verifier and the export as they were.
LEMMA ReadersFrame ==
    ASSUME Readers, UNCHANGED <<audit_log, verifier, export>>
    PROVE  Readers'
BY DEF Readers, VerifierInv, ExportInv, verifyCheckpoints

-----------------------------------------------------------------------------
(***************************************************************************)
(* The invariant holds initially and is preserved by every step.           *)
(***************************************************************************)

\* The empty ledger, with nothing begun, satisfies the invariant.
LEMMA InitIInv == Init => IInv
<1> SUFFICES ASSUME Init PROVE IInv
  OBVIOUS
<1>1. TypeOK
  BY FS_EmptySet, EventsAssumption DEF Init, TypeOK
<1>2. Chained(audit_log)
  BY FS_EmptySet DEF Init, Chained
<1>3. LockInv /\ TipInv /\ EventInv /\ NoConflict /\ CheckpointsAttest
  BY EventsAssumption DEF Init, LockInv, TipInv, EventInv, NoConflict, CheckpointsAttest
<1>4. VerifierInv /\ ExportInv
  BY DEF Init, VerifierInv, ExportInv, Boundary
<1> QED BY <1>1, <1>2, <1>3, <1>4 DEF IInv

\* The steps of a writer that leave the committed rows alone.
LEMMA WriterStep ==
    ASSUME IInv, NEW e \in Events,
           Begin(e) \/ Lock(e) \/ ReadTip(e) \/ Insert(e) \/ Rollback(e)
    PROVE  IInv'
<1> USE EventsAssumption DEF IInv
<1>1. UNCHANGED <<audit_log, audit_checkpoints, changes, signer, verifier, export>>
  BY DEF Begin, Lock, ReadTip, Insert, Rollback
<1>2. Stored' /\ Readers' /\ Tip' = Tip
  BY <1>1, StoredFrame, ReadersFrame DEF Stored, Readers
<1>3. Tip = [seq |-> Tip.seq, hash |-> Tip.hash] /\ Tip.seq \in Nat
  BY TipOfChained
<1>4. Insert(e) => pc' = [pc EXCEPT ![e] = "inserted"] /\ UNCHANGED <<lock, tip>>
  <2> SUFFICES ASSUME Insert(e) PROVE ~ \E r \in audit_log : r.seq = NewRow(e).seq
    BY DEF Insert
  <2>1. tip[e].seq = Cardinality(audit_log)
    BY TipOfChained DEF Insert, TipInv
  <2>2. NewRow(e).seq = Cardinality(audit_log) + 1 /\ Cardinality(audit_log) \in Nat
    BY <2>1, FS_CardinalityType DEF NewRow, Link, Chained
  <2> QED BY <2>2 DEF Chained
<1>5. TypeOK'
  <2>1. CASE Begin(e) \/ Lock(e) \/ Rollback(e)
    BY <2>1 DEF Begin, Lock, Rollback, Release, TypeOK
  <2>2. CASE ReadTip(e)
    BY <2>2, <1>3 DEF ReadTip, TypeOK
  <2>3. CASE Insert(e)
    BY <2>3, <1>4, <1>1 DEF TypeOK
  <2> QED BY <2>1, <2>2, <2>3
<1>6. LockInv'
  BY <1>4 DEF Begin, Lock, ReadTip, Insert, Rollback, Release, LockInv, TypeOK
<1>7. TipInv'
  <2>1. \A o \in Events : (pc[o] \in {"read", "inserted"})' => tip'[o] = Tip
    BY <1>4 DEF Begin, Lock, ReadTip, Insert, Rollback, TipInv, TypeOK
  <2> QED BY <1>1, <1>2, <2>1 DEF TipInv
<1>8. EventInv' /\ NoConflict'
  BY <1>1, <1>4 DEF Begin, Lock, ReadTip, Insert, Rollback, EventInv, NoConflict, TypeOK
<1> QED BY <1>2, <1>5, <1>6, <1>7, <1>8 DEF Stored, Readers

\* The commit links the new row onto the tip, which no one else has moved.
LEMMA CommitStep ==
    ASSUME IInv, NEW e \in Events, Commit(e)
    PROVE  /\ IInv'
           /\ Cardinality(audit_log') = Cardinality(audit_log) + 1
           /\ NewRow(e).seq = Cardinality(audit_log) + 1
           /\ \A r \in audit_log : r.event # e
<1> USE EventsAssumption DEF IInv
<1>1. /\ pc[e] = "inserted" /\ lock = e /\ tip[e] = Tip
      /\ audit_log' = audit_log \cup {NewRow(e)}
      /\ pc' = [pc EXCEPT ![e] = "done"] /\ lock' = NoOne
      /\ UNCHANGED <<audit_checkpoints, tip, signer, verifier, export>>
  BY DEF Commit, Release, LockInv, TipInv
<1>2. /\ audit_log = {} => tip[e].seq = 0 /\ tip[e].hash = Genesis
      /\ audit_log # {} => tip[e].seq = Last(audit_log).seq /\ tip[e].hash = Last(audit_log).hash
  BY <1>1 DEF Tip
<1>3. /\ Chained(audit_log') /\ NewRow(e) \notin audit_log
      /\ tip[e].seq = Cardinality(audit_log)
      /\ Cardinality(audit_log') = Cardinality(audit_log) + 1
  BY <1>1, <1>2, ChainedAppend DEF NewRow
<1>4. /\ NewRow(e).seq = Cardinality(audit_log) + 1 /\ NewRow(e).event = e
      /\ Cardinality(audit_log) \in Nat
      /\ \A r \in audit_log : r.seq \in 1..Cardinality(audit_log)
  BY <1>3, FS_CardinalityType DEF NewRow, Link, Chained
<1>5. \A r \in audit_log : r.event # e
  BY <1>1 DEF EventInv
<1>6. TypeOK'
  <2>1. IsFiniteSet(audit_log') /\ \A r \in audit_log' : r.seq \in Nat \ {0} /\ r.event \in Events
    BY <1>1, <1>3, <1>4 DEF Chained, TypeOK
  <2>2. changes' \subseteq AtomicEvents
    BY DEF Commit, TypeOK
  <2> QED BY <1>1, <2>1, <2>2 DEF TypeOK
<1>7. LockInv'
  BY <1>1 DEF LockInv, TypeOK
<1>8. TipInv'
  BY <1>1, <1>7 DEF TipInv, LockInv, TypeOK
<1>9. EventInv' /\ NoConflict'
  <2>1. \A o \in Events : pc'[o] = "done" <=> \E r \in audit_log' : r.event = o
    BY <1>1, <1>4, <1>5 DEF EventInv, TypeOK
  <2>2. changes' = {o \in AtomicEvents : pc'[o] = "done"}
    BY <1>1 DEF Commit, EventInv, TypeOK
  <2> QED BY <1>1, <2>1, <2>2 DEF EventInv, NoConflict, TypeOK
<1>10. CheckpointsAttest'
  BY <1>1 DEF CheckpointsAttest
<1>11. VerifierInv'
  BY <1>1, BoundaryMonotone DEF VerifierInv
<1>12. ExportInv'
  <2>1. export.audit = {r \in audit_log' : export.from <= r.seq /\ r.seq < export.next}
    <3>1. export.from \in Nat /\ export.next \in Nat
      BY DEF TypeOK
    <3>2. export.next = export.from \/ export.next <= Cardinality(audit_log) + 1
      BY DEF ExportInv
    <3>3. ~(export.from <= NewRow(e).seq /\ NewRow(e).seq < export.next)
      BY <1>4, <3>1, <3>2
    <3> QED BY <1>1, <3>3 DEF ExportInv
  <2>2. export.next = export.from \/ export.next <= Cardinality(audit_log') + 1
    BY <1>3, <1>4 DEF ExportInv, TypeOK
  <2>3. export.pc \in {"checkpoints", "done"} /\ export.audit # {}
          => Boundary(audit_log', export.from, export.prev)
    BY <1>1, BoundaryMonotone DEF ExportInv
  <2> QED BY <1>1, <2>1, <2>2, <2>3 DEF ExportInv, verifyCheckpoints
<1> QED BY <1>3, <1>4, <1>5, <1>6, <1>7, <1>8, <1>9, <1>10, <1>11, <1>12

\* The steps of AppendCheckpoint: what is attested is the tip that was read.
LEMMA SignerStep ==
    ASSUME IInv, SignerLock \/ SignerReadTip \/ SignerCommit \/ SignerRollback
    PROVE  IInv'
<1> USE EventsAssumption DEF IInv
<1>1. UNCHANGED <<audit_log, changes, pc, tip, verifier, export>>
  BY DEF SignerLock, SignerReadTip, SignerCommit, SignerRollback
<1>2. Readers' /\ Tip' = Tip
  BY <1>1, ReadersFrame DEF Readers, Tip
<1>3. Tip.seq \in Nat /\ (audit_log # {} => \E r \in audit_log : r.seq = Tip.seq /\ r.hash = Tip.hash)
  BY TipOfChained
<1>4. TypeOK'
  <2>1. CASE SignerLock \/ SignerReadTip \/ SignerRollback
    BY <2>1, <1>3 DEF SignerLock, SignerReadTip, SignerRollback, Release, TypeOK
  <2>2. CASE SignerCommit
    <3>1. IsFiniteSet(audit_checkpoints')
      BY <2>2, FS_AddElement DEF SignerCommit, TypeOK
    <3>2. \A c \in audit_checkpoints' : c.through \in Nat
      BY <2>2 DEF SignerCommit, TypeOK
    <3> QED BY <2>2, <1>1, <3>1, <3>2 DEF SignerCommit, Release, TypeOK
  <2> QED BY <2>1, <2>2
<1>5. LockInv'
  BY DEF SignerLock, SignerReadTip, SignerCommit, SignerRollback, Release, LockInv, TypeOK
<1>6. TipInv'
  <2>1. signer'.pc = "read" => audit_log # {} /\ signer'.seq = Tip.seq /\ signer'.hash = Tip.hash
    BY DEF SignerLock, SignerReadTip, SignerCommit, SignerRollback, TipInv, TypeOK
  <2> QED BY <1>1, <1>2, <2>1 DEF TipInv
<1>7. CheckpointsAttest'
  <2>1. CASE SignerCommit
    BY <2>1, <1>1, <1>3 DEF SignerCommit, TipInv, CheckpointsAttest
  <2>2. CASE UNCHANGED audit_checkpoints
    BY <2>2, <1>1 DEF CheckpointsAttest
  <2> QED BY <2>1, <2>2 DEF SignerLock, SignerReadTip, SignerRollback
<1>8. EventInv' /\ NoConflict' /\ Chained(audit_log)'
  BY <1>1 DEF EventInv, NoConflict
<1> QED BY <1>2, <1>4, <1>5, <1>6, <1>7, <1>8 DEF Readers

\* VerifyAuditChain never reports an untouched ledger, and keeps the hash the
\* next page must name.
LEMMA VerifierStep ==
    ASSUME IInv, VerifyStart \/ VerifyPage
    PROVE  IInv'
<1> USE DEF IInv
<1>1. UNCHANGED <<audit_log, audit_checkpoints, changes, lock, pc, tip, signer, export>>
  BY DEF VerifyStart, VerifyPage, txVars
<1>2. Chained(audit_log)' /\ CheckpointsAttest' /\ Tip' = Tip
  BY <1>1, StoredFrame DEF Stored
<1>3. LockInv' /\ TipInv' /\ EventInv' /\ NoConflict' /\ ExportInv'
  BY <1>1, <1>2 DEF LockInv, TipInv, EventInv, NoConflict, ExportInv, verifyCheckpoints
<1>4. CASE VerifyStart
  <2>1. verifier' = [pc |-> "paging", from |-> 1, prev |-> Genesis]
    BY <1>4 DEF VerifyStart
  <2>2. TypeOK'
    BY <1>1, <2>1 DEF TypeOK
  <2>3. VerifierInv'
    BY <2>1 DEF VerifierInv, Boundary
  <2> QED BY <1>2, <1>3, <2>2, <2>3
<1>5. CASE VerifyPage
  <2> DEFINE page == ListAuditChain(verifier.from)
  <2>1. verifier.from \in Nat \ {0} /\ Boundary(audit_log, verifier.from, verifier.prev)
    BY <1>5 DEF VerifyPage, TypeOK, VerifierInv
  <2>2. page # {} => VerifyFrom(verifier.prev, page)
    <3>1. /\ page \in SUBSET audit_log
          /\ \A r \in page : r.seq >= verifier.from
          /\ \A r \in page, q \in audit_log :
                verifier.from <= q.seq /\ q.seq < r.seq => q \in page
      BY <2>1, PageIsRun
    <3> HIDE DEF page
    <3> QED BY <2>1, <3>1, RunVerifies
  <2>3. page # {} /\ verifier.from = 1 => First(page).seq = 1
    <3> SUFFICES ASSUME page # {}, verifier.from = 1 PROVE First(page).seq = 1
      OBVIOUS
    <3>1. \A r \in audit_log : r.seq \in 1..Cardinality(audit_log)
      BY DEF Chained
    <3>2. Cardinality(audit_log) \in Nat /\ Cardinality(audit_log) # 0
      <4>1. audit_log # {}
        BY DEF ListAuditChain
      <4> QED BY <4>1, ChainedLast
    <3>3. PICK r \in audit_log : r.seq = 1
      BY <3>2 DEF Chained
    <3>4. r \in page /\ page \subseteq audit_log
      BY <2>1, <3>3, PageIsRun
    <3> HIDE DEF page
    <3>5. \A q \in page : r.seq <= q.seq
      BY <3>1, <3>2, <3>3, <3>4
    <3>6. First(page) \in page /\ \A q \in page : First(page).seq <= q.seq
      BY <3>4, <3>5 DEF First
    <3> QED BY <3>1, <3>2, <3>3, <3>4, <3>6
  <2>4. CASE page = {}
    <3>1. verifier' = [verifier EXCEPT !.pc = "intact"]
      BY <1>5, <2>4 DEF VerifyPage
    <3>2. TypeOK' /\ VerifierInv'
      BY <1>1, <3>1 DEF TypeOK, VerifierInv
    <3> QED BY <1>2, <1>3, <3>2
  <2>5. CASE page # {}
    <3>1. /\ verifier'.pc \in {"intact", "paging"}
          /\ verifier' = [pc |-> verifier'.pc, from |-> Last(page).seq + 1,
                          prev |-> Last(page).hash]
      BY <1>5, <2>2, <2>3, <2>5 DEF VerifyPage
    <3>2. Last(page) \in audit_log /\ Last(page).seq \in 1..Cardinality(audit_log)
      BY <2>1, <2>5, PageLast
    <3> HIDE DEF page
    <3>3. Last(page).seq + 1 \in Nat \ {0}
      BY <3>2, FS_CardinalityType DEF Chained
    <3>4. TypeOK'
      BY <1>1, <3>1, <3>3 DEF TypeOK
    <3>5. VerifierInv'
      BY <1>1, <3>1, <3>2 DEF VerifierInv, Boundary
    <3> QED BY <1>2, <1>3, <3>4, <3>5
  <2> QED BY <2>4, <2>5
<1> QED BY <1>4, <1>5

\* A full page never ends the walk: "intact" is answered at the tip.
LEMMA VerifiedAtTip ==
    ASSUME IInv, VerifyPage, verifier'.pc = "intact"
    PROVE  verifier'.from = Tip.seq + 1
<1> DEFINE page == ListAuditChain(verifier.from)
           n == Cardinality(audit_log)
<1>1. Chained(audit_log) /\ verifier.from \in Nat \ {0}
      /\ Boundary(audit_log, verifier.from, verifier.prev)
  BY DEF IInv, TypeOK, VerifyPage, VerifierInv
<1>2. Tip.seq = n /\ n \in Nat
  BY <1>1, TipOfChained
<1>3. Cardinality(page) < PageSize
  <2>1. CASE page = {}
    BY <2>1, FS_EmptySet, PageAssumption
  <2>2. CASE page # {}
    BY <2>2 DEF VerifyPage
  <2> QED BY <2>1, <2>2
<1>4. \A r \in audit_log : r.seq >= verifier.from => r \in page
  BY <1>1, <1>3, ShortPageReachesTip
<1>5. CASE page = {}
  <2>1. verifier'.from = verifier.from
    BY <1>5 DEF VerifyPage, IInv, TypeOK
  <2>2. \A k \in 1..n : \E r \in audit_log : r.seq = k
    BY <1>1 DEF Chained
  <2>3. \A r \in audit_log : r.seq \in 1..n
    BY <1>1 DEF Chained
  <2>4. ~(n >= verifier.from)
    BY <1>1, <1>2, <1>4, <1>5, <2>2
  <2>5. verifier.from <= n + 1
    BY <1>1, <1>2, <2>3 DEF Boundary
  <2> QED BY <1>1, <1>2, <2>1, <2>4, <2>5
<1>6. CASE page # {}
  <2>1. verifier'.from = Last(page).seq + 1
    BY <1>6 DEF VerifyPage
  <2>2. /\ Last(page).seq \in 1..n /\ Last(page).seq >= verifier.from
        /\ \A q \in page : q.seq <= Last(page).seq
    BY <1>1, <1>6, PageLast
  <2>3. PICK r \in audit_log : r.seq = n
    BY <1>1, <1>2, <2>2 DEF Chained
  <2>4. r \in page
    BY <1>1, <1>2, <1>4, <2>2, <2>3
  <2> HIDE DEF page
  <2> QED BY <1>2, <2>1, <2>2, <2>3, <2>4
<1> QED BY <1>5, <1>6

\* ExportEvidence collects a gapless range, and the hash and the checkpoints that
\* belong to it, however many entries are committed between its queries.
LEMMA ExportStep ==
    ASSUME IInv, (\E f \in FromSeqs : ExportStart(f)) \/ ExportPage \/ ExportPrev \/ ExportCheckpoints
    PROVE  IInv'
<1> USE DEF IInv
<1>1. UNCHANGED <<audit_log, audit_checkpoints, changes, lock, pc, tip, signer, verifier>>
  BY DEF ExportStart, ExportPage, ExportPrev, ExportCheckpoints, txVars
<1>2. Chained(audit_log)' /\ CheckpointsAttest' /\ Tip' = Tip
  BY <1>1, StoredFrame DEF Stored
<1>3. LockInv' /\ TipInv' /\ EventInv' /\ NoConflict' /\ VerifierInv'
  BY <1>1, <1>2 DEF LockInv, TipInv, EventInv, NoConflict, VerifierInv
<1>4. \A r \in audit_log : r.seq \in 1..Cardinality(audit_log)
  BY DEF Chained
<1>5. Cardinality(audit_log) \in Nat
  BY FS_CardinalityType DEF Chained
<1>6. export.from \in Nat \ {0} /\ export.next \in Nat \ {0}
  BY DEF TypeOK
<1>7. ASSUME NEW f \in FromSeqs, ExportStart(f) PROVE TypeOK' /\ ExportInv'
  <2>1. f \in Nat \ {0}
    BY FromSeqsAssumption
  <2>2. export' = [pc |-> "paging", from |-> f, next |-> f, audit |-> {},
                   prev |-> Genesis, checkpoints |-> {}]
    BY <1>7 DEF ExportStart
  <2>3. TypeOK'
    BY <1>1, <2>1, <2>2 DEF TypeOK
  <2>4. \A r \in audit_log' : ~(f <= r.seq /\ r.seq < f)
    BY <1>1, <1>4, <1>5, <2>1
  <2> QED BY <2>1, <2>2, <2>3, <2>4 DEF ExportInv
<1>8. CASE ExportPage
  <2> DEFINE page == ListAuditChain(export.next)
  <2>1. /\ export'.pc \in {"paging", "prev"}
        /\ export' = [pc |-> export'.pc, from |-> export.from, next |-> export'.next,
                      audit |-> export'.audit, prev |-> export.prev,
                      checkpoints |-> export.checkpoints]
        /\ export'.audit = export.audit \cup page
        /\ export'.next = IF page = {} THEN export.next ELSE Last(page).seq + 1
    BY <1>8 DEF ExportPage, TypeOK
  <2>2. /\ export'.next \in Nat \ {0}
        /\ export.from <= export'.next
        /\ export'.next = export.from \/ export'.next <= Cardinality(audit_log) + 1
        /\ export'.audit = {r \in audit_log : export.from <= r.seq /\ r.seq < export'.next}
    <3>1. export.from <= export.next
      BY DEF ExportInv
    <3>2. export.audit = {r \in audit_log : export.from <= r.seq /\ r.seq < export.next}
      BY DEF ExportInv
    <3>3. CASE page = {}
      <4>1. export'.next = export.next /\ export'.audit = export.audit
        BY <2>1, <3>3
      <4> QED BY <1>6, <3>1, <3>2, <4>1 DEF ExportInv
    <3>4. CASE page # {}
      <4> DEFINE m == Last(page).seq + 1
      <4>1. /\ Last(page).seq \in 1..Cardinality(audit_log)
            /\ Last(page).seq >= export.next
            /\ page = {r \in audit_log : export.next <= r.seq /\ r.seq < m}
        BY <1>6, <3>4, PageLast
      <4>2. export'.next = m /\ export'.audit = export.audit \cup page
        BY <2>1, <3>4
      <4> HIDE DEF page
      <4>3. m \in Nat \ {0} /\ m <= Cardinality(audit_log) + 1 /\ export.next < m
        BY <1>5, <1>6, <4>1
      <4> HIDE DEF m
      <4>4. export.audit \cup page = {r \in audit_log : export.from <= r.seq /\ r.seq < m}
        BY <1>4, <1>5, <1>6, <3>1, <3>2, <4>1, <4>3
      <4> QED BY <1>6, <3>1, <4>2, <4>3, <4>4
    <3> QED BY <3>3, <3>4
  <2>3. TypeOK'
    BY <1>1, <2>1, <2>2 DEF TypeOK
  <2>4. ExportInv'
    BY <1>1, <2>1, <2>2 DEF ExportInv
  <2> QED BY <1>2, <1>3, <2>3, <2>4
<1>9. CASE ExportPrev
  <2> DEFINE before == {r \in audit_log : r.seq = First(export.audit).seq - 1}
  <2>1. export' = [export EXCEPT !.pc = "checkpoints", !.prev = export'.prev]
    BY <1>9 DEF ExportPrev, TypeOK
  <2>2. export'.prev = IF export.audit # {} /\ before # {}
                         THEN (CHOOSE r \in before : TRUE).hash ELSE Genesis
    BY <1>9 DEF ExportPrev, TypeOK
  <2>3. ASSUME export.audit # {} PROVE Boundary(audit_log, export.from, export'.prev)
    <3>1. /\ export.audit \subseteq audit_log
          /\ \A r \in export.audit : export.from <= r.seq
          /\ \A q \in audit_log, r \in export.audit :
                export.from <= q.seq /\ q.seq < r.seq => q \in export.audit
      BY <1>4, <1>5, <1>6 DEF ExportInv
    <3>2. PICK x \in export.audit : TRUE
      BY <2>3
    <3>3. export.from \in 1..Cardinality(audit_log)
      BY <1>4, <1>5, <1>6, <3>1, <3>2
    <3>4. PICK r \in audit_log : r.seq = export.from
      BY <3>3 DEF Chained
    <3>5. r \in export.audit
      <4>1. x.seq = export.from => x = r
        BY <3>1, <3>4 DEF Chained
      <4> QED BY <1>4, <1>5, <1>6, <3>1, <3>4, <4>1
    <3>6. First(export.audit) = r
      <4>1. \A q \in export.audit : r.seq <= q.seq
        BY <3>1, <3>4
      <4>2. First(export.audit) \in export.audit /\ \A q \in export.audit : First(export.audit).seq <= q.seq
        BY <3>5, <4>1 DEF First
      <4>3. First(export.audit).seq = r.seq
        BY <1>4, <1>5, <3>1, <3>5, <4>1, <4>2
      <4> QED BY <3>1, <4>2, <4>3 DEF Chained
    <3>7. CASE export.from = 1
      <4>1. before = {}
        BY <1>4, <1>5, <3>4, <3>6, <3>7
      <4> QED BY <2>2, <3>7, <4>1 DEF Boundary
    <3>8. CASE export.from # 1
      <4>1. PICK q \in audit_log : q.seq = export.from - 1
        BY <1>5, <3>3, <3>8 DEF Chained
      <4>2. before # {} /\ \A o \in before : o \in audit_log /\ o.seq = export.from - 1
        BY <3>4, <3>6, <4>1
      <4> HIDE DEF before
      <4>3. PICK o \in before : export'.prev = o.hash
        BY <2>2, <2>3, <4>2
      <4> QED BY <1>6, <4>2, <4>3 DEF Boundary
    <3> QED BY <3>7, <3>8
  <2>4. TypeOK'
    BY <1>1, <2>1 DEF TypeOK
  <2>5. ExportInv'
    BY <1>1, <2>1, <2>3 DEF ExportInv, TypeOK
  <2> QED BY <1>2, <1>3, <2>4, <2>5
<1>10. CASE ExportCheckpoints
  <2>1. export' = [export EXCEPT !.pc = "done", !.checkpoints = ShippedCheckpoints]
    BY <1>10 DEF ExportCheckpoints
  <2>2. \A c \in ShippedCheckpoints : \E r \in export.audit : r.seq = c.through /\ r.hash = c.hash
    <3> SUFFICES ASSUME NEW c \in ShippedCheckpoints
                 PROVE  \E r \in export.audit : r.seq = c.through /\ r.hash = c.hash
      OBVIOUS
    <3>1. c \in audit_checkpoints /\ export.from <= c.through /\ c.through <= ThroughSeq
      BY DEF ShippedCheckpoints
    <3>2. PICK r \in audit_log : r.seq = c.through /\ r.hash = c.hash
      BY <3>1 DEF CheckpointsAttest
    <3>3. export.audit # {}
      BY <1>6, <3>1, <3>2, <1>4, <1>5 DEF ThroughSeq
    <3>4. \A q \in export.audit : q.seq \in 1..Cardinality(audit_log) /\ q.seq < export.next
      BY <1>4 DEF ExportInv
    <3>5. Last(export.audit) \in export.audit
      BY <1>5, <3>3, <3>4, LastExists
    <3>6. r.seq < export.next
      BY <1>4, <1>5, <1>6, <3>1, <3>2, <3>3, <3>4, <3>5 DEF ThroughSeq
    <3> QED BY <3>1, <3>2, <3>6 DEF ExportInv
  <2> HIDE DEF ShippedCheckpoints
  <2>3. TypeOK'
    BY <1>1, <2>1 DEF TypeOK
  <2>4. verifyCheckpoints'
    BY <2>1, <2>2 DEF verifyCheckpoints, TypeOK
  <2>5. ExportInv'
    BY <1>1, <1>10, <2>1, <2>4 DEF ExportInv, TypeOK, ExportCheckpoints
  <2> QED BY <1>2, <1>3, <2>3, <2>5
<1> QED BY <1>2, <1>3, <1>7, <1>8, <1>9, <1>10

\* Every step, and every stutter, preserves the invariant.
LEMMA NextIInv == IInv /\ [Next]_vars => IInv'
<1> SUFFICES ASSUME IInv, [Next]_vars PROVE IInv'
  OBVIOUS
<1>1. ASSUME NEW e \in Events,
             Begin(e) \/ Lock(e) \/ ReadTip(e) \/ Insert(e) \/ Rollback(e)
      PROVE  IInv'
  BY <1>1, WriterStep
<1>2. ASSUME NEW e \in Events, Commit(e) PROVE IInv'
  BY <1>2, CommitStep
<1>3. CASE SignerLock \/ SignerReadTip \/ SignerCommit \/ SignerRollback
  BY <1>3, SignerStep
<1>4. CASE VerifyStart \/ VerifyPage
  BY <1>4, VerifierStep
<1>5. CASE (\E f \in FromSeqs : ExportStart(f)) \/ ExportPage \/ ExportPrev \/ ExportCheckpoints
  BY <1>5, ExportStep
<1>6. CASE ReaderFails
  <2>1. UNCHANGED <<audit_log, audit_checkpoints, changes, lock, pc, tip, signer>>
    BY <1>6 DEF ReaderFails, txVars
  <2>2. TypeOK'
    BY <1>6, <2>1 DEF ReaderFails, IInv, TypeOK
  <2>3. Chained(audit_log)' /\ CheckpointsAttest' /\ Tip' = Tip
    BY <2>1, StoredFrame DEF IInv, Stored
  <2>4. LockInv' /\ TipInv' /\ EventInv' /\ NoConflict'
    BY <2>1, <2>3 DEF IInv, LockInv, TipInv, EventInv, NoConflict
  <2>5. VerifierInv' /\ ExportInv'
    BY <1>6, <2>1 DEF ReaderFails, IInv, TypeOK, VerifierInv, ExportInv, verifyCheckpoints
  <2> QED BY <2>2, <2>3, <2>4, <2>5 DEF IInv
<1>7. CASE UNCHANGED vars
  <2>1. UNCHANGED <<audit_log, audit_checkpoints, changes, lock, pc, tip, signer, verifier, export>>
    BY <1>7 DEF vars
  <2>2. Chained(audit_log)' /\ CheckpointsAttest' /\ VerifierInv' /\ ExportInv' /\ Tip' = Tip
    BY <2>1, StoredFrame, ReadersFrame DEF IInv, Stored, Readers
  <2>3. LockInv' /\ TipInv' /\ EventInv' /\ NoConflict'
    BY <2>1, <2>2 DEF IInv, LockInv, TipInv, EventInv, NoConflict
  <2>4. TypeOK'
    BY <2>1 DEF IInv, TypeOK
  <2> QED BY <2>2, <2>3, <2>4 DEF IInv
<1> QED BY <1>1, <1>2, <1>3, <1>4, <1>5, <1>6, <1>7 DEF Next

\* The inductive invariant is an invariant of the specification.
LEMMA InvariantHolds == Spec => []IInv
<1> QED BY InitIInv, NextIInv, PTL DEF Spec

-----------------------------------------------------------------------------
(***************************************************************************)
(* What the invariant gives.                                               *)
(***************************************************************************)

\* Each variable keeps the shape its table, transaction or call gives it.
THEOREM TypeCorrect == Spec => []TypeOK
<1>1. IInv => TypeOK
  BY DEF IInv
<1> QED BY <1>1, InvariantHolds, PTL

\* For any set of events and any interleaving, the ledger auditInTx stores passes
\* auditchain.Verify.
THEOREM LedgerIntact == Spec => []ChainIntact
<1>1. IInv => ChainIntact
  <2> SUFFICES ASSUME IInv PROVE ChainIntact
    OBVIOUS
  <2>1. Chained(audit_log)
    BY DEF IInv
  <2>2. \A r \in audit_log : r.seq >= 1
    BY <2>1, FS_CardinalityType DEF Chained
  <2>3. Boundary(audit_log, 1, Genesis)
    BY DEF Boundary
  <2>4. VerifyFrom(Genesis, audit_log)
    BY <2>1, <2>2, <2>3, RunVerifies
  <2> QED BY <2>1, <2>4 DEF Chained, ChainIntact
<1> QED BY <1>1, InvariantHolds, PTL

\* The advisory lock alone keeps two transactions off one sequence number.
THEOREM LockOrdersWriters == Spec => []NoConflict
<1>1. IInv => NoConflict
  BY DEF IInv
<1> QED BY <1>1, InvariantHolds, PTL

\* A change and its entry commit or roll back together.
THEOREM ChangeAndEntryTogether == Spec => []AtomicWithChange
<1>1. IInv => AtomicWithChange
  BY EventsAssumption DEF IInv, EventInv, AtomicWithChange
<1> QED BY <1>1, InvariantHolds, PTL

\* VerifyAuditChain never reports an untouched ledger, whatever the page size and
\* however much is appended between two pages.
THEOREM VerifierNeverCriesWolf == Spec => []NoFalseAlarm
<1>1. IInv => NoFalseAlarm
  BY DEF IInv, VerifierInv, NoFalseAlarm
<1> QED BY <1>1, InvariantHolds, PTL

\* A signed checkpoint names a row of the ledger and its hash.
THEOREM CheckpointsNameRows == Spec => []CheckpointsAttest
<1>1. IInv => CheckpointsAttest
  BY DEF IInv
<1> QED BY <1>1, InvariantHolds, PTL

\* Every bundle ExportEvidence finishes passes the offline audit checks.
THEOREM BundlesVerify == Spec => []BundleVerifies
<1>1. IInv => BundleVerifies
  <2> SUFFICES ASSUME IInv, export.pc = "done" PROVE verifyAuditChain /\ verifyCheckpoints
    BY DEF BundleVerifies
  <2>1. verifyCheckpoints
    BY DEF IInv, ExportInv
  <2>2. Chained(audit_log) /\ export.from \in Nat \ {0} /\ export.next \in Nat
    BY DEF IInv, TypeOK
  <2>3. export.audit = {r \in audit_log : export.from <= r.seq /\ r.seq < export.next}
    BY DEF IInv, ExportInv
  <2>4. \A r \in audit_log : r.seq \in Nat
    BY <2>2, FS_CardinalityType DEF Chained
  <2>5. \A r \in export.audit, q \in audit_log :
            export.from <= q.seq /\ q.seq < r.seq => q \in export.audit
    BY <2>2, <2>3, <2>4
  <2>6. CASE export.audit = {}
    BY <2>1, <2>6 DEF verifyAuditChain, VerifyFrom
  <2>7. CASE export.audit # {}
    <3>1. Boundary(audit_log, export.from, export.prev)
      BY <2>7 DEF IInv, ExportInv
    <3>2. export.audit \in SUBSET audit_log /\ \A r \in export.audit : r.seq >= export.from
      BY <2>2, <2>3, <2>4
    <3>3. VerifyFrom(export.prev, export.audit)
      BY <2>2, <2>5, <3>1, <3>2, RunVerifies
    <3> QED BY <2>1, <3>3 DEF verifyAuditChain
  <2> QED BY <2>6, <2>7
<1> QED BY <1>1, InvariantHolds, PTL

\* VerifyAuditChain answers "intact" only from the tip of the moment.
THEOREM WalkReachesTip == Spec => VerifiedToTheEnd
<1>1. IInv /\ [Next]_vars => [ (verifier.pc = "paging" /\ verifier'.pc = "intact")
                                 => verifier'.from = Tip.seq + 1 ]_vars
  <2> SUFFICES ASSUME IInv, Next, verifier.pc = "paging", verifier'.pc = "intact"
               PROVE  verifier'.from = Tip.seq + 1
    OBVIOUS
  <2>1. VerifyPage
    BY DEF Next, Begin, Lock, ReadTip, Insert, Commit, Rollback, SignerLock, SignerReadTip,
           SignerCommit, SignerRollback, VerifyStart, ExportStart, ExportPage, ExportPrev,
           ExportCheckpoints, ReaderFails, IInv, TypeOK
  <2> QED BY <2>1, VerifiedAtTip
<1> QED BY <1>1, InvariantHolds, PTL DEF Spec, VerifiedToTheEnd

-----------------------------------------------------------------------------
(***************************************************************************)
(* The transactions implement the abstract ledger.                         *)
(***************************************************************************)

Recorded == [i \in 1..Cardinality(audit_log) |-> RowAt(i).event]

\* The rows of a chained ledger, in order, are a sequence of events.
LEMMA RecordedIsSequence ==
    ASSUME IInv
    PROVE  /\ Recorded \in Seq(Events)
           /\ Len(Recorded) = Cardinality(audit_log)
           /\ \A i \in 1..Len(Recorded) : RowAt(i) \in audit_log /\ RowAt(i).seq = i
<1>1. Cardinality(audit_log) \in Nat
  BY FS_CardinalityType DEF IInv, Chained
<1>2. ASSUME NEW i \in 1..Cardinality(audit_log) PROVE RowAt(i) \in audit_log /\ RowAt(i).seq = i
  BY DEF IInv, Chained, RowAt
<1>3. \A i \in 1..Cardinality(audit_log) : RowAt(i).event \in Events
  BY <1>2 DEF IInv, TypeOK
<1> QED BY <1>1, <1>2, <1>3 DEF Recorded

\* A commit appends its event to the recorded sequence.
LEMMA CommitRecords ==
    ASSUME IInv, NEW e \in Events, Commit(e)
    PROVE  Recorded' = Append(Recorded, e) /\ \A i \in 1..Len(Recorded) : Recorded[i] # e
<1>0. PICK n \in Nat : n = Cardinality(audit_log)
  BY FS_CardinalityType DEF IInv, Chained
<1>1. /\ IInv' /\ Cardinality(audit_log') = n + 1
      /\ NewRow(e).seq = n + 1 /\ \A r \in audit_log : r.event # e
  BY <1>0, CommitStep
<1>2. audit_log' = audit_log \cup {NewRow(e)} /\ NewRow(e).event = e
  BY DEF Commit, NewRow, Link
<1>3. Recorded \in Seq(Events) /\ Len(Recorded) = n
      /\ \A i \in 1..n : RowAt(i) \in audit_log /\ RowAt(i).seq = i
  BY <1>0, RecordedIsSequence
<1>4. Recorded' \in Seq(Events) /\ Len(Recorded') = n + 1
      /\ \A i \in 1..(n + 1) : RowAt(i)' \in audit_log' /\ RowAt(i)'.seq = i
  <2>1. \A i \in 1..Cardinality(audit_log') : RowAt(i)' \in audit_log' /\ RowAt(i)'.seq = i
    BY <1>1 DEF IInv, Chained, RowAt
  <2>2. \A i \in 1..(n + 1) : RowAt(i)'.event \in Events
    BY <1>1, <2>1 DEF IInv, TypeOK
  <2>3. Recorded' = [i \in 1..(n + 1) |-> RowAt(i)'.event]
    BY <1>1 DEF Recorded
  <2> QED BY <1>1, <2>1, <2>2, <2>3
<1>5. \A r, q \in audit_log' : r.seq = q.seq => r = q
  BY <1>1 DEF IInv, Chained
<1>6. \A i \in 1..n : RowAt(i)' = RowAt(i)
  BY <1>2, <1>3, <1>4, <1>5
<1>7. RowAt(n + 1)' = NewRow(e)
  BY <1>1, <1>2, <1>4, <1>5
<1>8. \A i \in 1..n : Recorded[i] = RowAt(i).event
  BY <1>0 DEF Recorded
<1>9. \A i \in 1..(n + 1) : Recorded'[i] = RowAt(i)'.event
  <2>1. Recorded' = [i \in 1..(n + 1) |-> RowAt(i)'.event]
    BY <1>1 DEF Recorded
  <2> QED BY <2>1
<1>10. Recorded' = Append(Recorded, e)
  <2>1. \A i \in 1..n : Recorded'[i] = Recorded[i]
    BY <1>6, <1>8, <1>9
  <2>2. Recorded'[n + 1] = e
    BY <1>2, <1>7, <1>9
  <2>3. /\ Append(Recorded, e) \in Seq(Events)
        /\ Len(Append(Recorded, e)) = n + 1
        /\ \A i \in 1..n : Append(Recorded, e)[i] = Recorded[i]
        /\ Append(Recorded, e)[n + 1] = e
    BY <1>3, AppendProperties
  <2>4. \A i \in 1..(n + 1) : Recorded'[i] = Append(Recorded, e)[i]
    BY <2>1, <2>2, <2>3
  <2> QED BY <1>4, <2>3, <2>4, SeqEqual
<1>11. \A i \in 1..Len(Recorded) : Recorded[i] # e
  BY <1>1, <1>3, <1>8
<1> QED BY <1>10, <1>11

\* Each step of the transactions records an event, attests the whole ledger or
\* changes nothing of the abstract ledger.
LEMMA StepImplements ==
    ASSUME IInv, [Next]_vars
    PROVE  [Ledger!Next]_(Ledger!vars)
<1> DEFINE attested == {c.through : c \in audit_checkpoints}
<1>1. ASSUME UNCHANGED <<audit_log, audit_checkpoints>> PROVE UNCHANGED Ledger!vars
  <2>1. Recorded' = Recorded /\ attested' = attested
    BY <1>1 DEF Recorded, RowAt
  <2> QED BY <2>1 DEF Ledger!vars, Recorded
<1>2. ASSUME NEW e \in Events, Commit(e) PROVE Ledger!Record(e)
  <2>1. Recorded' = Append(Recorded, e) /\ \A i \in 1..Len(Recorded) : Recorded[i] # e
    BY <1>2, CommitRecords
  <2>2. attested' = attested
    BY <1>2 DEF Commit
  <2> QED BY <2>1, <2>2 DEF Ledger!Record, Recorded
<1>3. CASE SignerCommit
  <2>1. audit_log # {} /\ signer.seq = Cardinality(audit_log) /\ audit_log' = audit_log
    BY <1>3, TipOfChained DEF SignerCommit, IInv, TipInv
  <2>2. Recorded' = Recorded /\ Len(Recorded) = Cardinality(audit_log) /\ Recorded # << >>
    <3>1. Cardinality(audit_log) # 0
      BY <2>1, ChainedLast DEF IInv
    <3>2. Recorded' = Recorded
      BY <2>1 DEF Recorded, RowAt
    <3>3. Len(Recorded) = Cardinality(audit_log)
      BY RecordedIsSequence
    <3> QED BY <3>1, <3>2, <3>3
  <2>3. attested' = attested \cup {Len(Recorded)}
    <3> DEFINE x == [through |-> signer.seq, hash |-> signer.hash]
    <3>1. audit_checkpoints' = audit_checkpoints \cup {x}
      BY <1>3 DEF SignerCommit
    <3>2. x.through = Len(Recorded)
      BY <2>1, <2>2
    <3> HIDE DEF x
    <3> QED BY <3>1, <3>2
  <2>4. Ledger!Attest
    BY <2>2, <2>3 DEF Ledger!Attest, Recorded
  <2> QED BY <2>4 DEF Ledger!Next
<1>4. CASE UNCHANGED vars
  BY <1>1, <1>4 DEF vars
<1>5. Next /\ ~SignerCommit /\ (\A e \in Events : ~Commit(e))
        => UNCHANGED <<audit_log, audit_checkpoints>>
  BY DEF Next, Begin, Lock, ReadTip, Insert, Rollback, SignerLock, SignerReadTip,
         SignerRollback, VerifyStart, VerifyPage, ExportStart, ExportPage, ExportPrev,
         ExportCheckpoints, ReaderFails
<1> QED BY <1>1, <1>2, <1>3, <1>4, <1>5 DEF Ledger!Next

\* auditInTx, AppendCheckpoint and their rollbacks implement the append-only ledger.
THEOREM LedgerRefined == Spec => ImplementsLedger
<1>1. Init => Ledger!Init
  BY FS_EmptySet DEF Init, Ledger!Init
<1>2. IInv /\ [Next]_vars => [Ledger!Next]_(Ledger!vars)
  BY StepImplements
<1> QED BY <1>1, <1>2, InvariantHolds, PTL DEF Spec, ImplementsLedger, Ledger!Spec

=============================================================================
