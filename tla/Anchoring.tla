------------------------------ MODULE Anchoring ------------------------------
(***************************************************************************)
(* Anchoring of the audit chain: the timer signs a checkpoint of the       *)
(* chain's tip and publishes the newest checkpoint without an anchor to    *)
(* every target; an administrator may ask for that at any time; what       *)
(* became of it at each target is recorded row by row, and the rows are    *)
(* compared with the chain as it stands.                                   *)
(*                                                                         *)
(* A hash stands for a row and all before it.  A rebuilt chain is what     *)
(* anchors are to show, so the rows from some sequence number on may once  *)
(* be replaced by others; the other tables are left alone.                 *)
(***************************************************************************)
EXTENDS Naturals, FiniteSets, Sequences, SequencesExt

CONSTANTS
    Targets,        \* the configured targets, in order
    Publishers,     \* the timer, and requests to anchor now
    Timer,
    Limit,          \* rows one comparison reads (200)
    MaxSeq,         \* bound: rows of the chain
    MaxFaults       \* bound: targets and statements that fail, restarts

VARIABLES
    chain,          \* audit_log: the entry hash of each sequence number
    checkpoints,    \* audit_checkpoints: through_seq and entry_hash
    anchors,        \* audit_anchors, in the order of their insertion
    held,           \* what each target holds: a peer's table, a file, a token issued
    job,            \* each publisher: its checkpoint, and the records so far
    verifier,       \* a comparison under way, and the last verdict
    faults,
    rebuilt         \* history: the rows from here on are not the first ones (0: none)

vars == <<chain, checkpoints, anchors, held, job, verifier, faults, rebuilt>>

TargetSet == ToSet(Targets)
Idle == [pc |-> "idle", cp |-> [seq |-> 0, hash |-> "none"], records |-> <<>>]
\* all: history, the table when the rows were read
NoVerifier == [pc |-> "idle", rows |-> {}, all |-> {}, verdict |-> "none"]

Init ==
    /\ chain = <<>> /\ checkpoints = {} /\ anchors = <<>>
    /\ held = [t \in TargetSet |-> {}]
    /\ job = [p \in Publishers |-> Idle]
    /\ verifier = NoVerifier /\ faults = 0 /\ rebuilt = 0

Fault == faults < MaxFaults /\ faults' = faults + 1

-----------------------------------------------------------------------------
(* The chain.                                                              *)

AppendEntry ==
    /\ Len(chain) < MaxSeq
    /\ chain' = Append(chain, IF rebuilt = 0 THEN "first" ELSE "rebuilt")
    /\ UNCHANGED <<checkpoints, anchors, held, job, verifier, faults, rebuilt>>

\* The rows from k on are replaced, by as many or by fewer, but some row stays.
Rebuild(k) ==
    /\ rebuilt = 0 /\ rebuilt' = k
    /\ \E n \in (k - 1)..Len(chain) : n > 0 /\ chain' = [i \in 1..n |-> IF i < k THEN chain[i] ELSE "rebuilt"]
    /\ UNCHANGED <<checkpoints, anchors, held, job, verifier, faults>>

-----------------------------------------------------------------------------
(* Publication.                                                            *)

Anchored(seq) == \E i \in DOMAIN anchors : anchors[i].seq = seq /\ anchors[i].ok
\* Only the newest checkpoint is looked at.
UnanchoredTip == {c \in checkpoints : ~Anchored(c.seq) /\ \A d \in checkpoints : d.seq <= c.seq}
Unanchored == {c \in checkpoints : ~Anchored(c.seq)}
\* LatestUnanchoredCheckpoint
Newest(unanchored) == CHOOSE c \in unanchored : \A d \in unanchored : d.seq <= c.seq

\* The timer: AppendCheckpoint on the tip.  An empty chain has nothing to attest.
Sign ==
    /\ job[Timer].pc = "idle" /\ Len(chain) > 0
    /\ checkpoints' = checkpoints \cup {[seq |-> Len(chain), hash |-> Last(chain)]}
    /\ job' = [job EXCEPT ![Timer].pc = "latest"]
    /\ UNCHANGED <<chain, anchors, held, verifier, faults, rebuilt>>

\* A request goes straight on to the newest unanchored checkpoint.
AnchorNow(p) ==
    /\ p # Timer /\ job[p].pc = "idle"
    /\ job' = [job EXCEPT ![p].pc = "latest"]
    /\ UNCHANGED <<chain, checkpoints, anchors, held, verifier, faults, rebuilt>>

Latest(p) ==
    /\ job[p].pc = "latest"
    /\ job' = [job EXCEPT ![p] =
                IF Unanchored = {} THEN Idle ELSE [@ EXCEPT !.pc = "publish", !.cp = Newest(Unanchored)]]
    /\ UNCHANGED <<chain, checkpoints, anchors, held, verifier, faults, rebuilt>>

\* What becomes of it at a target: it holds the checkpoint and says so, it refuses,
\* or it holds it and its answer is lost or not the one asked for.
Answers == {"held", "refused", "unheard"}

\* What was sent counts as published.
RecordSent(cp, t, answer) == [seq |-> cp.seq, hash |-> cp.hash, target |-> t, ok |-> TRUE]
Record(cp, t, answer) == [seq |-> cp.seq, hash |-> cp.hash, target |-> t, ok |-> answer = "held"]

\* The next target in turn; a failure is a record too, and does not stop the others.
Publish(p) ==
    /\ job[p].pc = "publish" /\ Len(job[p].records) < Len(Targets)
    /\ LET t == Targets[Len(job[p].records) + 1]
           cp == job[p].cp
       IN \E answer \in Answers :
            /\ IF answer = "held" THEN UNCHANGED faults ELSE Fault
            /\ held' = IF answer = "refused" THEN held ELSE [held EXCEPT ![t] = @ \cup {cp}]
            /\ job' = [job EXCEPT ![p].records = Append(@, Record(cp, t, answer))]
    /\ UNCHANGED <<chain, checkpoints, anchors, verifier, rebuilt>>

\* RecordAnchors: one INSERT after another, the first that fails ends it.
RecordAnchors(p) ==
    /\ job[p].pc = "publish" /\ Len(job[p].records) = Len(Targets)
    /\ \E n \in 0..Len(Targets) :
        /\ IF n = Len(Targets) THEN UNCHANGED faults ELSE Fault
        /\ anchors' = anchors \o SubSeq(job[p].records, 1, n)
    /\ job' = [job EXCEPT ![p] = Idle]
    /\ UNCHANGED <<chain, checkpoints, held, verifier, rebuilt>>

Restart ==
    /\ Fault
    /\ job' = [p \in Publishers |-> Idle] /\ verifier' = NoVerifier
    /\ UNCHANGED <<chain, checkpoints, anchors, held, rebuilt>>

-----------------------------------------------------------------------------
(* The comparison: two reads, with no transaction around them.             *)

Before(i, j) == anchors[i].seq > anchors[j].seq \/ (anchors[i].seq = anchors[j].seq /\ i > j)
\* ListAnchors: the highest sequence numbers first, and the latest of those.
Listed ==
    {i \in DOMAIN anchors : Cardinality({j \in DOMAIN anchors : Before(j, i)}) < Limit}

ListAnchors ==
    /\ verifier.pc = "idle"
    /\ verifier' = [pc |-> "listed", rows |-> {anchors[i] : i \in Listed}, all |-> ToSet(anchors),
                    verdict |-> "none"]
    /\ UNCHANGED <<chain, checkpoints, anchors, held, job, faults, rebuilt>>

\* VerifyAgainst: a published anchor against the chain, which may end before it.
Matches(a) == a.seq \in DOMAIN chain /\ chain[a.seq] = a.hash

Summarise(rows) ==
    IF rows = {} THEN "none"
    ELSE IF \E a \in rows : a.ok /\ ~Matches(a) THEN "rebuilt"
    ELSE IF \A a \in rows : ~a.ok THEN "all failed"
    ELSE IF \E a \in rows : ~a.ok THEN "gaps"
    ELSE "all match"

\* ChainHashesAt and what follows from it.
Compare ==
    /\ verifier.pc = "listed"
    /\ verifier' = [NoVerifier EXCEPT !.verdict = Summarise(verifier.rows)]
    /\ UNCHANGED <<chain, checkpoints, anchors, held, job, faults, rebuilt>>

-----------------------------------------------------------------------------
Anchor(p) == Latest(p) \/ Publish(p) \/ RecordAnchors(p)
Next ==
    \/ AppendEntry \/ Sign
    \/ \E k \in DOMAIN chain : Rebuild(k)
    \/ \E p \in Publishers : AnchorNow(p) \/ Anchor(p)
    \/ Restart \/ ListAnchors \/ Compare

\* The timer ticks and what it began goes on, as does a request.
Fairness == WF_vars(Sign) /\ \A p \in Publishers : WF_vars(Anchor(p))
Spec == Init /\ [][Next]_vars /\ Fairness

\* What is asked of the constants: the targets are listed in a sequence.
WellFormed == Targets \in Seq(TargetSet)

-----------------------------------------------------------------------------
\* A row that says published is of a checkpoint its target holds, a failed one may
\* be (an answer that was lost); nothing a target holds was never on the chain, and
\* no comparison raises the alarm over a chain that only grew.  (Publish, before
\* RecordAnchors; ListAnchors, before ChainHashesAt)
AnchorsAreReal ==
    /\ \A i \in DOMAIN anchors :
        anchors[i].ok => [seq |-> anchors[i].seq, hash |-> anchors[i].hash] \in held[anchors[i].target]
    /\ \A t \in TargetSet : held[t] \subseteq checkpoints
    /\ rebuilt = 0 => \A t \in TargetSet : \A c \in held[t] : Matches(c)
    /\ verifier.verdict = "rebuilt" => rebuilt # 0

\* "The scheduler anchors what is missing" (LatestUnanchoredCheckpoint): whatever
\* failed on the way, every checkpoint is anchored somewhere in the end, those a
\* newer one was preferred to included.
AllAnchored == \A c \in checkpoints : Anchored(c.seq)
EveryCheckpointAnchored == <>[]AllAnchored

\* "VerifyAnchors compares every stored anchor against the chain as it stands"
\* (storepg/anchors.go:91): it compares the newest rows.
EveryAnchorCompared ==
    [][verifier.pc = "listed" /\ verifier'.verdict = "all match"
        => \A a \in verifier.all : a.ok => Matches(a)]_vars
=============================================================================
