----------------------- MODULE CommandDeliveryProofs -----------------------
(***************************************************************************)
(* Proofs that the command log of CommandDelivery tells the truth about    *)
(* what went out and what was carried out, for any number of commands and  *)
(* streams, any channel and cache size and any life of an envelope.        *)
(***************************************************************************)
EXTENDS CommandDelivery, FiniteSetTheorems, SequenceTheorems, TLAPS

(***************************************************************************)
(* The inductive invariant.                                                *)
(***************************************************************************)

\* A command has a record from the moment it is signed, and no flush knows one that is not.
SignedInv ==
    /\ \A c \in Cmds : issuer[c] = "idle" <=> log[c] = NoRecord
    /\ \A c \in Cmds : issuer[c] = "idle" => pushed[c] = << >>
    /\ \A s \in Streams : \A c \in flush[s].todo : issuer[c] # "idle"

\* Only a flush under way is anywhere but idle.
FlushInv == \A s \in Streams : flush[s].pc # "idle" => conn[s] = "flushing"

\* The envelopes that were put on a channel.
OutThere == {env \in Envelopes : env.at \in WentOut(env.cmd)}

\* Whatever is on its way, or is about to be recorded, was pushed.
OutInv ==
    /\ \A s \in Streams : chan[s] \in Seq(OutThere) /\ wire[s] \in Seq(OutThere)
    /\ \A s \in Streams :
         flush[s].pc \in {"pushed", "logged"} => Env(flush[s].cmd, flush[s].at) \in OutThere
    /\ \A c \in Cmds : issuer[c] = "pushed" => Env(c, issued[c]) \in OutThere

\* The answers that tell the truth on a stream.
TrueAcks(s) == {a \in Acks : pushed[a.cmd] # << >> /\ (a.accepted => ran[s][a.cmd] > 0)}

\* Only what was pushed is acknowledged, and only what was run is accepted.
AckInv == \A s \in Streams : acks[s] \in Seq(TrueAcks(s))

\* A record that is no longer queued is of a command that was pushed, one that is queued of
\* one that was not, but for the window and for a failed write; its proof is the one signed
\* first or one pushed.
LogInv ==
    \A c \in Cmds : log[c] # NoRecord =>
        /\ log[c].status # "queued" => pushed[c] # << >>
        /\ log[c].status = "queued" /\ pushed[c] # << >> => Unnoted(c)
        /\ log[c].proof = issued[c] \/ log[c].proof \in WentOut(c)
        /\ log[c].status # "queued" /\ ~Unnoted(c) => log[c].proof \in WentOut(c)

\* What ran on a stream is in its replay cache, unless there are more commands than it holds.
ReplayInv ==
    IsFiniteSet(Cmds) /\ Cardinality(Cmds) <= ReplayCap =>
        \A s \in Streams, c \in Cmds :
            /\ ran[s][c] <= 1
            /\ ran[s][c] > 0 => c \in replay[s] /\ link[s] # "none"

IInv == TypeOK /\ SignedInv /\ FlushInv /\ OutInv /\ AckInv /\ LogInv /\ ReplayInv /\ AcceptedMeansRun

-----------------------------------------------------------------------------
(***************************************************************************)
(* Types.                                                                  *)
(***************************************************************************)

\* What a flush is, by where it is, and what its next steps leave.
LEMMA FlushKinds ==
    /\ \A f \in Flushes :
         /\ f.todo \subseteq Cmds
         /\ f.pc \in {"idle", "next"} <=> f \in [pc: {"idle", "next"}, todo: SUBSET Cmds]
         /\ f.pc \in {"pushed", "logged"}
              <=> f \in [pc: {"pushed", "logged"}, todo: SUBSET Cmds, cmd: Cmds, at: 0..MaxNow]
         /\ f.pc \in {"idle", "next", "pushed", "logged"}
    /\ \A f \in [pc: {"idle", "next"}, todo: SUBSET Cmds] :
         /\ [f EXCEPT !.pc = "idle"] \in Flushes
         /\ \A c \in Cmds : [f EXCEPT !.todo = f.todo \ {c}] \in Flushes
    /\ \A f \in [pc: {"pushed", "logged"}, todo: SUBSET Cmds, cmd: Cmds, at: 0..MaxNow] :
         [f EXCEPT !.pc = "logged"] \in Flushes
    /\ \A todo \in SUBSET Cmds : [pc |-> "next", todo |-> todo] \in Flushes
    /\ \A todo \in SUBSET Cmds, c \in Cmds, t \in 0..MaxNow :
         [pc |-> "pushed", todo |-> todo, cmd |-> c, at |-> t] \in Flushes
    BY DEF Flushes

\* The same of a receive goroutine.
LEMMA HandlerKinds ==
    /\ \A h \in Handlers :
         /\ h.pc \in {"row", "proof"} => h.ack \in Acks /\ [h EXCEPT !.pc = "proof"] \in Handlers
         /\ h.pc \in {"idle", "row", "proof"}
    /\ \A a \in Acks : [pc |-> "row", ack |-> a] \in Handlers
    /\ Idle \in Handlers
    BY DEF Handlers, Idle

\* A push puts an envelope where one fits, and notes the second it was signed in.
LEMMA PushTyped ==
    ASSUME TypeOK, NEW env \in Envelopes, Push(env)
    PROVE  /\ hub \in Streams
           /\ chan' \in [Streams -> Seq(Envelopes)]
           /\ \A s \in Streams : Len(chan'[s]) <= ChanCap
           /\ pushed' \in [Cmds -> Seq(0..MaxNow)]
    <1>1. hub \in Streams /\ Len(chan[hub]) < ChanCap
        BY DEF Push, CanSend, TypeOK
    <1>2. chan[hub] \in Seq(Envelopes) /\ pushed[env.cmd] \in Seq(0..MaxNow)
          /\ env.cmd \in Cmds /\ env.at \in 0..MaxNow
        BY <1>1 DEF TypeOK, Envelopes
    <1>3. /\ Append(chan[hub], env) \in Seq(Envelopes)
          /\ Len(Append(chan[hub], env)) = Len(chan[hub]) + 1
          /\ Append(pushed[env.cmd], env.at) \in Seq(0..MaxNow)
        BY <1>2, AppendProperties
    <1>4. Len(Append(chan[hub], env)) <= ChanCap
        BY <1>1, <1>2, <1>3, LenProperties, NumbersAssumption
    <1>5. QED
        BY <1>1, <1>2, <1>3, <1>4 DEF Push, TypeOK

\* What a write changes in a record that is there leaves a record.
LEMMA RecordFields ==
    ASSUME NEW r \in Records
    PROVE  /\ [r EXCEPT !.status = "sent", !.msg = "pushed"] \in Records
           /\ [r EXCEPT !.status = "sent", !.accepted = FALSE, !.msg = "pushed"] \in Records
           /\ \A t \in 0..MaxNow : /\ [r EXCEPT !.status = "sent", !.msg = "flushed", !.proof = t] \in Records
                                   /\ [r EXCEPT !.proof = t] \in Records
           /\ \A a \in Acks :
                /\ [r EXCEPT !.status = "acked", !.accepted = a.accepted, !.msg = a.msg, !.ack = a] \in Records
                /\ [r EXCEPT !.status = "acked", !.accepted = a.accepted, !.msg = a.msg] \in Records
                /\ [r EXCEPT !.ack = a] \in Records
    BY DEF Records, Acks

\* A record is there exactly when its status says so.
LEMMA RecordOrNone ==
    ASSUME TypeOK, NEW c \in Cmds
    PROVE  /\ log[c] # NoRecord <=> log[c] \in Records
           /\ log[c].status = "none" <=> log[c] = NoRecord
           /\ rows[c].status = "none" <=> rows[c] = NoRecord
           /\ rows[c] # NoRecord <=> rows[c] \in Records
    <1>1. log[c] \in {NoRecord} \cup Records /\ rows[c] \in {NoRecord} \cup Records
        BY DEF TypeOK
    <1>2. \A r \in Records : r.status # "none"
        BY DEF Records
    <1>3. NoRecord.status = "none"
        BY DEF NoRecord
    <1>4. QED
        BY <1>1, <1>2, <1>3

\* A write to the log or to the rows of a well-formed record keeps them well-formed.
LEMMA UpdateTyped ==
    ASSUME TypeOK, NEW c \in Cmds, NEW what \in {"push", "ack"}, NEW STATE rec
    PROVE  /\ UpdateLog(c, what, rec) /\ (log[c] # NoRecord => rec \in Records)
                => /\ log' \in [Cmds -> {NoRecord} \cup Records]
                   /\ missed' \subseteq Cmds \X {"push", "ack"}
           /\ UpdateRow(c, rec) /\ (rows[c] # NoRecord => rec \in Records)
                => rows' \in [Cmds -> {NoRecord} \cup Records]
    <1>1. /\ log \in [Cmds -> {NoRecord} \cup Records]
          /\ rows \in [Cmds -> {NoRecord} \cup Records]
          /\ missed \subseteq Cmds \X {"push", "ack"}
        BY DEF TypeOK
    <1>2. UpdateLog(c, what, rec) =>
             /\ log' = log \/ (log[c] # NoRecord /\ log' = [log EXCEPT ![c] = rec])
             /\ missed' = missed \ {<<c, what>>} \/ missed' = missed \cup {<<c, what>>}
        BY RecordOrNone DEF UpdateLog
    <1>3. UpdateRow(c, rec) => rows' = rows \/ (rows[c] # NoRecord /\ rows' = [rows EXCEPT ![c] = rec])
        BY RecordOrNone DEF UpdateRow
    <1>4. QED
        BY <1>1, <1>2, <1>3


\* The envelope the agent reads next, and an answer to it.
Heard(s) == Head(wire[s])
Answered(s, accepted, msg) == acks' = [acks EXCEPT ![s] = Append(@, Ack(Heard(s).cmd, accepted, msg))]

\* The agent accepts only what it carries out, and that only if it is not in its cache.
LEMMA ReceiveCases ==
    ASSUME TypeOK, NEW s \in Streams, AgentReceive(s)
    PROVE  /\ wire[s] \in Seq(Envelopes) /\ wire[s] # << >> /\ Heard(s) \in Envelopes
           /\ link[s] = "up"
           /\ Tail(wire[s]) \in Seq(Envelopes)
           /\ wire' = [wire EXCEPT ![s] = Tail(wire[s])]
           /\ \/ /\ \E msg \in {"expired", "replayed"} : Answered(s, FALSE, msg)
                 /\ replay' = replay /\ ran' = ran
              \/ /\ Answered(s, TRUE, "result") /\ Heard(s).cmd \notin replay[s]
                 /\ Remember(s, Heard(s).cmd)
                 /\ ran' = [ran EXCEPT ![s][Heard(s).cmd] = @ + 1]
              \/ /\ Answered(s, FALSE, "failed") /\ Heard(s).cmd \notin replay[s]
                 /\ Remember(s, Heard(s).cmd) /\ ran' = ran
    <1>1. wire[s] \in Seq(Envelopes) /\ wire[s] # << >>
        BY DEF AgentReceive, TypeOK
    <1>2. Heard(s) \in Envelopes /\ Tail(wire[s]) \in Seq(Envelopes)
        BY <1>1, HeadTailProperties DEF Heard
    <1>3. QED
        BY <1>1, <1>2, Zenon DEF AgentReceive, Heard, Answered, agentVars

\* One more execution.
LEMMA RanTyped ==
    ASSUME TypeOK, NEW s \in Streams, NEW c \in Cmds, ran' = [ran EXCEPT ![s][c] = @ + 1]
    PROVE  /\ ran' \in [Streams -> [Cmds -> Nat]]
           /\ ran'[s][c] = ran[s][c] + 1
           /\ \A o \in Streams, d \in Cmds : o # s \/ d # c => ran'[o][d] = ran[o][d]
    <1>1. ran[s] \in [Cmds -> Nat] /\ ran[s][c] + 1 \in Nat
        BY DEF TypeOK
    <1> DEFINE row == [ran[s] EXCEPT ![c] = ran[s][c] + 1]
    <1>2. row \in [Cmds -> Nat] /\ row[c] = ran[s][c] + 1 /\ \A d \in Cmds \ {c} : row[d] = ran[s][d]
        BY <1>1
    <1>3. ran' = [ran EXCEPT ![s] = row]
        OBVIOUS
    <1> HIDE DEF row
    <1>4. QED
        BY <1>2, <1>3 DEF TypeOK

\* Whatever the cache forgets, it knows the newest id; it forgets only when it overflows.
LEMMA RememberTyped ==
    ASSUME TypeOK, NEW s \in Streams, NEW c \in Cmds, Remember(s, c)
    PROVE  /\ replay' \in [Streams -> SUBSET Cmds]
           /\ c \in replay'[s]
           /\ ~(Cardinality(replay[s] \cup {c}) > ReplayCap) => replay'[s] = replay[s] \cup {c}
           /\ \A o \in Streams \ {s} : replay'[o] = replay[o]
    <1> DEFINE K == IF Cardinality(replay[s] \cup {c}) > ReplayCap THEN {c} ELSE replay[s] \cup {c}
    <1>1. replay' = [replay EXCEPT ![s] = K]
        BY DEF Remember
    <1>2. K \in SUBSET Cmds /\ c \in K
        BY DEF TypeOK
    <1>3. ~(Cardinality(replay[s] \cup {c}) > ReplayCap) => K = replay[s] \cup {c}
        OBVIOUS
    <1> HIDE DEF K
    <1>4. QED
        BY <1>1, <1>2, <1>3 DEF TypeOK

\* Every step keeps the types.
LEMMA StepTyped ==
    ASSUME TypeOK, Next
    PROVE  TypeOK'
    <1> USE DEF serverVars, agentVars, netVars, devVars
    <1>1. ASSUME NEW c \in Cmds, IssueAppend(c) PROVE TypeOK'
        <2>1. [status |-> "queued", accepted |-> FALSE, msg |-> "waiting", proof |-> now, ack |-> NoAck] \in Records
            BY DEF TypeOK, Records
        <2>2. log' \in [Cmds -> {NoRecord} \cup Records]
            BY <1>1, <2>1 DEF IssueAppend, TypeOK
        <2>3. QED
            BY <1>1, <2>2 DEF IssueAppend, TypeOK
    <1>2. ASSUME NEW c \in Cmds, IssueSync(c) PROVE TypeOK'
        <2>1. [status |-> "queued", accepted |-> FALSE, msg |-> "waiting", proof |-> issued[c], ack |-> NoAck] \in Records
            BY DEF TypeOK, Records
        <2>2. rows' \in [Cmds -> {NoRecord} \cup Records]
            BY <1>2, <2>1 DEF IssueSync, TypeOK
        <2>3. QED
            BY <1>2, <2>2 DEF IssueSync, TypeOK
    <1>3. ASSUME NEW c \in Cmds, IssuePush(c) PROVE TypeOK'
        <2>1. Env(c, issued[c]) \in Envelopes
            BY DEF Env, Envelopes, TypeOK
        <2>2. /\ chan' \in [Streams -> Seq(Envelopes)]
              /\ \A s \in Streams : Len(chan'[s]) <= ChanCap
              /\ pushed' \in [Cmds -> Seq(0..MaxNow)]
            BY <1>3, <2>1, PushTyped DEF IssuePush, NotPushed, TypeOK
        <2>3. issuer' \in [Cmds -> {"idle", "appended", "synced", "pushed", "logged", "done"}]
            <3>1. issuer' = [issuer EXCEPT ![c] = "pushed"] \/ issuer' = [issuer EXCEPT ![c] = "done"]
                BY <1>3, Zenon DEF IssuePush
            <3>2. QED
                BY <3>1 DEF TypeOK
        <2>4. QED
            BY <1>3, <2>2, <2>3 DEF IssuePush, TypeOK
    <1>4. ASSUME NEW c \in Cmds, IssueUpdateLog(c) PROVE TypeOK'
        <2>1. log' \in [Cmds -> {NoRecord} \cup Records] /\ missed' \subseteq Cmds \X {"push", "ack"}
            BY <1>4, RecordOrNone, RecordFields, UpdateTyped DEF IssueUpdateLog
        <2>2. QED
            BY <1>4, <2>1 DEF IssueUpdateLog, TypeOK
    <1>5. ASSUME NEW c \in Cmds, IssueUpdateRow(c) PROVE TypeOK'
        <2>1. rows' \in [Cmds -> {NoRecord} \cup Records]
            BY <1>5, RecordOrNone, RecordFields, UpdateTyped DEF IssueUpdateRow
        <2>2. QED
            BY <1>5, <2>1 DEF IssueUpdateRow, TypeOK
    <1>6. ASSUME NEW s \in Streams,
                 Admit(s) \/ Register(s) \/ ServeEnd(s) \/ Unregister(s) \/ Disconnected(s)
          PROVE TypeOK'
        BY <1>6 DEF Admit, Register, ServeEnd, Unregister, Disconnected, TypeOK
    <1>7. ASSUME NEW s \in Streams, FlushStart(s) \/ FlushEnd(s) PROVE TypeOK'
        <2>1. flush[s] \in Flushes
            BY DEF TypeOK
        <2>2. \A todo \in {Pending, {}} : [pc |-> "next", todo |-> todo] \in Flushes
            BY FlushKinds DEF Pending
        <2>3. FlushEnd(s) => [flush[s] EXCEPT !.pc = "idle"] \in Flushes
            BY <2>1, FlushKinds DEF FlushEnd
        <2>4. \E f \in Flushes : flush' = [flush EXCEPT ![s] = f]
            BY <1>7, <2>2, <2>3, Zenon DEF FlushStart, FlushEnd
        <2>5. flush' \in [Streams -> Flushes]
            BY <2>4 DEF TypeOK
        <2>6. QED
            BY <1>7, <2>5 DEF FlushStart, FlushEnd, TypeOK
    <1>8. ASSUME NEW s \in Streams, NEW c \in Cmds, FlushPush(s, c) PROVE TypeOK'
        <2>1. Env(c, now) \in Envelopes
            BY DEF Env, Envelopes, TypeOK
        <2>2. /\ chan' \in [Streams -> Seq(Envelopes)]
              /\ \A o \in Streams : Len(chan'[o]) <= ChanCap
              /\ pushed' \in [Cmds -> Seq(0..MaxNow)]
            BY <1>8, <2>1, PushTyped DEF FlushPush, NotPushed, TypeOK
        <2>3. flush[s] \in Flushes /\ flush[s].pc = "next" /\ now \in 0..MaxNow
            BY <1>8 DEF FlushPush, TypeOK
        <2>4. /\ [pc |-> "pushed", todo |-> flush[s].todo \ {c}, cmd |-> c, at |-> now] \in Flushes
              /\ [flush[s] EXCEPT !.todo = flush[s].todo \ {c}] \in Flushes
            BY <2>3, FlushKinds
        <2>5. \/ flush' = [flush EXCEPT ![s] = [pc |-> "pushed", todo |-> flush[s].todo \ {c}, cmd |-> c, at |-> now]]
              \/ flush' = [flush EXCEPT ![s] = [flush[s] EXCEPT !.todo = flush[s].todo \ {c}]]
            BY <1>8 DEF FlushPush
        <2>6. flush' \in [Streams -> Flushes]
            BY <2>4, <2>5 DEF TypeOK
        <2>7. QED
            BY <1>8, <2>2, <2>6 DEF FlushPush, TypeOK
    <1>9. ASSUME NEW s \in Streams, FlushUpdateLog(s) PROVE TypeOK'
        <2>1. flush[s] \in Flushes /\ flush[s].pc = "pushed"
            BY <1>9 DEF FlushUpdateLog, TypeOK
        <2>2. flush[s].cmd \in Cmds /\ flush[s].at \in 0..MaxNow /\ [flush[s] EXCEPT !.pc = "logged"] \in Flushes
            BY <2>1, FlushKinds
        <2>3. log' \in [Cmds -> {NoRecord} \cup Records] /\ missed' \subseteq Cmds \X {"push", "ack"}
            BY <1>9, <2>2, RecordOrNone, RecordFields, UpdateTyped DEF FlushUpdateLog
        <2>4. flush' \in [Streams -> Flushes]
            BY <1>9, <2>2 DEF FlushUpdateLog, TypeOK
        <2>5. QED
            BY <1>9, <2>3, <2>4 DEF FlushUpdateLog, TypeOK
    <1>10. ASSUME NEW s \in Streams, FlushUpdateRow(s) PROVE TypeOK'
        <2>1. flush[s] \in Flushes /\ flush[s].pc = "logged"
            BY <1>10 DEF FlushUpdateRow, TypeOK
        <2>2. /\ flush[s].cmd \in Cmds /\ flush[s].at \in 0..MaxNow
              /\ [pc |-> "next", todo |-> flush[s].todo] \in Flushes
            BY <2>1, FlushKinds
        <2>3. rows' \in [Cmds -> {NoRecord} \cup Records]
            BY <1>10, <2>2, RecordOrNone, RecordFields, UpdateTyped DEF FlushUpdateRow
        <2>4. QED
            BY <1>10, <2>2, <2>3 DEF FlushUpdateRow, TypeOK
    <1>11. ASSUME NEW s \in Streams, ServeSend(s) PROVE TypeOK'
        <2>1. chan[s] \in Seq(Envelopes) /\ wire[s] \in Seq(Envelopes) /\ chan[s] # << >>
            BY <1>11 DEF ServeSend, TypeOK
        <2>2. /\ Tail(chan[s]) \in Seq(Envelopes) /\ Len(Tail(chan[s])) = Len(chan[s]) - 1
              /\ Append(wire[s], Head(chan[s])) \in Seq(Envelopes)
            BY <2>1, HeadTailProperties, AppendProperties
        <2>3. Len(Tail(chan[s])) <= ChanCap
            BY <2>1, <2>2, LenProperties, NumbersAssumption DEF TypeOK
        <2>4. QED
            BY <1>11, <2>2, <2>3 DEF ServeSend, TypeOK
    <1>12. ASSUME NEW s \in Streams, NoteAckLog(s) PROVE TypeOK'
        <2>1. acks[s] \in Seq(Acks) /\ acks[s] # << >>
            BY <1>12 DEF NoteAckLog, TypeOK
        <2>2. Head(acks[s]) \in Acks /\ Tail(acks[s]) \in Seq(Acks)
            BY <2>1, HeadTailProperties
        <2>3. Head(acks[s]).cmd \in Cmds
            BY <2>2 DEF Acks
        <2>4. log' \in [Cmds -> {NoRecord} \cup Records] /\ missed' \subseteq Cmds \X {"push", "ack"}
            BY <1>12, <2>2, <2>3, RecordOrNone, RecordFields, UpdateTyped DEF NoteAckLog
        <2>5. QED
            BY <1>12, <2>2, <2>4, HandlerKinds DEF NoteAckLog, TypeOK
    <1>13. ASSUME NEW s \in Streams, NoteAckRow(s) \/ NoteAckProof(s) PROVE TypeOK'
        <2>1. handler[s] \in Handlers /\ handler[s].pc \in {"row", "proof"}
            BY <1>13 DEF NoteAckRow, NoteAckProof, TypeOK
        <2>2. handler[s].ack \in Acks /\ [handler[s] EXCEPT !.pc = "proof"] \in Handlers /\ Idle \in Handlers
            BY <2>1, HandlerKinds
        <2>3. handler[s].ack.cmd \in Cmds
            BY <2>2 DEF Acks
        <2>4. rows' \in [Cmds -> {NoRecord} \cup Records]
            BY <1>13, <2>2, <2>3, RecordOrNone, RecordFields, UpdateTyped DEF NoteAckRow, NoteAckProof
        <2>5. handler' \in [Streams -> Handlers]
            BY <1>13, <2>2 DEF NoteAckRow, NoteAckProof, TypeOK
        <2>6. QED
            BY <1>13, <2>4, <2>5 DEF NoteAckRow, NoteAckProof, TypeOK
    <1>14. ASSUME NEW s \in Streams, AgentDial(s) \/ Break(s) PROVE TypeOK'
        <2>1. << >> \in Seq(Envelopes) /\ << >> \in Seq(Acks)
            BY EmptySeq
        <2>2. CASE AgentDial(s)
            BY <2>2 DEF AgentDial, TypeOK
        <2>3. CASE Break(s)
            BY <2>1, <2>3 DEF Break, TypeOK
        <2>4. QED
            BY <1>14, <2>2, <2>3
    <1>15. ASSUME NEW s \in Streams, AgentReceive(s) PROVE TypeOK'
        <2> DEFINE c == Heard(s).cmd
        <2>1. /\ c \in Cmds /\ Tail(wire[s]) \in Seq(Envelopes) /\ wire' = [wire EXCEPT ![s] = Tail(wire[s])]
              /\ \E accepted \in BOOLEAN, msg \in {"result", "failed", "expired", "replayed"} :
                     Answered(s, accepted, msg)
              /\ replay' = replay \/ Remember(s, c)
              /\ ran' = ran \/ ran' = [ran EXCEPT ![s][c] = @ + 1]
            BY <1>15, ReceiveCases DEF Envelopes
        <2> HIDE DEF c
        <2>2. acks[s] \in Seq(Acks)
            BY DEF TypeOK
        <2>3. \A accepted \in BOOLEAN, msg \in {"result", "failed", "expired", "replayed"} :
                 Append(acks[s], Ack(c, accepted, msg)) \in Seq(Acks)
            BY <2>1, <2>2, AppendProperties DEF Ack, Acks
        <2>4. acks' \in [Streams -> Seq(Acks)]
            BY <2>1, <2>3 DEF Answered, TypeOK, c
        <2>5. replay' \in [Streams -> SUBSET Cmds]
            BY <2>1, RememberTyped DEF TypeOK
        <2>6. ran' \in [Streams -> [Cmds -> Nat]]
            <3>1. CASE ran' = ran
                BY <3>1 DEF TypeOK
            <3>2. CASE ran' = [ran EXCEPT ![s][c] = @ + 1]
                BY <2>1, <3>2, RanTyped
            <3>3. QED
                BY <2>1, <3>1, <3>2
        <2>7. wire' \in [Streams -> Seq(Envelopes)]
            BY <2>1 DEF TypeOK
        <2>8. QED
            BY <1>15, <2>4, <2>5, <2>6, <2>7 DEF AgentReceive, TypeOK
    <1>16. ASSUME Heartbeat \/ HandleRevoke \/ Tick PROVE TypeOK'
        <2>1. now' \in 0..MaxNow
            BY <1>16, NumbersAssumption DEF Heartbeat, HandleRevoke, Tick, TypeOK
        <2>2. connected' \in BOOLEAN /\ revoked' \in BOOLEAN
            BY <1>16 DEF Heartbeat, HandleRevoke, Tick, TypeOK
        <2>3. QED
            BY <1>16, <2>1, <2>2 DEF Heartbeat, HandleRevoke, Tick, TypeOK
    <1>17. QED
        BY <1>1, <1>2, <1>3, <1>4, <1>5, <1>6, <1>7, <1>8, <1>9, <1>10, <1>11, <1>12, <1>13, <1>14,
           <1>15, <1>16 DEF Next

-----------------------------------------------------------------------------
(***************************************************************************)
(* Who writes what.                                                        *)
(***************************************************************************)

Pushing == (\E c \in Cmds : IssuePush(c)) \/ (\E s \in Streams, c \in Cmds : FlushPush(s, c))
Receiving == \E s \in Streams : AgentReceive(s)
Issuing == \E c \in Cmds : IssueAppend(c) \/ IssueSync(c) \/ IssuePush(c) \/ IssueUpdateLog(c) \/ IssueUpdateRow(c)
Flushing ==
    \/ \E s \in Streams : FlushStart(s) \/ FlushUpdateLog(s) \/ FlushUpdateRow(s) \/ FlushEnd(s)
    \/ \E s \in Streams, c \in Cmds : FlushPush(s, c)

\* Each variable is left alone by every step but those of its writers.
LEMMA Writers ==
    ASSUME Next
    PROVE  /\ chan' = chan \/ Pushing \/ \E s \in Streams : ServeSend(s)
           /\ pushed' = pushed \/ Pushing
           /\ wire' = wire \/ Receiving \/ \E s \in Streams : ServeSend(s) \/ Break(s)
           /\ acks' = acks \/ Receiving \/ \E s \in Streams : NoteAckLog(s) \/ Break(s)
           /\ ran' = ran \/ Receiving
           /\ replay' = replay \/ Receiving \/ \E s \in Streams : AgentDial(s)
           /\ link' = link \/ \E s \in Streams : AgentDial(s) \/ Break(s) \/ Admit(s)
           /\ flush' = flush \/ Flushing
           /\ issuer' = issuer \/ Issuing
           /\ issued' = issued \/ \E c \in Cmds : IssueAppend(c)
           /\ (log' = log /\ missed' = missed)
                         \/ (\E c \in Cmds : IssueAppend(c) \/ IssueUpdateLog(c))
                         \/ (\E s \in Streams : FlushUpdateLog(s) \/ NoteAckLog(s))
    <1> USE DEF serverVars, agentVars, netVars, devVars
    <1>1. CASE Issuing
        BY <1>1 DEF Issuing, Pushing, IssueAppend, IssueSync, IssuePush, IssueUpdateLog, IssueUpdateRow
    <1>2. CASE Flushing
        BY <1>2 DEF Flushing, Pushing, FlushStart, FlushPush, FlushUpdateLog, FlushUpdateRow, FlushEnd
    <1>3. CASE \E s \in Streams : Admit(s) \/ Register(s) \/ ServeSend(s) \/ ServeEnd(s) \/ Unregister(s) \/ Disconnected(s)
        BY <1>3 DEF Admit, Register, ServeSend, ServeEnd, Unregister, Disconnected
    <1>4. CASE \E s \in Streams : NoteAckLog(s) \/ NoteAckRow(s) \/ NoteAckProof(s)
        BY <1>4 DEF NoteAckLog, NoteAckRow, NoteAckProof
    <1>5. CASE \E s \in Streams : AgentDial(s) \/ Break(s)
        BY <1>5 DEF AgentDial, Break
    <1>6. CASE Receiving
        BY <1>6 DEF Receiving, AgentReceive
    <1>7. CASE Heartbeat \/ HandleRevoke \/ Tick
        BY <1>7 DEF Heartbeat, HandleRevoke, Tick
    <1>8. QED
        BY <1>1, <1>2, <1>3, <1>4, <1>5, <1>6, <1>7 DEF Next, Issuing, Flushing, Receiving

-----------------------------------------------------------------------------
(***************************************************************************)
(* What is pushed stays pushed.                                            *)
(***************************************************************************)

\* Connect alone moves a stream on.
LEMMA ConnWriters ==
    ASSUME Next
    PROVE  conn' = conn \/ \E s \in Streams :
              FlushEnd(s) \/ Admit(s) \/ Register(s) \/ FlushStart(s) \/ ServeEnd(s) \/ Unregister(s) \/ Disconnected(s)
    <1> USE DEF serverVars, agentVars, netVars, devVars
    <1>1. CASE Issuing
        BY <1>1 DEF Issuing, IssueAppend, IssueSync, IssuePush, IssueUpdateLog, IssueUpdateRow
    <1>2. CASE Flushing
        BY <1>2 DEF Flushing, FlushPush, FlushUpdateLog, FlushUpdateRow
    <1>3. CASE \E s \in Streams : ServeSend(s) \/ NoteAckLog(s) \/ NoteAckRow(s) \/ NoteAckProof(s)
        BY <1>3 DEF ServeSend, NoteAckLog, NoteAckRow, NoteAckProof
    <1>4. CASE Receiving \/ (\E s \in Streams : AgentDial(s) \/ Break(s)) \/ Heartbeat \/ HandleRevoke \/ Tick
        BY <1>4 DEF Receiving, AgentReceive, AgentDial, Break, Heartbeat, HandleRevoke, Tick
    <1>5. QED
        BY <1>1, <1>2, <1>3, <1>4 DEF Next, Issuing, Flushing, Receiving

\* A push adds one envelope to the registered channel and to what went out.
LEMMA PushGrows ==
    ASSUME TypeOK, NEW c \in Cmds, NEW t \in 0..MaxNow, Push(Env(c, t))
    PROVE  /\ pushed'[c] # << >>
           /\ \A d \in Cmds \ {c} : pushed'[d] = pushed[d]
           /\ \A d \in Cmds : WentOut(d) \subseteq WentOut(d)'
           /\ t \in WentOut(c)'
           /\ \A s \in Streams : \A i \in 1..Len(chan'[s]) :
                 \/ i \in 1..Len(chan[s]) /\ chan'[s][i] = chan[s][i]
                 \/ chan'[s][i] = Env(c, t)
    <1>1. Env(c, t) \in Envelopes /\ Env(c, t).cmd = c /\ Env(c, t).at = t
        BY DEF Env, Envelopes
    <1>2. hub \in Streams
        BY DEF Push, CanSend, TypeOK
    <1>3. chan[hub] \in Seq(Envelopes) /\ pushed[c] \in Seq(0..MaxNow)
        BY <1>2 DEF TypeOK
    <1>4. pushed' = [pushed EXCEPT ![c] = Append(pushed[c], t)] /\ chan' = [chan EXCEPT ![hub] = Append(chan[hub], Env(c, t))]
        BY <1>1 DEF Push
    <1>5. /\ Append(pushed[c], t) # << >>
          /\ Len(Append(pushed[c], t)) = Len(pushed[c]) + 1
          /\ \A i \in 1..Len(pushed[c]) : Append(pushed[c], t)[i] = pushed[c][i]
          /\ Append(pushed[c], t)[Len(pushed[c]) + 1] = t
          /\ Len(pushed[c]) \in Nat
        BY <1>3, AppendProperties, LenProperties
    <1>6. /\ Len(Append(chan[hub], Env(c, t))) = Len(chan[hub]) + 1
          /\ \A i \in 1..Len(chan[hub]) : Append(chan[hub], Env(c, t))[i] = chan[hub][i]
          /\ Append(chan[hub], Env(c, t))[Len(chan[hub]) + 1] = Env(c, t)
          /\ Len(chan[hub]) \in Nat
        BY <1>1, <1>3, AppendProperties, LenProperties
    <1>7. pushed'[c] = Append(pushed[c], t) /\ \A d \in Cmds \ {c} : pushed'[d] = pushed[d]
        BY <1>4 DEF TypeOK
    <1>8. chan'[hub] = Append(chan[hub], Env(c, t)) /\ \A s \in Streams \ {hub} : chan'[s] = chan[s]
        BY <1>2, <1>4 DEF TypeOK
    <1>9. ASSUME NEW d \in Cmds PROVE WentOut(d) \subseteq WentOut(d)'
        <2>1. CASE d = c
            <3>1. \A i \in 1..Len(pushed[c]) : i \in 1..Len(pushed'[c]) /\ pushed'[c][i] = pushed[c][i]
                BY <1>5, <1>7
            <3>2. QED
                BY <2>1, <3>1 DEF WentOut
        <2>2. CASE d # c
            BY <1>7, <2>2 DEF WentOut
        <2>3. QED
            BY <2>1, <2>2
    <1>10. t \in WentOut(c)'
        BY <1>5, <1>7 DEF WentOut
    <1>11. ASSUME NEW s \in Streams, NEW i \in 1..Len(chan'[s])
           PROVE  \/ i \in 1..Len(chan[s]) /\ chan'[s][i] = chan[s][i]
                  \/ chan'[s][i] = Env(c, t)
        <2>1. CASE s # hub
            BY <1>8, <2>1
        <2>2. CASE s = hub
            <3>1. i \in 1..Len(chan[hub]) \/ i = Len(chan[hub]) + 1
                BY <1>6, <1>8, <2>2
            <3>2. QED
                BY <1>6, <1>8, <2>2, <3>1
        <2>3. QED
            BY <2>1, <2>2
    <1>12. QED
        BY <1>5, <1>7, <1>9, <1>10, <1>11

\* Every push is of an envelope signed by issueCommand or by a flush.
LEMMA PushedBy ==
    ASSUME TypeOK, Pushing
    PROVE  \/ chan' = chan /\ pushed' = pushed
           \/ \E c \in Cmds, t \in 0..MaxNow : Push(Env(c, t))
    <1>1. ASSUME NEW c \in Cmds, IssuePush(c)
          PROVE  (chan' = chan /\ pushed' = pushed) \/ (Push(Env(c, issued[c])) /\ issued[c] \in 0..MaxNow)
        <2>1. issued[c] \in 0..MaxNow
            BY DEF TypeOK
        <2>2. QED
            BY <1>1, <2>1, Zenon DEF IssuePush, NotPushed
    <1>2. ASSUME NEW s \in Streams, NEW c \in Cmds, FlushPush(s, c)
          PROVE  (chan' = chan /\ pushed' = pushed) \/ (Push(Env(c, now)) /\ now \in 0..MaxNow)
        <2>1. now \in 0..MaxNow
            BY DEF TypeOK
        <2>2. QED
            BY <1>2, <2>1, Zenon DEF FlushPush, NotPushed
    <1>3. QED
        BY <1>1, <1>2 DEF Pushing

\* No step takes back what went out or what ran.
LEMMA StepGrows ==
    ASSUME TypeOK, Next
    PROVE  /\ \A c \in Cmds : WentOut(c) \subseteq WentOut(c)'
           /\ \A c \in Cmds : pushed[c] # << >> => pushed'[c] # << >>
           /\ \A s \in Streams, c \in Cmds : ran[s][c] <= ran'[s][c]
    <1>1. (\A c \in Cmds : WentOut(c) \subseteq WentOut(c)') /\ (\A c \in Cmds : pushed[c] # << >> => pushed'[c] # << >>)
        <2>1. CASE pushed' = pushed
            BY <2>1 DEF WentOut
        <2>2. ASSUME NEW c \in Cmds, NEW t \in 0..MaxNow, Push(Env(c, t))
              PROVE  /\ \A d \in Cmds : WentOut(d) \subseteq WentOut(d)'
                     /\ \A d \in Cmds : pushed[d] # << >> => pushed'[d] # << >>
            BY <2>2, PushGrows
        <2>3. QED
            BY <2>1, <2>2, Writers, PushedBy
    <1>2. ASSUME NEW s \in Streams, NEW c \in Cmds
          PROVE  ran[s][c] <= ran'[s][c]
        <2>1. \A o \in Streams, d \in Cmds : ran[o][d] \in Nat
            BY DEF TypeOK
        <2>2. CASE ran' = ran
            BY <2>1, <2>2
        <2>3. ASSUME NEW o \in Streams, AgentReceive(o), ran' # ran
              PROVE  ran[s][c] <= ran'[s][c]
            <3>1. Heard(o).cmd \in Cmds /\ ran' = [ran EXCEPT ![o][Heard(o).cmd] = @ + 1]
                BY <2>3, ReceiveCases DEF Envelopes
            <3>2. QED
                BY <2>1, <3>1, RanTyped
        <2>4. QED
            BY <2>2, <2>3, Writers DEF Receiving
    <1>3. QED
        BY <1>1, <1>2

-----------------------------------------------------------------------------
(***************************************************************************)
(* What a step does to one record of the log.                              *)
(***************************************************************************)

\* issueCommand signs c and appends its record.
Signs(c) ==
    /\ issuer[c] = "idle" /\ issuer'[c] = "appended" /\ issued'[c] = now
    /\ log'[c].status = "queued" /\ ~log'[c].accepted /\ log'[c].proof = now

\* issueCommand notes that it pushed c.
NotesIssue(c) ==
    /\ issuer[c] = "pushed" /\ log'[c].status = "sent"
    /\ log'[c].proof = log[c].proof /\ log'[c].accepted = log[c].accepted /\ log'[c].ack = log[c].ack

\* The flush of some stream notes that it pushed c.
NotesFlush(s, c) ==
    /\ flush[s].pc = "pushed" /\ flush[s].cmd = c /\ log'[c].status = "sent"
    /\ log'[c].proof = flush[s].at /\ log'[c].accepted = log[c].accepted /\ log'[c].ack = log[c].ack

\* noteAck notes an acknowledgement of c.
NotesAck(s, c) ==
    /\ acks[s] # << >> /\ Head(acks[s]).cmd = c /\ log'[c].status = "acked"
    /\ log'[c].proof = log[c].proof
    /\ log'[c].accepted = Head(acks[s]).accepted /\ log'[c].ack = Head(acks[s])

\* There is no other way to write a record, and only a record that is there is rewritten.
LEMMA LogWrites ==
    ASSUME TypeOK, Next, NEW c \in Cmds
    PROVE  \/ log'[c] = log[c]
           \/ Signs(c) /\ log'[c] \in Records
           \/ /\ log[c] \in Records /\ log'[c] \in Records
              /\ NotesIssue(c) \/ \E s \in Streams : NotesFlush(s, c) \/ NotesAck(s, c)
    <1> DEFINE Goal == \/ log'[c] = log[c]
                       \/ Signs(c) /\ log'[c] \in Records
                       \/ /\ log[c] \in Records /\ log'[c] \in Records
                          /\ NotesIssue(c) \/ \E s \in Streams : NotesFlush(s, c) \/ NotesAck(s, c)
    <1>1. log \in [Cmds -> {NoRecord} \cup Records] /\ log'[c] \in {NoRecord} \cup Records
        BY StepTyped DEF TypeOK
    <1>2. ASSUME NEW d \in Cmds, IssueAppend(d) PROVE Goal
        <2>1. CASE d # c
            BY <1>1, <1>2, <2>1 DEF IssueAppend
        <2>2. CASE d = c
            <3>1. log'[c] = [status |-> "queued", accepted |-> FALSE, msg |-> "waiting", proof |-> now, ack |-> NoAck]
                BY <1>1, <1>2, <2>2 DEF IssueAppend
            <3>2. log'[c] # NoRecord
                BY <3>1 DEF NoRecord
            <3>3. issuer[c] = "idle" /\ issuer'[c] = "appended" /\ issued'[c] = now
                BY <1>2, <2>2 DEF IssueAppend, TypeOK
            <3>4. QED
                BY <1>1, <3>1, <3>2, <3>3 DEF Signs
        <2>3. QED
            BY <2>1, <2>2
    <1>3. ASSUME NEW d \in Cmds, NEW STATE what, NEW STATE rec, UpdateLog(d, what, rec), log'[c] # log[c]
          PROVE  d = c /\ log'[c] = rec /\ log[c] \in Records
        <2>1. log[d].status # "none" /\ log' = [log EXCEPT ![d] = rec]
            BY <1>3 DEF UpdateLog
        <2>2. d = c /\ log'[c] = rec
            BY <1>1, <1>3, <2>1
        <2>3. log[c] \in Records
            BY <2>1, <2>2, RecordOrNone
        <2>4. QED
            BY <2>2, <2>3
    <1>4. ASSUME NEW d \in Cmds, IssueUpdateLog(d), log'[c] # log[c] PROVE Goal
        <2>1. UpdateLog(d, "push", [log[d] EXCEPT !.status = "sent", !.msg = "pushed"]) /\ issuer[d] = "pushed"
            BY <1>4 DEF IssueUpdateLog
        <2>2. /\ d = c /\ log'[c] = [log[c] EXCEPT !.status = "sent", !.msg = "pushed"]
              /\ log[c] \in Records /\ log'[c] \in Records
            BY <1>3, <1>4, <2>1, RecordFields
        <2>3. NotesIssue(c)
            BY <2>1, <2>2 DEF NotesIssue, Records
        <2>4. QED
            BY <2>2, <2>3
    <1>5. ASSUME NEW s \in Streams, FlushUpdateLog(s), log'[c] # log[c] PROVE Goal
        <2>1. flush[s] \in Flushes /\ flush[s].pc = "pushed"
            BY <1>5 DEF FlushUpdateLog, TypeOK
        <2>2. flush[s].cmd \in Cmds
            BY <2>1, FlushKinds
        <2>3. UpdateLog(flush[s].cmd, "push", [log[flush[s].cmd] EXCEPT !.status = "sent", !.msg = "flushed", !.proof = flush[s].at])
            BY <1>5 DEF FlushUpdateLog
        <2>4. /\ flush[s].cmd = c
              /\ log'[c] = [log[c] EXCEPT !.status = "sent", !.msg = "flushed", !.proof = flush[s].at]
              /\ log[c] \in Records
            BY <1>3, <1>5, <2>2, <2>3
        <2>5. flush[s].at \in 0..MaxNow
            BY <2>1, FlushKinds
        <2>6. log'[c] \in Records
            BY <2>4, <2>5 DEF Records
        <2>7. NotesFlush(s, c)
            BY <2>1, <2>4 DEF NotesFlush, Records
        <2>8. QED
            BY <2>4, <2>7, <2>6
    <1>6. ASSUME NEW s \in Streams, NoteAckLog(s), log'[c] # log[c] PROVE Goal
        <2> DEFINE a == Head(acks[s])
        <2>1. acks[s] \in Seq(Acks) /\ acks[s] # << >>
            BY <1>6 DEF NoteAckLog, TypeOK
        <2>2. a \in Acks
            BY <2>1, HeadTailProperties
        <2>3. a.cmd \in Cmds
            BY <2>2 DEF Acks
        <2>4. UpdateLog(a.cmd, "ack", [log[a.cmd] EXCEPT !.status = "acked", !.accepted = a.accepted, !.msg = a.msg, !.ack = a])
            BY <1>6 DEF NoteAckLog
        <2> HIDE DEF a
        <2>5. /\ a.cmd = c
              /\ log'[c] = [log[c] EXCEPT !.status = "acked", !.accepted = a.accepted, !.msg = a.msg, !.ack = a]
              /\ log[c] \in Records
            BY <1>3, <1>6, <2>3, <2>4
        <2>6. log'[c] \in Records
            BY <2>2, <2>5 DEF Records, Acks
        <2>7. NotesAck(s, c)
            BY <2>1, <2>5 DEF NotesAck, Records, a
        <2>8. QED
            BY <2>5, <2>7, <2>6
    <1>7. QED
        BY <1>2, <1>4, <1>5, <1>6, Writers

-----------------------------------------------------------------------------
(***************************************************************************)
(* How issueCommand and a flush move.                                      *)
(***************************************************************************)

\* A command is appended, synced, pushed or given up, and noted, in that order.
LEMMA IssuerMoves ==
    ASSUME TypeOK, Next, NEW c \in Cmds
    PROVE  \/ issuer'[c] = issuer[c] /\ issued'[c] = issued[c]
           \/ IssueAppend(c) /\ issuer[c] = "idle" /\ issuer'[c] = "appended" /\ log'[c] \in Records
           \/ /\ issued'[c] = issued[c]
              /\ \/ issuer[c] = "appended" /\ issuer'[c] = "synced"
                 \/ issuer[c] = "synced" /\ issuer'[c] = "pushed" /\ Push(Env(c, issued[c]))
                 \/ issuer[c] = "synced" /\ issuer'[c] = "done"
                 \/ issuer[c] = "pushed" /\ issuer'[c] = "logged" /\ IssueUpdateLog(c)
                 \/ issuer[c] = "logged" /\ issuer'[c] = "done"
    <1>1. ASSUME NEW d \in Cmds, d # c,
                 IssueAppend(d) \/ IssueSync(d) \/ IssuePush(d) \/ IssueUpdateLog(d) \/ IssueUpdateRow(d)
          PROVE  issuer'[c] = issuer[c] /\ issued'[c] = issued[c]
        <2>1. \E pc : issuer' = [issuer EXCEPT ![d] = pc]
            BY <1>1, Zenon DEF IssueAppend, IssueSync, IssuePush, IssueUpdateLog, IssueUpdateRow
        <2>2. issued' = issued \/ issued' = [issued EXCEPT ![d] = now]
            BY <1>1, Zenon DEF IssueAppend, IssueSync, IssuePush, IssueUpdateLog, IssueUpdateRow
        <2>3. QED
            BY <1>1, <2>1, <2>2 DEF TypeOK
    <1>2. ASSUME IssueAppend(c)
          PROVE  issuer[c] = "idle" /\ issuer'[c] = "appended" /\ log'[c] \in Records
        <2>1. issuer[c] = "idle" /\ issuer'[c] = "appended"
            BY <1>2 DEF IssueAppend, TypeOK
        <2>2. log'[c] # NoRecord
            BY <1>2 DEF IssueAppend, TypeOK, NoRecord
        <2>3. log'[c] \in {NoRecord} \cup Records
            BY StepTyped DEF TypeOK
        <2>4. QED
            BY <2>1, <2>2, <2>3
    <1>3. ASSUME IssueSync(c) PROVE issued'[c] = issued[c] /\ issuer[c] = "appended" /\ issuer'[c] = "synced"
        BY <1>3 DEF IssueSync, TypeOK
    <1>4. ASSUME IssuePush(c)
          PROVE  /\ issued'[c] = issued[c] /\ issuer[c] = "synced"
                 /\ (issuer'[c] = "pushed" /\ Push(Env(c, issued[c]))) \/ issuer'[c] = "done"
        <2>1. /\ issued' = issued /\ issuer[c] = "synced"
              /\ \/ Push(Env(c, issued[c])) /\ issuer' = [issuer EXCEPT ![c] = "pushed"]
                 \/ issuer' = [issuer EXCEPT ![c] = "done"]
            BY <1>4, Zenon DEF IssuePush
        <2>2. CASE issuer' = [issuer EXCEPT ![c] = "done"]
            BY <2>1, <2>2 DEF TypeOK
        <2>3. CASE Push(Env(c, issued[c])) /\ issuer' = [issuer EXCEPT ![c] = "pushed"]
            <3>1. issuer'[c] = "pushed"
                BY <2>3 DEF TypeOK
            <3>2. QED
                BY <2>1, <2>3, <3>1
        <2>4. QED
            BY <2>1, <2>2, <2>3
    <1>5. ASSUME IssueUpdateLog(c) PROVE issued'[c] = issued[c] /\ issuer[c] = "pushed" /\ issuer'[c] = "logged"
        BY <1>5 DEF IssueUpdateLog, TypeOK
    <1>6. ASSUME IssueUpdateRow(c) PROVE issued'[c] = issued[c] /\ issuer[c] = "logged" /\ issuer'[c] = "done"
        BY <1>6 DEF IssueUpdateRow, TypeOK
    <1>7. CASE issuer' = issuer /\ issued' = issued
        BY <1>7
    <1>8. QED
        BY <1>1, <1>2, <1>3, <1>4, <1>5, <1>6, <1>7, Writers DEF Issuing

\* A flush takes the commands one by one; each is pushed and noted, or given up.
LEMMA FlushMoves ==
    ASSUME TypeOK, FlushInv, Next, NEW s \in Streams
    PROVE  \/ flush'[s] = flush[s]
           \/ /\ flush'[s].pc \in {"idle", "next"} /\ flush'[s].todo \subseteq flush[s].todo \cup Pending
              /\ flush[s].pc # "pushed" /\ (flush[s].pc = "idle" => FlushStart(s))
           \/ /\ flush'[s].pc = "pushed" /\ flush'[s].todo \subseteq flush[s].todo
              /\ flush'[s].cmd \in flush[s].todo /\ flush'[s].at = now
              /\ flush[s].pc = "next" /\ Push(Env(flush'[s].cmd, now))
           \/ /\ flush'[s].pc = "logged" /\ flush[s].pc = "pushed" /\ FlushUpdateLog(s)
              /\ flush'[s].todo = flush[s].todo /\ flush'[s].cmd = flush[s].cmd /\ flush'[s].at = flush[s].at
    <1>1. flush[s] \in Flushes
        BY DEF TypeOK
    <1>2. ASSUME NEW o \in Streams, o # s,
                 FlushStart(o) \/ (\E c \in Cmds : FlushPush(o, c)) \/ FlushUpdateLog(o) \/ FlushUpdateRow(o) \/ FlushEnd(o)
          PROVE  flush'[s] = flush[s]
        <2>1. \E f : flush' = [flush EXCEPT ![o] = f]
            BY <1>2, Zenon DEF FlushStart, FlushPush, FlushUpdateLog, FlushUpdateRow, FlushEnd
        <2>2. QED
            BY <1>2, <2>1 DEF TypeOK
    <1>3. ASSUME FlushStart(s) PROVE flush'[s].pc = "next" /\ flush'[s].todo \subseteq Pending /\ flush[s].pc # "pushed"
        <2>1. flush[s].pc # "pushed"
            BY <1>3 DEF FlushStart, FlushInv
        <2>2. PICK todo \in {Pending, {}} : flush' = [flush EXCEPT ![s] = [pc |-> "next", todo |-> todo]]
            BY <1>3 DEF FlushStart
        <2>3. QED
            BY <2>1, <2>2 DEF TypeOK
    <1>4. ASSUME FlushUpdateLog(s)
          PROVE  /\ flush'[s].pc = "logged" /\ flush[s].pc = "pushed"
                 /\ flush'[s].todo = flush[s].todo /\ flush'[s].cmd = flush[s].cmd /\ flush'[s].at = flush[s].at
        <2>1. flush[s].pc = "pushed" /\ flush'[s] = [flush[s] EXCEPT !.pc = "logged"]
            BY <1>4 DEF FlushUpdateLog, TypeOK
        <2>2. flush[s] \in [pc: {"pushed", "logged"}, todo: SUBSET Cmds, cmd: Cmds, at: 0..MaxNow]
            BY <1>1, <2>1, FlushKinds
        <2>3. QED
            BY <2>1, <2>2
    <1>5. ASSUME FlushUpdateRow(s) PROVE flush'[s].pc = "next" /\ flush'[s].todo = flush[s].todo /\ flush[s].pc = "logged"
        BY <1>5 DEF FlushUpdateRow, TypeOK
    <1>6. ASSUME FlushEnd(s) PROVE flush'[s].pc = "idle" /\ flush'[s].todo = flush[s].todo /\ flush[s].pc = "next"
        <2>1. flush[s].pc = "next" /\ flush'[s] = [flush[s] EXCEPT !.pc = "idle"]
            BY <1>6 DEF FlushEnd, TypeOK
        <2>2. flush[s] \in [pc: {"idle", "next"}, todo: SUBSET Cmds]
            BY <1>1, <2>1, FlushKinds
        <2>3. QED
            BY <2>1, <2>2
    <1>7. ASSUME NEW c \in Cmds, FlushPush(s, c)
          PROVE  \/ /\ flush'[s].pc = "pushed" /\ flush'[s].todo \subseteq flush[s].todo
                    /\ flush'[s].cmd \in flush[s].todo /\ flush'[s].at = now
                    /\ flush[s].pc = "next" /\ Push(Env(flush'[s].cmd, now))
                 \/ flush'[s].pc = "next" /\ flush'[s].todo \subseteq flush[s].todo /\ flush[s].pc = "next"
        <2>1. /\ flush[s].pc = "next" /\ c \in flush[s].todo
              /\ \/ /\ Push(Env(c, now))
                    /\ flush' = [flush EXCEPT ![s] = [pc |-> "pushed", todo |-> @.todo \ {c}, cmd |-> c, at |-> now]]
                 \/ flush' = [flush EXCEPT ![s].todo = @ \ {c}]
            BY <1>7, Zenon DEF FlushPush
        <2>2. CASE flush' = [flush EXCEPT ![s].todo = @ \ {c}]
            <3>1. flush'[s] = [flush[s] EXCEPT !.todo = flush[s].todo \ {c}]
                BY <2>2 DEF TypeOK
            <3>2. flush[s] \in [pc: {"idle", "next"}, todo: SUBSET Cmds]
                BY <1>1, <2>1, FlushKinds
            <3>3. QED
                BY <2>1, <3>1, <3>2
        <2>3. CASE /\ Push(Env(c, now))
                   /\ flush' = [flush EXCEPT ![s] = [pc |-> "pushed", todo |-> @.todo \ {c}, cmd |-> c, at |-> now]]
            <3>1. flush'[s] = [pc |-> "pushed", todo |-> flush[s].todo \ {c}, cmd |-> c, at |-> now]
                BY <2>3 DEF TypeOK
            <3>2. /\ flush'[s].pc = "pushed" /\ flush'[s].todo \subseteq flush[s].todo
                  /\ flush'[s].cmd = c /\ flush'[s].at = now
                BY <3>1
            <3>3. QED
                BY <2>1, <2>3, <3>2
        <2>4. QED
            BY <2>1, <2>2, <2>3
    <1>8. CASE flush' = flush
        BY <1>8
    <1>9. QED
        BY <1>2, <1>3, <1>4, <1>5, <1>6, <1>7, <1>8, Writers DEF Flushing

-----------------------------------------------------------------------------
(***************************************************************************)
(* The invariant is inductive.                                             *)
(***************************************************************************)

\* A command has a record once it is signed.
LEMMA SignedStep ==
    ASSUME TypeOK, SignedInv, FlushInv, Next
    PROVE  SignedInv'
    <1>1. \A r \in Records : r # NoRecord
        BY DEF Records, NoRecord
    <1>2. \A c \in Cmds : issuer[c] # "idle" => issuer'[c] # "idle"
        BY IssuerMoves
    <1>3. ASSUME NEW c \in Cmds
          PROVE  issuer'[c] = "idle" <=> log'[c] = NoRecord
        <2>1. issuer[c] = "idle" <=> log[c] = NoRecord
            BY DEF SignedInv
        <2>2. CASE issuer'[c] = issuer[c]
            <3>1. ~Signs(c)
                BY <2>2 DEF Signs
            <3>2. QED
                BY <1>1, <2>1, <2>2, <3>1, LogWrites
        <2>3. CASE issuer'[c] # issuer[c]
            BY <1>1, <2>1, <2>3, IssuerMoves, LogWrites
        <2>4. QED
            BY <2>2, <2>3
    <1>4. ASSUME NEW c \in Cmds, NEW t \in 0..MaxNow, Push(Env(c, t)), issuer[c] # "idle"
          PROVE  \A d \in Cmds : issuer'[d] = "idle" => pushed'[d] = << >>
        BY <1>2, <1>4, PushGrows DEF SignedInv
    <1>5. ASSUME NEW c \in Cmds, issuer'[c] = "idle"
          PROVE  pushed'[c] = << >>
        <2>1. issuer[c] = "idle" /\ pushed[c] = << >>
            BY <1>2, <1>5 DEF SignedInv
        <2>2. ASSUME NEW d \in Cmds, IssuePush(d) PROVE pushed'[c] = << >>
            <3>1. issuer[d] # "idle" /\ issued[d] \in 0..MaxNow
                BY <2>2 DEF IssuePush, TypeOK
            <3>2. pushed' = pushed \/ Push(Env(d, issued[d]))
                BY <2>2, Zenon DEF IssuePush, NotPushed
            <3>3. QED
                BY <1>4, <1>5, <2>1, <3>1, <3>2
        <2>3. ASSUME NEW s \in Streams, NEW d \in Cmds, FlushPush(s, d) PROVE pushed'[c] = << >>
            <3>1. issuer[d] # "idle" /\ now \in 0..MaxNow
                BY <2>3 DEF FlushPush, SignedInv, TypeOK
            <3>2. pushed' = pushed \/ Push(Env(d, now))
                BY <2>3, Zenon DEF FlushPush, NotPushed
            <3>3. QED
                BY <1>4, <1>5, <2>1, <3>1, <3>2
        <2>4. QED
            BY <2>1, <2>2, <2>3, Writers DEF Pushing
    <1>6. ASSUME NEW s \in Streams, NEW c \in flush'[s].todo
          PROVE  issuer'[c] # "idle"
        <2>1. flush[s].todo \subseteq Cmds
            BY FlushKinds DEF TypeOK
        <2>2. \A d \in Pending : d \in Cmds /\ issuer[d] # "idle"
            BY DEF Pending, SignedInv, NoRecord
        <2>3. c \in flush[s].todo \cup Pending
            BY <1>6, FlushMoves
        <2>4. c \in Cmds /\ issuer[c] # "idle"
            BY <2>1, <2>2, <2>3 DEF SignedInv
        <2>5. QED
            BY <1>2, <2>4
    <1>7. QED
        BY <1>3, <1>5, <1>6 DEF SignedInv

\* A push is out there, and so is all that was before.
LEMMA OutGrows ==
    ASSUME TypeOK, Next
    PROVE  /\ OutThere \subseteq OutThere'
           /\ \A c \in Cmds, t \in 0..MaxNow : Push(Env(c, t)) => Env(c, t) \in OutThere'
    <1>1. OutThere \subseteq OutThere'
        BY StepGrows DEF OutThere, Envelopes
    <1>2. \A c \in Cmds, t \in 0..MaxNow : Push(Env(c, t)) => t \in WentOut(c)'
        BY PushGrows
    <1>3. QED
        BY <1>1, <1>2 DEF OutThere, Env, Envelopes

\* Nothing travels, or is about to be noted, that was not pushed.
LEMMA OutStep ==
    ASSUME TypeOK, FlushInv, OutInv, Next
    PROVE  OutInv'
    <1>1. /\ OutThere \subseteq OutThere'
          /\ \A c \in Cmds, t \in 0..MaxNow : Push(Env(c, t)) => Env(c, t) \in OutThere'
        BY OutGrows
    <1>2. \A s \in Streams : chan[s] \in Seq(OutThere') /\ wire[s] \in Seq(OutThere')
        BY <1>1, SeqMonotonic DEF OutInv
    <1>3. ASSUME NEW s \in Streams
          PROVE  chan'[s] \in Seq(OutThere')
        <2>1. ASSUME NEW c \in Cmds, NEW t \in 0..MaxNow, Push(Env(c, t))
              PROVE  chan'[s] \in Seq(OutThere')
            <3>1. Env(c, t) \in OutThere'
                BY <1>1, <2>1
            <3>2. chan' = [chan EXCEPT ![hub] = Append(chan[hub], Env(c, t))]
                BY <2>1 DEF Push
            <3>3. chan'[s] = chan[s] \/ chan'[s] = Append(chan[s], Env(c, t))
                BY <3>2 DEF TypeOK
            <3>4. Append(chan[s], Env(c, t)) \in Seq(OutThere')
                BY <1>2, <3>1, AppendProperties
            <3>5. QED
                BY <1>2, <3>3, <3>4
        <2>2. ASSUME NEW o \in Streams, ServeSend(o)
              PROVE  chan'[s] \in Seq(OutThere')
            <3>1. chan[o] # << >> /\ chan' = [chan EXCEPT ![o] = Tail(chan[o])]
                BY <2>2 DEF ServeSend
            <3>2. chan'[s] = chan[s] \/ (chan[s] # << >> /\ chan'[s] = Tail(chan[s]))
                BY <3>1 DEF TypeOK
            <3>3. QED
                BY <1>2, <3>2, HeadTailProperties
        <2>3. QED
            BY <1>2, <2>1, <2>2, Writers, PushedBy
    <1>4. ASSUME NEW s \in Streams
          PROVE  wire'[s] \in Seq(OutThere')
        <2>1. ASSUME NEW o \in Streams, ServeSend(o)
              PROVE  wire'[s] \in Seq(OutThere')
            <3>1. chan[o] # << >> /\ wire' = [wire EXCEPT ![o] = Append(wire[o], Head(chan[o]))]
                BY <2>1 DEF ServeSend
            <3>2. Head(chan[o]) \in OutThere'
                BY <1>2, <3>1, HeadTailProperties
            <3>3. wire'[s] = wire[s] \/ wire'[s] = Append(wire[s], Head(chan[o]))
                BY <3>1 DEF TypeOK
            <3>4. Append(wire[s], Head(chan[o])) \in Seq(OutThere')
                BY <1>2, <3>2, AppendProperties
            <3>5. QED
                BY <1>2, <3>3, <3>4
        <2>2. ASSUME NEW o \in Streams, Break(o)
              PROVE  wire'[s] \in Seq(OutThere')
            <3>1. wire' = [wire EXCEPT ![o] = << >>]
                BY <2>2 DEF Break
            <3>2. wire'[s] = wire[s] \/ wire'[s] = << >>
                BY <3>1 DEF TypeOK
            <3>3. QED
                BY <1>2, <3>2, EmptySeq
        <2>3. ASSUME NEW o \in Streams, AgentReceive(o)
              PROVE  wire'[s] \in Seq(OutThere')
            <3>1. wire[o] # << >> /\ wire' = [wire EXCEPT ![o] = Tail(wire[o])]
                BY <2>3, ReceiveCases
            <3>2. wire'[s] = wire[s] \/ (wire[s] # << >> /\ wire'[s] = Tail(wire[s]))
                BY <3>1 DEF TypeOK
            <3>3. QED
                BY <1>2, <3>2, HeadTailProperties
        <2>4. QED
            BY <1>2, <2>1, <2>2, <2>3, Writers DEF Receiving
    <1>5. ASSUME NEW s \in Streams, flush'[s].pc \in {"pushed", "logged"}
          PROVE  Env(flush'[s].cmd, flush'[s].at) \in OutThere'
        <2>1. CASE /\ flush'[s].cmd = flush[s].cmd /\ flush'[s].at = flush[s].at
                   /\ flush[s].pc \in {"pushed", "logged"}
            BY <1>1, <2>1 DEF OutInv
        <2>2. CASE flush'[s].cmd \in flush[s].todo /\ flush'[s].at = now /\ Push(Env(flush'[s].cmd, now))
            <3>1. flush'[s].cmd \in Cmds /\ now \in 0..MaxNow
                BY <2>2, FlushKinds DEF TypeOK
            <3>2. QED
                BY <1>1, <2>2, <3>1
        <2>3. QED
            BY <1>5, <2>1, <2>2, FlushMoves
    <1>6. ASSUME NEW c \in Cmds, issuer'[c] = "pushed"
          PROVE  Env(c, issued'[c]) \in OutThere'
        <2>1. CASE issuer[c] = "pushed" /\ issued'[c] = issued[c]
            BY <1>1, <2>1 DEF OutInv
        <2>2. CASE issued'[c] = issued[c] /\ Push(Env(c, issued[c]))
            <3>1. issued[c] \in 0..MaxNow
                BY DEF TypeOK
            <3>2. QED
                BY <1>1, <2>2, <3>1
        <2>3. QED
            BY <1>6, <2>1, <2>2, IssuerMoves
    <1>7. QED
        BY <1>3, <1>4, <1>5, <1>6 DEF OutInv, Env


\* A command that went out was pushed.
LEMMA OutMeansPushed ==
    ASSUME TypeOK, NEW c \in Cmds, WentOut(c) # {}
    PROVE  pushed[c] # << >>
    BY EmptySeq DEF WentOut

\* Only what the agent read from its stream is answered, and it accepts what it runs.
LEMMA AckStep ==
    ASSUME TypeOK, OutInv, AckInv, Next
    PROVE  AckInv'
    <1> SUFFICES ASSUME NEW s \in Streams PROVE acks'[s] \in Seq(TrueAcks(s)')
        BY DEF AckInv
    <1>1. TrueAcks(s) \subseteq TrueAcks(s)'
        <2>1. \A c \in Cmds : ran[s][c] \in Nat /\ ran'[s][c] \in Nat
            BY StepTyped DEF TypeOK
        <2>2. QED
            BY <2>1, StepGrows DEF TrueAcks, Acks
    <1>2. acks[s] \in Seq(TrueAcks(s)')
        BY <1>1, SeqMonotonic DEF AckInv
    <1>3. ASSUME NEW o \in Streams, NoteAckLog(o)
          PROVE  acks'[s] \in Seq(TrueAcks(s)')
        <2>1. acks[o] # << >> /\ acks' = [acks EXCEPT ![o] = Tail(acks[o])]
            BY <1>3 DEF NoteAckLog
        <2>2. acks'[s] = acks[s] \/ (acks[s] # << >> /\ acks'[s] = Tail(acks[s]))
            BY <2>1 DEF TypeOK
        <2>3. QED
            BY <1>2, <2>2, HeadTailProperties
    <1>4. ASSUME NEW o \in Streams, Break(o)
          PROVE  acks'[s] \in Seq(TrueAcks(s)')
        <2>1. acks' = [acks EXCEPT ![o] = << >>]
            BY <1>4 DEF Break
        <2>2. acks'[s] = acks[s] \/ acks'[s] = << >>
            BY <2>1 DEF TypeOK
        <2>3. QED
            BY <1>2, <2>2, EmptySeq
    <1>5. ASSUME AgentReceive(s)
          PROVE  acks'[s] \in Seq(TrueAcks(s)')
        <2> DEFINE c == Heard(s).cmd
        <2>1. Heard(s) \in OutThere
            BY <1>5, ReceiveCases, HeadTailProperties DEF OutInv, Heard
        <2>2. c \in Cmds /\ WentOut(c) # {}
            BY <2>1 DEF OutThere, Envelopes
        <2> HIDE DEF c
        <2>3. pushed'[c] # << >>
            BY <2>2, OutMeansPushed, StepGrows
        <2>4. \E accepted \in BOOLEAN, msg \in {"result", "failed", "expired", "replayed"} :
                 /\ acks' = [acks EXCEPT ![s] = Append(acks[s], Ack(c, accepted, msg))]
                 /\ accepted => ran' = [ran EXCEPT ![s][c] = @ + 1]
            BY <1>5, ReceiveCases DEF c, Answered
        <2>5. PICK accepted \in BOOLEAN, msg \in {"result", "failed", "expired", "replayed"} :
                 /\ acks' = [acks EXCEPT ![s] = Append(acks[s], Ack(c, accepted, msg))]
                 /\ accepted => ran' = [ran EXCEPT ![s][c] = @ + 1]
            BY <2>4
        <2>6. accepted => ran'[s][c] > 0
            <3>1. ran[s][c] \in Nat
                BY <2>2 DEF TypeOK
            <3>2. QED
                BY <2>2, <2>5, <3>1, RanTyped
        <2>7. Ack(c, accepted, msg) \in TrueAcks(s)'
            BY <2>2, <2>3, <2>6 DEF TrueAcks, Ack, Acks
        <2>8. acks'[s] = Append(acks[s], Ack(c, accepted, msg))
            BY <2>5 DEF TypeOK
        <2>9. Append(acks[s], Ack(c, accepted, msg)) \in Seq(TrueAcks(s)')
            BY <1>2, <2>7, AppendProperties
        <2>10. QED
            BY <2>8, <2>9
    <1>6. ASSUME NEW o \in Streams \ {s}, AgentReceive(o)
          PROVE  acks'[s] \in Seq(TrueAcks(s)')
        <2>1. \E accepted, msg : Answered(o, accepted, msg)
            BY <1>6, ReceiveCases
        <2>2. acks'[s] = acks[s]
            BY <1>6, <2>1 DEF Answered, TypeOK
        <2>3. QED
            BY <1>2, <2>2
    <1>7. QED
        BY <1>2, <1>3, <1>4, <1>5, <1>6, Writers DEF Receiving

\* A flush is idle before its stream registers and after it is done.
LEMMA FlushStep ==
    ASSUME TypeOK, FlushInv, Next
    PROVE  FlushInv'
    <1> SUFFICES ASSUME NEW s \in Streams, flush'[s].pc # "idle" PROVE conn'[s] = "flushing"
        BY DEF FlushInv
    <1>1. CASE flush[s].pc # "idle"
        <2>1. conn[s] = "flushing"
            BY <1>1 DEF FlushInv
        <2>2. CASE conn'[s] = conn[s]
            BY <2>1, <2>2
        <2>3. ASSUME NEW o \in Streams, FlushEnd(o) PROVE conn'[s] = conn[s]
            <3>1. o # s
                BY <2>3 DEF FlushEnd, TypeOK
            <3>2. QED
                BY <2>3, <3>1 DEF FlushEnd, TypeOK
        <2>4. ASSUME NEW o \in Streams,
                     Admit(o) \/ Register(o) \/ FlushStart(o) \/ ServeEnd(o) \/ Unregister(o) \/ Disconnected(o)
              PROVE  conn'[s] = conn[s]
            <3>1. conn[o] # "flushing" /\ \E pc : conn' = conn \/ conn' = [conn EXCEPT ![o] = pc]
                BY <2>4, Zenon DEF Admit, Register, FlushStart, ServeEnd, Unregister, Disconnected
            <3>2. QED
                BY <2>1, <3>1 DEF TypeOK
        <2>5. QED
            BY <2>2, <2>3, <2>4, ConnWriters
    <1>2. CASE flush[s].pc = "idle"
        <2>1. ASSUME NEW o \in Streams, FlushStart(o) PROVE conn'[s] = "flushing"
            <3>1. o = s
                BY <1>2, <2>1 DEF FlushStart, TypeOK
            <3>2. QED
                BY <2>1, <3>1 DEF FlushStart, TypeOK
        <2>2. ASSUME ~FlushStart(s) PROVE flush'[s].pc = "idle"
            BY <1>2, <2>2, FlushMoves
        <2>3. QED
            BY <2>1, <2>2
    <1>3. QED
        BY <1>1, <1>2

\* Every push opens the window of the command it pushes: the log does not tell of it yet.
LEMMA PushOpens ==
    ASSUME TypeOK, Next, NEW c \in Cmds, pushed'[c] # pushed[c]
    PROVE  Unnoted(c)'
    <1>1. ASSUME NEW d \in Cmds, IssuePush(d)
          PROVE  issuer'[c] = "pushed"
        <2>1. /\ issued[d] \in 0..MaxNow
              /\ pushed' = pushed \/ (Push(Env(d, issued[d])) /\ issuer' = [issuer EXCEPT ![d] = "pushed"])
            BY <1>1, Zenon DEF IssuePush, NotPushed, TypeOK
        <2>2. Push(Env(d, issued[d])) /\ issuer' = [issuer EXCEPT ![d] = "pushed"]
            BY <2>1
        <2>3. c = d
            BY <2>1, <2>2, PushGrows
        <2>4. QED
            BY <2>2, <2>3 DEF TypeOK
    <1>2. ASSUME NEW s \in Streams, NEW d \in Cmds, FlushPush(s, d)
          PROVE  flush'[s].pc = "pushed" /\ flush'[s].cmd = c
        <2>1. /\ now \in 0..MaxNow
              /\ \/ pushed' = pushed
                 \/ /\ Push(Env(d, now))
                    /\ flush' = [flush EXCEPT ![s] = [pc |-> "pushed", todo |-> @.todo \ {d}, cmd |-> d, at |-> now]]
            BY <1>2, Zenon DEF FlushPush, NotPushed, TypeOK
        <2>2. /\ Push(Env(d, now))
              /\ flush' = [flush EXCEPT ![s] = [pc |-> "pushed", todo |-> @.todo \ {d}, cmd |-> d, at |-> now]]
            BY <2>1
        <2>3. c = d
            BY <2>1, <2>2, PushGrows
        <2>4. QED
            BY <2>2, <2>3 DEF TypeOK
    <1>3. QED
        BY <1>1, <1>2, Writers DEF Pushing, PushUnrecorded, Unnoted

\* Only the write of the record closes it, once it succeeds.
LEMMA WindowCloses ==
    ASSUME TypeOK, FlushInv, Next, NEW c \in Cmds, log[c] \in Records, Unnoted(c), ~Unnoted(c)'
    PROVE  NotesIssue(c) \/ \E s \in Streams : NotesFlush(s, c)
    <1>1. <<c, "push">> \notin missed'
        BY DEF Unnoted
    <1>2. ASSUME IssueUpdateLog(c)
          PROVE  NotesIssue(c)
        <2>1. log' = [log EXCEPT ![c] = [log[c] EXCEPT !.status = "sent", !.msg = "pushed"]]
            BY <1>1, <1>2, RecordOrNone DEF IssueUpdateLog, UpdateLog
        <2>2. log'[c] = [log[c] EXCEPT !.status = "sent", !.msg = "pushed"]
            BY <2>1 DEF TypeOK
        <2>3. QED
            BY <1>2, <2>2 DEF IssueUpdateLog, NotesIssue, Records
    <1>3. ASSUME NEW s \in Streams, flush[s].cmd = c, FlushUpdateLog(s)
          PROVE  NotesFlush(s, c)
        <2>1. log' = [log EXCEPT ![c] = [log[c] EXCEPT !.status = "sent", !.msg = "flushed", !.proof = flush[s].at]]
            BY <1>1, <1>3, RecordOrNone DEF FlushUpdateLog, UpdateLog
        <2>2. log'[c] = [log[c] EXCEPT !.status = "sent", !.msg = "flushed", !.proof = flush[s].at]
            BY <2>1 DEF TypeOK
        <2>3. QED
            BY <1>3, <2>2 DEF FlushUpdateLog, NotesFlush, Records
    <1>4. CASE issuer[c] = "pushed"
        <2>1. IssueUpdateLog(c)
            BY <1>4, IssuerMoves DEF PushUnrecorded, Unnoted
        <2>2. QED
            BY <1>2, <2>1
    <1>5. ASSUME NEW s \in Streams, flush[s].pc = "pushed", flush[s].cmd = c
          PROVE  NotesFlush(s, c)
        <2>1. ~(flush'[s].pc = "pushed" /\ flush'[s].cmd = c)
            BY DEF PushUnrecorded, Unnoted
        <2>2. FlushUpdateLog(s)
            BY <1>5, <2>1, FlushMoves
        <2>3. QED
            BY <1>3, <1>5, <2>2
    <1>6. CASE <<c, "push">> \in missed
        <2>1. missed' # missed
            BY <1>1, <1>6
        <2>2. ASSUME NEW d \in Cmds, IssueUpdateLog(d)
              PROVE  d = c
            <3>1. missed' = missed \ {<<d, "push">>} \/ missed' = missed \cup {<<d, "push">>}
                BY <2>2 DEF IssueUpdateLog, UpdateLog
            <3>2. QED
                BY <1>1, <1>6, <3>1
        <2>3. ASSUME NEW s \in Streams, FlushUpdateLog(s)
              PROVE  flush[s].cmd = c
            <3>1. missed' = missed \ {<<flush[s].cmd, "push">>} \/ missed' = missed \cup {<<flush[s].cmd, "push">>}
                BY <2>3 DEF FlushUpdateLog, UpdateLog
            <3>2. QED
                BY <1>1, <1>6, <3>1
        <2>4. ASSUME NEW s \in Streams, NoteAckLog(s)
              PROVE  FALSE
            <3>1. \E d : missed' = missed \ {<<d, "ack">>} \/ missed' = missed \cup {<<d, "ack">>}
                BY <2>4 DEF NoteAckLog, UpdateLog
            <3>2. QED
                BY <1>1, <1>6, <3>1
        <2>5. ASSUME NEW d \in Cmds, IssueAppend(d)
              PROVE  FALSE
            BY <2>1, <2>5 DEF IssueAppend
        <2>6. QED
            BY <1>2, <1>3, <2>1, <2>2, <2>3, <2>4, <2>5, Writers
    <1>7. QED
        BY <1>4, <1>5, <1>6 DEF PushUnrecorded, Unnoted

\* A record follows what was pushed, through the windows of issueCommand and the flushes.
LEMMA LogStep ==
    ASSUME TypeOK, SignedInv, FlushInv, OutInv, AckInv, LogInv, Next
    PROVE  LogInv'
    <1> SUFFICES ASSUME NEW c \in Cmds, log'[c] # NoRecord
                 PROVE  /\ log'[c].status # "queued" => pushed'[c] # << >>
                        /\ log'[c].status = "queued" /\ pushed'[c] # << >> => Unnoted(c)'
                        /\ log'[c].proof = issued'[c] \/ log'[c].proof \in WentOut(c)'
                        /\ log'[c].status # "queued" /\ ~Unnoted(c)' => log'[c].proof \in WentOut(c)'
        BY DEF LogInv
    <1>1. WentOut(c) \subseteq WentOut(c)' /\ (pushed[c] # << >> => pushed'[c] # << >>)
        BY StepGrows
    <1>2. CASE Signs(c)
        <2>1. log'[c].status = "queued" /\ log'[c].proof = issued'[c] /\ issuer[c] = "idle" /\ issuer'[c] = "appended"
            BY <1>2 DEF Signs
        <2>2. pushed'[c] = << >>
            <3>1. pushed[c] = << >>
                BY <2>1 DEF SignedInv
            <3>2. IssueAppend(c)
                BY <2>1, IssuerMoves
            <3>3. QED
                BY <3>1, <3>2 DEF IssueAppend
        <2>3. QED
            BY <2>1, <2>2
    <1> DEFINE Goal == /\ log'[c].status # "queued" => pushed'[c] # << >>
                       /\ log'[c].status = "queued" /\ pushed'[c] # << >> => Unnoted(c)'
                       /\ log'[c].proof = issued'[c] \/ log'[c].proof \in WentOut(c)'
                       /\ log'[c].status # "queued" /\ ~Unnoted(c)' => log'[c].proof \in WentOut(c)'
    <1>3. ASSUME NotesIssue(c), log[c] \in Records PROVE Goal
        <2>1. issued[c] \in WentOut(c)
            BY <1>3 DEF NotesIssue, OutInv, OutThere, Env
        <2>2. log[c].proof \in WentOut(c)
            BY <1>3, <2>1, RecordOrNone DEF LogInv
        <2>3. pushed[c] # << >>
            BY <2>1, OutMeansPushed
        <2>4. QED
            BY <1>1, <1>3, <2>2, <2>3 DEF NotesIssue
    <1>4. ASSUME NEW s \in Streams, NotesFlush(s, c) PROVE Goal
        <2>1. flush[s].at \in WentOut(c)
            BY <1>4 DEF NotesFlush, OutInv, OutThere, Env
        <2>2. pushed[c] # << >>
            BY <2>1, OutMeansPushed
        <2>3. QED
            BY <1>1, <1>4, <2>1, <2>2 DEF NotesFlush
    <1>5. ASSUME log[c] \in Records, log'[c].proof = log[c].proof,
                 ~NotesIssue(c), \A s \in Streams : ~NotesFlush(s, c),
                 \/ log'[c].status = log[c].status
                 \/ log'[c].status = "acked" /\ pushed[c] # << >>
          PROVE  Goal
        <2>1. log[c] # NoRecord /\ issuer[c] # "idle"
            BY <1>5, RecordOrNone DEF SignedInv
        <2>2. issued'[c] = issued[c]
            BY <2>1, IssuerMoves
        <2>3. Unnoted(c) => Unnoted(c)'
            BY <1>5, WindowCloses
        <2>4. pushed'[c] # pushed[c] => Unnoted(c)'
            BY PushOpens
        <2>5. /\ log[c].status # "queued" => pushed[c] # << >>
              /\ log[c].status = "queued" /\ pushed[c] # << >> => Unnoted(c)
              /\ log[c].proof = issued[c] \/ log[c].proof \in WentOut(c)
              /\ log[c].status # "queued" /\ ~Unnoted(c) => log[c].proof \in WentOut(c)
            BY <2>1 DEF LogInv
        <2>6. QED
            BY <1>1, <1>5, <2>2, <2>3, <2>4, <2>5
    <1>6. ASSUME NEW s \in Streams, NotesAck(s, c)
          PROVE  log'[c].status = "acked" /\ log'[c].proof = log[c].proof /\ pushed[c] # << >>
        <2>1. Head(acks[s]) \in TrueAcks(s)
            BY <1>6, HeadTailProperties DEF NotesAck, AckInv
        <2>2. QED
            BY <1>6, <2>1 DEF NotesAck, TrueAcks
    <1>7. CASE log'[c] = log[c]
        <2>1. log[c] \in Records
            BY <1>7, RecordOrNone
        <2>2. QED
            BY <1>3, <1>4, <1>5, <1>7, <2>1
    <1>8. QED
        BY <1>2, <1>3, <1>4, <1>5, <1>6, <1>7, LogWrites

\* While the cache holds every command there is, it holds every one that ran.
LEMMA ReplayStep ==
    ASSUME TypeOK, ReplayInv, Next
    PROVE  ReplayInv'
    <1> SUFFICES ASSUME IsFiniteSet(Cmds), Cardinality(Cmds) <= ReplayCap, NEW s \in Streams, NEW c \in Cmds
                 PROVE  /\ ran'[s][c] <= 1
                        /\ ran'[s][c] > 0 => c \in replay'[s] /\ link'[s] # "none"
        BY DEF ReplayInv
    <1>1. ran[s][c] \in Nat /\ ran[s][c] <= 1 /\ (ran[s][c] > 0 => c \in replay[s] /\ link[s] # "none")
        BY DEF ReplayInv, TypeOK
    <1>2. ASSUME NEW o \in Streams, AgentDial(o)
          PROVE  /\ o = s => link[s] = "none"
                 /\ o # s => replay'[s] = replay[s]
                 /\ link[s] # "none" => link'[s] # "none"
        BY <1>2 DEF AgentDial, TypeOK
    <1>3. ASSUME link[s] # "none" PROVE link'[s] # "none"
        <2>1. ASSUME NEW o \in Streams, Break(o) \/ Admit(o) PROVE link'[s] # "none"
            BY <1>3, <2>1 DEF Break, Admit, TypeOK
        <2>2. QED
            BY <1>2, <1>3, <2>1, Writers
    <1>4. ASSUME NEW o \in Streams, NEW d \in Cmds, Remember(o, d)
          PROVE  replay[s] \subseteq replay'[s] /\ (o = s => d \in replay'[s])
        <2>1. replay[o] \cup {d} \subseteq Cmds
            BY DEF TypeOK
        <2>2. IsFiniteSet(replay[o] \cup {d}) /\ Cardinality(replay[o] \cup {d}) <= Cardinality(Cmds)
            BY <2>1, FS_Subset
        <2>3. ~(Cardinality(replay[o] \cup {d}) > ReplayCap)
            BY <2>2, FS_CardinalityType, NumbersAssumption
        <2>4. QED
            BY <1>4, <2>3, RememberTyped
    <1>5. CASE AgentReceive(s)
        <2> DEFINE d == Heard(s).cmd
        <2>1. d \in Cmds
            BY <1>5, ReceiveCases DEF Envelopes
        <2> HIDE DEF d
        <2>2. CASE replay' = replay /\ ran' = ran
            BY <1>1, <1>3, <2>2
        <2>3. CASE Remember(s, d) /\ ran' = ran
            BY <1>1, <1>3, <1>4, <2>1, <2>3
        <2>4. CASE d \notin replay[s] /\ Remember(s, d) /\ ran' = [ran EXCEPT ![s][d] = @ + 1]
            <3>1. CASE d = c
                <4>1. ran[s][c] = 0
                    BY <1>1, <2>4, <3>1
                <4>2. ran'[s][c] = 1
                    <5>1. ran'[s][d] = ran[s][d] + 1
                        BY <2>1, <2>4, RanTyped
                    <5>2. QED
                        BY <3>1, <4>1, <5>1
                <4>3. link'[s] # "none"
                    BY <1>5 DEF AgentReceive
                <4>4. QED
                    BY <1>4, <2>1, <2>4, <3>1, <4>2, <4>3
            <3>2. CASE d # c
                <4>1. ran'[s][c] = ran[s][c]
                    BY <2>1, <2>4, <3>2, RanTyped
                <4>2. QED
                    BY <1>1, <1>3, <1>4, <2>1, <2>4, <4>1
            <3>3. QED
                BY <3>1, <3>2
        <2>5. QED
            BY <1>5, <2>2, <2>3, <2>4, ReceiveCases DEF d
    <1>6. ASSUME NEW o \in Streams \ {s}, AgentReceive(o)
          PROVE  replay[s] \subseteq replay'[s] /\ ran'[s][c] = ran[s][c]
        <2> DEFINE d == Heard(o).cmd
        <2>1. d \in Cmds
            BY <1>6, ReceiveCases DEF Envelopes
        <2> HIDE DEF d
        <2>2. replay' = replay \/ Remember(o, d)
            BY <1>6, ReceiveCases DEF d
        <2>3. ran' = ran \/ ran' = [ran EXCEPT ![o][d] = @ + 1]
            BY <1>6, ReceiveCases DEF d
        <2>4. replay[s] \subseteq replay'[s]
            BY <1>4, <2>1, <2>2
        <2>5. ran'[s][c] = ran[s][c]
            BY <1>6, <2>1, <2>3, RanTyped
        <2>6. QED
            BY <2>4, <2>5
    <1>7. CASE ~Receiving
        <2>1. ran' = ran
            BY <1>7, Writers
        <2>2. replay' = replay \/ \E o \in Streams : AgentDial(o)
            BY <1>7, Writers
        <2>3. QED
            BY <1>1, <1>2, <1>3, <2>1, <2>2
    <1>8. QED
        BY <1>1, <1>3, <1>5, <1>6, <1>7 DEF Receiving

\* An accepted record was accepted by a true answer, which it still holds.
LEMMA AcceptedStep ==
    ASSUME TypeOK, AckInv, AcceptedMeansRun, Next
    PROVE  AcceptedMeansRun'
    <1> SUFFICES ASSUME NEW c \in Cmds, log'[c].status # "none", log'[c].accepted
                 PROVE  (\E s \in Streams : ran'[s][c] > 0) /\ log'[c].ack.accepted
        BY DEF AcceptedMeansRun
    <1>1. \A s \in Streams : ran[s][c] \in Nat /\ ran'[s][c] \in Nat /\ ran[s][c] <= ran'[s][c]
        <2>1. ran \in [Streams -> [Cmds -> Nat]]
            BY DEF TypeOK
        <2>2. TypeOK'
            BY StepTyped
        <2>3. ran' \in [Streams -> [Cmds -> Nat]]
            BY <2>2 DEF TypeOK
        <2>4. \A s \in Streams : ran[s][c] <= ran'[s][c]
            BY StepGrows
        <2>5. QED
            BY <2>1, <2>3, <2>4
    <1>2. ASSUME log[c].status # "none", log[c].accepted, log'[c].ack = log[c].ack
          PROVE  (\E s \in Streams : ran'[s][c] > 0) /\ log'[c].ack.accepted
        BY <1>1, <1>2 DEF AcceptedMeansRun
    <1>3. CASE log'[c] = log[c]
        BY <1>2, <1>3
    <1>4. CASE Signs(c)
        BY <1>4 DEF Signs
    <1>5. ASSUME log[c] \in Records, NotesIssue(c) \/ \E s \in Streams : NotesFlush(s, c)
          PROVE  (\E s \in Streams : ran'[s][c] > 0) /\ log'[c].ack.accepted
        <2>1. log[c].status # "none"
            BY <1>5, RecordOrNone
        <2>2. log[c].accepted /\ log'[c].ack = log[c].ack
            BY <1>5 DEF NotesIssue, NotesFlush
        <2>3. QED
            BY <1>2, <2>1, <2>2
    <1>6. ASSUME NEW s \in Streams, NotesAck(s, c)
          PROVE  ran'[s][c] > 0 /\ log'[c].ack.accepted
        <2>1. Head(acks[s]) \in TrueAcks(s)
            BY <1>6, HeadTailProperties DEF NotesAck, AckInv
        <2>2. log'[c].ack = Head(acks[s]) /\ Head(acks[s]).accepted /\ Head(acks[s]).cmd = c
            BY <1>6 DEF NotesAck
        <2>3. ran[s][c] > 0
            BY <2>1, <2>2 DEF TrueAcks
        <2>4. QED
            BY <1>1, <2>2, <2>3
    <1>7. QED
        BY <1>3, <1>4, <1>5, <1>6, LogWrites

-----------------------------------------------------------------------------
(***************************************************************************)
(* The theorems.                                                           *)
(***************************************************************************)

LEMMA InitInv == Init => IInv
    <1> SUFFICES ASSUME Init PROVE IInv
        OBVIOUS
    <1>1. TypeOK
        <2>1. << >> \in Seq(Envelopes) /\ << >> \in Seq(Acks) /\ << >> \in Seq(0..MaxNow) /\ Len(<< >>) = 0
            BY EmptySeq
        <2>2. [pc |-> "idle", todo |-> {}] \in Flushes /\ Idle \in Handlers
            BY DEF Flushes, Handlers
        <2>3. 0 \in 0..MaxNow /\ 0 <= ChanCap
            BY NumbersAssumption
        <2>4. QED
            BY <2>1, <2>2, <2>3 DEF Init, TypeOK
    <1>2. SignedInv /\ FlushInv
        BY DEF Init, SignedInv, FlushInv
    <1>3. OutInv /\ AckInv
        BY EmptySeq DEF Init, OutInv, AckInv
    <1>4. LogInv /\ AcceptedMeansRun
        BY DEF Init, LogInv, AcceptedMeansRun, NoRecord
    <1>5. ReplayInv
        BY DEF Init, ReplayInv
    <1>6. QED
        BY <1>1, <1>2, <1>3, <1>4, <1>5 DEF IInv

LEMMA NextInv == IInv /\ [Next]_vars => IInv'
    <1> SUFFICES ASSUME IInv, [Next]_vars PROVE IInv'
        OBVIOUS
    <1>1. CASE Next
        BY <1>1, StepTyped, SignedStep, FlushStep, OutStep, AckStep, LogStep, ReplayStep, AcceptedStep DEF IInv
    <1>2. CASE UNCHANGED vars
        <2> USE <1>2 DEF vars, serverVars, agentVars, netVars, devVars, IInv
        <2>1. TypeOK'
            BY DEF TypeOK
        <2>2. SignedInv' /\ FlushInv'
            BY DEF SignedInv, FlushInv
        <2>3. OutInv' /\ AckInv'
            BY DEF OutInv, OutThere, WentOut, Env, AckInv, TrueAcks
        <2>4. LogInv' /\ AcceptedMeansRun'
            BY DEF LogInv, PushUnrecorded, Unnoted, WentOut, AcceptedMeansRun
        <2>5. ReplayInv'
            BY DEF ReplayInv
        <2>6. QED
            BY <2>1, <2>2, <2>3, <2>4, <2>5
    <1>3. QED
        BY <1>1, <1>2

\* The inductive invariant holds of every reachable state.
THEOREM Invariance == Spec => []IInv
    BY InitInv, NextInv, PTL DEF Spec

\* Each variable of the delivery path keeps its shape, and no channel outgrows its capacity.
THEOREM TypeCorrect == Spec => []TypeOK
    <1>1. IInv => TypeOK
        BY DEF IInv
    <1>2. QED
        BY <1>1, Invariance, PTL

\* A record says "queued" exactly while nothing of its command went out, and the proof it
\* holds is of an envelope that did, whatever order issueCommand, flushQueued and noteAck write
\* in; any of their writes may fail, and then only that much is lost as LogFollowsWire says.
THEOREM LogIsRight == Spec => []LogFollowsWire
    <1>1. ASSUME IInv, NEW c \in Cmds
          PROVE  /\ issuer[c] # "idle" =>
                    /\ pushed[c] = << >> => log[c].status = "queued"
                    /\ log[c].status = "queued" /\ ~Unnoted(c) => pushed[c] = << >>
                 /\ log[c].status \in {"sent", "acked"} =>
                    /\ ~Unnoted(c) => log[c].proof \in WentOut(c)
                    /\ log[c].proof \in WentOut(c) \cup {issued[c]}
        <2>1. issuer[c] = "idle" <=> log[c] = NoRecord
            BY <1>1 DEF IInv, SignedInv
        <2>2. log[c] # NoRecord =>
                 /\ log[c].status # "queued" => pushed[c] # << >>
                 /\ log[c].status = "queued" /\ pushed[c] # << >> => Unnoted(c)
                 /\ log[c].proof = issued[c] \/ log[c].proof \in WentOut(c)
                 /\ log[c].status # "queued" /\ ~Unnoted(c) => log[c].proof \in WentOut(c)
            BY <1>1 DEF IInv, LogInv
        <2>3. QED
            BY <2>1, <2>2 DEF NoRecord
    <1>2. IInv => LogFollowsWire
        BY <1>1 DEF LogFollowsWire, QueuedMeansUnsent, ProofWentOut
    <1>3. QED
        BY <1>2, Invariance, PTL

\* However often a command is pushed, it runs at most once per stream while the replay cache
\* holds every id, and what the log calls accepted was run, with the answer it holds.
THEOREM RunsAreRight == Spec => []RunsMatchAnswers
    <1>1. IInv => RunsMatchAnswers
        BY DEF IInv, ReplayInv, RunsMatchAnswers, RunOncePerStream
    <1>2. QED
        BY <1>1, Invariance, PTL
=============================================================================
