-------------------------- MODULE CommandDelivery --------------------------
(***************************************************************************)
(* Signed commands from the console to one agent and back:                 *)
(* internal/control/commands.go, hub.go and server.go (Connect),           *)
(* internal/cmdlog, the command rows of internal/storepg/store.go, and the *)
(* agent's stream loop in cmd/defendsec-agentd.                            *)
(*                                                                         *)
(* Devices share no state on this path (the hub and the log are keyed by   *)
(* device), so one device is modelled, with the streams it opens one after *)
(* another.  Every issueCommand call, every Connect call (its flush, its   *)
(* send loop and its receive goroutine) and the agent run concurrently;    *)
(* between the push of an envelope and the two writes that record it       *)
(* anything may happen, and each of those writes may fail: nobody looks at *)
(* their errors.                                                           *)
(*                                                                         *)
(* An envelope is the command and the second it was signed in: the         *)
(* signature, the expiry (Ttl later) and the payload follow from those.    *)
(* The text of a record or of an acknowledgement is one of a few words.    *)
(***************************************************************************)
EXTENDS Integers, Sequences, FiniteSets

CONSTANTS
    Cmds,       \* command ids, one issueCommand request each
    Streams,    \* the streams the agent opens, one Connect call each
    NoStream,
    ChanCap,    \* capacity of a hub channel (16)
    ReplayCap,  \* ids the agent's replay cache holds (256)
    Ttl,        \* life of an envelope (2 minutes)
    MaxNow,     \* bound: the clock stops here
    PgOutcomes, \* {TRUE}: Postgres always answers; {TRUE, FALSE}: a statement may fail
    MaxMissed   \* bound: failed writes of the log that no later one has made good

ASSUME StreamsAssumption == NoStream \notin Streams

ASSUME NumbersAssumption ==
    /\ ChanCap \in Nat \ {0}
    /\ ReplayCap \in Nat \ {0}
    /\ Ttl \in Nat
    /\ MaxNow \in Nat
    /\ PgOutcomes \subseteq BOOLEAN /\ PgOutcomes # {}
    /\ MaxMissed \in Nat

VARIABLES
    now,        \* the clock, in seconds
    issuer,     \* where each issueCommand call is
    issued,     \* the second in which issueCommand signed each command
    log,        \* cmdlog.File: the record of each command
    missed,     \* what the log was not told, a write having failed: <<command, "push" or "ack">>
    rows,       \* the row of each command in Postgres
    hub,        \* Hub.streams: the registered stream
    chan,       \* the buffered channel of each stream
    conn,       \* where each Connect call is
    flush,      \* flushQueued of each Connect call
    handler,    \* noteAck of each receive goroutine
    link,       \* "none" before the agent dials, "up", "down" once it broke
    wire,       \* envelopes sent on each stream and not yet received
    acks,       \* acknowledgements sent on each stream and not yet received
    replay,     \* the agent's replay cache of each stream
    ran,        \* how often each command was carried out on each stream
    pushed,     \* the envelopes of each command put on a channel, in order
    connected,  \* the device's connected flag (presence file and devices row)
    revoked     \* the device's certificate is in revoked_certs

serverVars == <<issuer, issued, log, missed, rows, hub, chan, conn, flush, handler, pushed>>
agentVars  == <<replay, ran>>
netVars    == <<link, wire, acks>>
devVars    == <<connected, revoked>>
vars == <<now, serverVars, agentVars, netVars, devVars>>

Env(c, t) == [cmd |-> c, at |-> t]
Ack(c, accepted, msg) == [cmd |-> c, accepted |-> accepted, msg |-> msg]
NoAck == [cmd |-> "none"]
NoRecord == [status |-> "none"]
Idle == [pc |-> "idle"]

-----------------------------------------------------------------------------
Init ==
    /\ now = 0
    /\ issuer = [c \in Cmds |-> "idle"]
    /\ issued = [c \in Cmds |-> 0]
    /\ log = [c \in Cmds |-> NoRecord]
    /\ missed = {}
    /\ rows = [c \in Cmds |-> NoRecord]
    /\ hub = NoStream
    /\ chan = [s \in Streams |-> << >>]
    /\ conn = [s \in Streams |-> "new"]
    /\ flush = [s \in Streams |-> [pc |-> "idle", todo |-> {}]]
    /\ handler = [s \in Streams |-> Idle]
    /\ link = [s \in Streams |-> "none"]
    /\ wire = [s \in Streams |-> << >>]
    /\ acks = [s \in Streams |-> << >>]
    /\ replay = [s \in Streams |-> {}]
    /\ ran = [s \in Streams |-> [c \in Cmds |-> 0]]
    /\ pushed = [c \in Cmds |-> << >>]
    /\ connected = FALSE
    /\ revoked = FALSE

(***************************************************************************)
(* Hub.Send: FALSE when no stream is registered or its channel is full.    *)
(* The registered channel is looked up under the mutex and written after   *)
(* it; a message put on a channel whose stream has just ended is lost as   *)
(* one put there just before, so the two are one step.                     *)
(***************************************************************************)
CanSend == hub # NoStream /\ Len(chan[hub]) < ChanCap

\* pushSigned: the envelope and its signature go out as they were signed.
Push(env) ==
    /\ CanSend
    /\ chan' = [chan EXCEPT ![hub] = Append(@, env)]
    /\ pushed' = [pushed EXCEPT ![env.cmd] = Append(@, env.at)]

NotPushed == ~CanSend /\ UNCHANGED <<chan, pushed>>

\* cmdlog.File.Update: an unknown id is left alone.  The file may fail to be read
\* or written; every caller throws the error away and goes on.
UpdateLog(c, what, rec) ==
    \/ /\ log' = IF log[c].status = "none" THEN log ELSE [log EXCEPT ![c] = rec]
       /\ missed' = missed \ {<<c, what>>}
    \/ /\ Cardinality(missed) < MaxMissed
       /\ missed' = missed \cup {<<c, what>>} /\ UNCHANGED log

\* A statement on the command's row: nothing happens when it fails, or when
\* the row was never inserted.
UpdateRow(c, rec) ==
    \E ok \in PgOutcomes :
        rows' = IF ok /\ rows[c].status # "none" THEN [rows EXCEPT ![c] = rec] ELSE rows

-----------------------------------------------------------------------------
(***************************************************************************)
(* issueCommand.                                                           *)
(***************************************************************************)

\* An allowed, valid command is signed and its record appended to the log; when
\* that fails the request is refused and there is no such command.
IssueAppend(c) ==
    /\ issuer[c] = "idle"
    /\ issued' = [issued EXCEPT ![c] = now]
    /\ log' = [log EXCEPT ![c] = [status |-> "queued", accepted |-> FALSE,
                                  msg |-> "waiting", proof |-> now, ack |-> NoAck]]
    /\ issuer' = [issuer EXCEPT ![c] = "appended"]
    /\ UNCHANGED <<now, missed, rows, hub, chan, conn, flush, handler, pushed, agentVars, netVars, devVars>>

\* syncCommand: INSERT ... ON CONFLICT DO NOTHING of the record as it was built,
\* whatever has happened to the one in the log since.
IssueSync(c) ==
    /\ issuer[c] = "appended"
    /\ \E ok \in PgOutcomes :
        rows' = IF ok THEN [rows EXCEPT ![c] = [status |-> "queued", accepted |-> FALSE,
                                msg |-> "waiting", proof |-> issued[c], ack |-> NoAck]]
                ELSE rows
    /\ issuer' = [issuer EXCEPT ![c] = "synced"]
    /\ UNCHANGED <<now, issued, log, missed, hub, chan, conn, flush, handler, pushed, agentVars, netVars, devVars>>

IssuePush(c) ==
    /\ issuer[c] = "synced"
    /\ \/ Push(Env(c, issued[c])) /\ issuer' = [issuer EXCEPT ![c] = "pushed"]
       \/ NotPushed /\ issuer' = [issuer EXCEPT ![c] = "done"]
    /\ UNCHANGED <<now, issued, log, missed, rows, hub, conn, flush, handler, agentVars, netVars, devVars>>

IssueUpdateLog(c) ==
    /\ issuer[c] = "pushed"
    /\ UpdateLog(c, "push", [log[c] EXCEPT !.status = "sent", !.msg = "pushed"])
    /\ issuer' = [issuer EXCEPT ![c] = "logged"]
    /\ UNCHANGED <<now, issued, rows, hub, chan, conn, flush, handler, pushed, agentVars, netVars, devVars>>

\* pg.UpdateCommand(id, "sent", false, message).
IssueUpdateRow(c) ==
    /\ issuer[c] = "logged"
    /\ UpdateRow(c, [rows[c] EXCEPT !.status = "sent", !.accepted = FALSE, !.msg = "pushed"])
    /\ issuer' = [issuer EXCEPT ![c] = "done"]
    /\ UNCHANGED <<now, issued, log, missed, hub, chan, conn, flush, handler, pushed, agentVars, netVars, devVars>>

-----------------------------------------------------------------------------
(***************************************************************************)
(* Connect: admission, registration, the flush of what is queued, the send *)
(* loop, and the deferred Unregister and SetConnected(false).              *)
(***************************************************************************)

\* ensureNotRevoked: a revoked certificate is refused.
Admit(s) ==
    /\ conn[s] = "new" /\ link[s] # "none"
    /\ IF revoked
         THEN /\ conn' = [conn EXCEPT ![s] = "closed"]
              /\ link' = [link EXCEPT ![s] = "down"]
         ELSE /\ conn' = [conn EXCEPT ![s] = "admitted"]
              /\ UNCHANGED link
    /\ UNCHANGED <<now, issuer, issued, log, missed, rows, hub, chan, flush, handler, pushed, agentVars,
                   wire, acks, devVars>>

\* SetConnected(true), then Hub.Register: the newest stream replaces any other.
Register(s) ==
    /\ conn[s] = "admitted"
    /\ conn' = [conn EXCEPT ![s] = "registered"]
    /\ hub' = s
    /\ connected' = TRUE
    /\ UNCHANGED <<now, issuer, issued, log, missed, rows, chan, flush, handler, pushed, agentVars,
                   netVars, revoked>>

\* commands.Pending: the records queued at that moment; none when the log cannot be read.
Pending == {c \in Cmds : log[c].status = "queued"}

FlushStart(s) ==
    /\ conn[s] = "registered"
    /\ conn' = [conn EXCEPT ![s] = "flushing"]
    /\ \E todo \in {Pending, {}} : flush' = [flush EXCEPT ![s] = [pc |-> "next", todo |-> todo]]
    /\ UNCHANGED <<now, issuer, issued, log, missed, rows, hub, chan, handler, pushed, agentVars, netVars, devVars>>

\* Re-sign one of them and push it on whatever stream is registered now.
FlushPush(s, c) ==
    /\ flush[s].pc = "next" /\ c \in flush[s].todo
    /\ \/ /\ Push(Env(c, now))
          /\ flush' = [flush EXCEPT ![s] = [pc |-> "pushed", todo |-> @.todo \ {c},
                                            cmd |-> c, at |-> now]]
       \/ /\ NotPushed
          /\ flush' = [flush EXCEPT ![s].todo = @ \ {c}]
    /\ UNCHANGED <<now, issuer, issued, log, missed, rows, hub, conn, handler, agentVars, netVars, devVars>>

\* Mutant of FlushUpdateLog: the record stays queued.
FlushUpdateLogQueued(s) ==
    /\ flush[s].pc = "pushed"
    /\ LET c == flush[s].cmd IN
       UpdateLog(c, "push", [log[c] EXCEPT !.msg = "flushed", !.proof = flush[s].at])
    /\ flush' = [flush EXCEPT ![s].pc = "logged"]
    /\ UNCHANGED <<now, issuer, issued, rows, hub, chan, conn, handler, pushed, agentVars, netVars, devVars>>

FlushUpdateLog(s) ==
    /\ flush[s].pc = "pushed"
    /\ LET c == flush[s].cmd IN
       UpdateLog(c, "push", [log[c] EXCEPT !.status = "sent", !.msg = "flushed", !.proof = flush[s].at])
    /\ flush' = [flush EXCEPT ![s].pc = "logged"]
    /\ UNCHANGED <<now, issuer, issued, rows, hub, chan, conn, handler, pushed, agentVars, netVars, devVars>>

\* pg.RecordCommandProof: the proof only; the row's status is not touched.
FlushUpdateRow(s) ==
    /\ flush[s].pc = "logged"
    /\ LET c == flush[s].cmd IN UpdateRow(c, [rows[c] EXCEPT !.proof = flush[s].at])
    /\ flush' = [flush EXCEPT ![s] = [pc |-> "next", todo |-> @.todo]]
    /\ UNCHANGED <<now, issuer, issued, log, missed, hub, chan, conn, handler, pushed, agentVars, netVars, devVars>>

\* flushQueued returns; the receive goroutine and the send loop start.
FlushEnd(s) ==
    /\ flush[s].pc = "next" /\ flush[s].todo = {}
    /\ flush' = [flush EXCEPT ![s].pc = "idle"]
    /\ conn' = [conn EXCEPT ![s] = "serving"]
    /\ UNCHANGED <<now, issuer, issued, log, missed, rows, hub, chan, handler, pushed, agentVars, netVars, devVars>>

\* case msg := <-ch: stream.Send(msg)
ServeSend(s) ==
    /\ conn[s] = "serving" /\ chan[s] # << >> /\ link[s] = "up"
    /\ chan' = [chan EXCEPT ![s] = Tail(@)]
    /\ wire' = [wire EXCEPT ![s] = Append(@, Head(chan[s]))]
    /\ UNCHANGED <<now, issuer, issued, log, missed, rows, hub, conn, flush, handler, pushed, agentVars,
                   link, acks, devVars>>

\* The stream's context or a failed Send or Recv ends the loop.
ServeEnd(s) ==
    /\ conn[s] = "serving" /\ link[s] = "down"
    /\ conn' = [conn EXCEPT ![s] = "ending"]
    /\ UNCHANGED <<now, issuer, issued, log, missed, rows, hub, chan, flush, handler, pushed, agentVars, netVars, devVars>>

\* Deferred: Unregister removes the device only if this stream's channel is
\* still the registered one.
Unregister(s) ==
    /\ conn[s] = "ending"
    /\ hub' = IF hub = s THEN NoStream ELSE hub
    /\ conn' = [conn EXCEPT ![s] = "unregistered"]
    /\ UNCHANGED <<now, issuer, issued, log, missed, rows, chan, flush, handler, pushed, agentVars, netVars, devVars>>

Disconnected(s) ==
    /\ conn[s] = "unregistered"
    /\ conn' = [conn EXCEPT ![s] = "closed"]
    /\ connected' = FALSE
    /\ UNCHANGED <<now, issuer, issued, log, missed, rows, hub, chan, flush, handler, pushed, agentVars, netVars, revoked>>

-----------------------------------------------------------------------------
(***************************************************************************)
(* noteAck in the receive goroutine: the log, the row, the row's proof.    *)
(* The acknowledgement is recorded whatever the record held.               *)
(***************************************************************************)

NoteAckLog(s) ==
    /\ conn[s] = "serving"
    /\ handler[s] = Idle /\ acks[s] # << >>
    /\ LET a == Head(acks[s]) IN
       /\ UpdateLog(a.cmd, "ack", [log[a.cmd] EXCEPT !.status = "acked", !.accepted = a.accepted,
                                                     !.msg = a.msg, !.ack = a])
       /\ handler' = [handler EXCEPT ![s] = [pc |-> "row", ack |-> a]]
    /\ acks' = [acks EXCEPT ![s] = Tail(@)]
    /\ UNCHANGED <<now, issuer, issued, rows, hub, chan, conn, flush, pushed, agentVars, link, wire, devVars>>

NoteAckRow(s) ==
    /\ handler[s].pc = "row"
    /\ LET a == handler[s].ack IN
       UpdateRow(a.cmd, [rows[a.cmd] EXCEPT !.status = "acked", !.accepted = a.accepted, !.msg = a.msg])
    /\ handler' = [handler EXCEPT ![s].pc = "proof"]
    /\ UNCHANGED <<now, issuer, issued, log, missed, hub, chan, conn, flush, pushed, agentVars, netVars, devVars>>

\* Mutant of NoteAckProof: the receive goroutine returns after one acknowledgement.
NoteAckProofReturns(s) ==
    /\ handler[s].pc = "proof"
    /\ LET a == handler[s].ack IN UpdateRow(a.cmd, [rows[a.cmd] EXCEPT !.ack = a])
    /\ handler' = [handler EXCEPT ![s] = [pc |-> "returned"]]
    /\ UNCHANGED <<now, issuer, issued, log, missed, hub, chan, conn, flush, pushed, agentVars, netVars, devVars>>

NoteAckProof(s) ==
    /\ handler[s].pc = "proof"
    /\ LET a == handler[s].ack IN UpdateRow(a.cmd, [rows[a.cmd] EXCEPT !.ack = a])
    /\ handler' = [handler EXCEPT ![s] = Idle]
    /\ UNCHANGED <<now, issuer, issued, log, missed, hub, chan, conn, flush, pushed, agentVars, netVars, devVars>>

-----------------------------------------------------------------------------
(***************************************************************************)
(* The agent and the network.                                              *)
(***************************************************************************)

\* runStream dials again once its stream has failed; attachStream starts with
\* an empty replay cache.
AgentDial(s) ==
    /\ link[s] = "none"
    /\ \A o \in Streams : link[o] # "up"
    /\ link' = [link EXCEPT ![s] = "up"]
    /\ replay' = [replay EXCEPT ![s] = {}]
    /\ UNCHANGED <<now, serverVars, ran, wire, acks, devVars>>

\* The connection breaks: what is in flight in either direction is lost.  The
\* server finds out later, the agent at once.
Break(s) ==
    /\ link[s] = "up"
    /\ link' = [link EXCEPT ![s] = "down"]
    /\ wire' = [wire EXCEPT ![s] = << >>]
    /\ acks' = [acks EXCEPT ![s] = << >>]
    /\ UNCHANGED <<now, serverVars, agentVars, devVars>>

Expired(env) == now > env.at + Ttl

\* Mutant of AgentReceive: the id is not remembered.
AgentReceiveForgets(s) ==
    /\ link[s] = "up" /\ wire[s] # << >>
    /\ LET env == Head(wire[s]) IN
       /\ acks' = [acks EXCEPT ![s] = Append(@, Ack(env.cmd, ~Expired(env),
                                                 IF Expired(env) THEN "expired" ELSE "result"))]
       /\ ran' = [ran EXCEPT ![s][env.cmd] = @ + (IF Expired(env) THEN 0 ELSE 1)]
    /\ wire' = [wire EXCEPT ![s] = Tail(@)]
    /\ UNCHANGED <<now, serverVars, replay, link, devVars>>

\* replayCache.remember: a cache over its capacity is emptied of all but the newest id.
Remember(s, c) ==
    replay' = [replay EXCEPT ![s] = IF Cardinality(@ \cup {c}) > ReplayCap THEN {c} ELSE @ \cup {c}]

\* executeCommand: an expired envelope and a remembered id are refused; anything
\* else is remembered and carried out, or fails; each is acknowledged.
AgentReceive(s) ==
    /\ link[s] = "up" /\ wire[s] # << >>
    /\ LET env == Head(wire[s])
           answer(accepted, msg) == acks' = [acks EXCEPT ![s] = Append(@, Ack(env.cmd, accepted, msg))]
       IN \/ /\ Expired(env)
             /\ answer(FALSE, "expired")
             /\ UNCHANGED agentVars
          \/ /\ ~Expired(env) /\ env.cmd \in replay[s]
             /\ answer(FALSE, "replayed")
             /\ UNCHANGED agentVars
          \/ /\ ~Expired(env) /\ env.cmd \notin replay[s]
             /\ answer(TRUE, "result")
             /\ Remember(s, env.cmd)
             /\ ran' = [ran EXCEPT ![s][env.cmd] = @ + 1]
          \/ /\ ~Expired(env) /\ env.cmd \notin replay[s]
             /\ answer(FALSE, "failed")
             /\ Remember(s, env.cmd)
             /\ UNCHANGED ran
    /\ wire' = [wire EXCEPT ![s] = Tail(@)]
    /\ UNCHANGED <<now, serverVars, link, devVars>>

\* The agent's heartbeats are calls of their own, not messages on the stream.
Heartbeat ==
    /\ ~revoked
    /\ connected' = TRUE
    /\ UNCHANGED <<now, serverVars, agentVars, netVars, revoked>>

\* HandleRevoke: the certificate is listed and the device marked disconnected.
HandleRevoke ==
    /\ ~revoked
    /\ revoked' = TRUE
    /\ connected' = FALSE
    /\ UNCHANGED <<now, serverVars, agentVars, netVars>>

Tick ==
    /\ now < MaxNow
    /\ now' = now + 1
    /\ UNCHANGED <<serverVars, agentVars, netVars, devVars>>

-----------------------------------------------------------------------------
IssueStep(c) == IssueSync(c) \/ IssuePush(c) \/ IssueUpdateLog(c) \/ IssueUpdateRow(c)

ConnStep(s) ==
    \/ Admit(s) \/ Register(s) \/ FlushStart(s) \/ (\E c \in Cmds : FlushPush(s, c))
    \/ FlushUpdateLog(s) \/ FlushUpdateRow(s) \/ FlushEnd(s)
    \/ ServeSend(s) \/ ServeEnd(s) \/ Unregister(s) \/ Disconnected(s)

NoteAck(s) == NoteAckLog(s) \/ NoteAckRow(s) \/ NoteAckProof(s)

Next ==
    \/ \E c \in Cmds : IssueAppend(c)
    \/ \E c \in Cmds : IssueSync(c)
    \/ \E c \in Cmds : IssuePush(c)
    \/ \E c \in Cmds : IssueUpdateLog(c)
    \/ \E c \in Cmds : IssueUpdateRow(c)
    \/ \E s \in Streams : Admit(s)
    \/ \E s \in Streams : Register(s)
    \/ \E s \in Streams : FlushStart(s)
    \/ \E s \in Streams, c \in Cmds : FlushPush(s, c)
    \/ \E s \in Streams : FlushUpdateLog(s)
    \/ \E s \in Streams : FlushUpdateRow(s)
    \/ \E s \in Streams : FlushEnd(s)
    \/ \E s \in Streams : ServeSend(s)
    \/ \E s \in Streams : ServeEnd(s)
    \/ \E s \in Streams : Unregister(s)
    \/ \E s \in Streams : Disconnected(s)
    \/ \E s \in Streams : NoteAckLog(s)
    \/ \E s \in Streams : NoteAckRow(s)
    \/ \E s \in Streams : NoteAckProof(s)
    \/ \E s \in Streams : AgentDial(s)
    \/ \E s \in Streams : Break(s)
    \/ \E s \in Streams : AgentReceive(s)
    \/ Heartbeat
    \/ HandleRevoke
    \/ Tick

Spec == Init /\ [][Next]_vars

(***************************************************************************)
(* Every goroutine that can run runs, the agent reads its stream, dials    *)
(* again after a failure and keeps sending heartbeats.  Nothing makes an   *)
(* administrator issue or revoke, or the network break.                    *)
(***************************************************************************)
FairSpec ==
    /\ Spec
    /\ \A c \in Cmds : WF_vars(IssueStep(c))
    /\ \A s \in Streams :
         WF_vars(ConnStep(s)) /\ WF_vars(NoteAck(s)) /\ WF_vars(AgentReceive(s)) /\ WF_vars(AgentDial(s))
    /\ WF_vars(Heartbeat)

-----------------------------------------------------------------------------
(***************************************************************************)
(* Properties.                                                             *)
(***************************************************************************)

Envelopes == [cmd: Cmds, at: 0..MaxNow]
Acks == [cmd: Cmds, accepted: BOOLEAN, msg: {"result", "failed", "expired", "replayed"}]
Records ==
    [status: {"queued", "sent", "acked"}, accepted: BOOLEAN,
     msg: {"waiting", "pushed", "flushed", "result", "failed", "expired", "replayed"},
     proof: 0..MaxNow, ack: {NoAck} \cup Acks]

Flushes == [pc: {"idle", "next"}, todo: SUBSET Cmds]
           \cup [pc: {"pushed", "logged"}, todo: SUBSET Cmds, cmd: Cmds, at: 0..MaxNow]
Handlers == {Idle} \cup [pc: {"row", "proof"}, ack: Acks]

\* Each variable has the shape of the record, channel or call it stands for; no
\* channel holds more than the hub gave it room for.
TypeOK ==
    /\ now \in 0..MaxNow
    /\ issuer \in [Cmds -> {"idle", "appended", "synced", "pushed", "logged", "done"}]
    /\ issued \in [Cmds -> 0..MaxNow]
    /\ log \in [Cmds -> {NoRecord} \cup Records]
    /\ missed \subseteq Cmds \X {"push", "ack"}
    /\ rows \in [Cmds -> {NoRecord} \cup Records]
    /\ hub \in Streams \cup {NoStream}
    /\ chan \in [Streams -> Seq(Envelopes)]
    /\ \A s \in Streams : Len(chan[s]) <= ChanCap
    /\ conn \in [Streams -> {"new", "admitted", "registered", "flushing", "serving", "ending",
                             "unregistered", "closed"}]
    /\ flush \in [Streams -> Flushes]
    /\ handler \in [Streams -> Handlers]
    /\ link \in [Streams -> {"none", "up", "down"}]
    /\ wire \in [Streams -> Seq(Envelopes)]
    /\ acks \in [Streams -> Seq(Acks)]
    /\ replay \in [Streams -> SUBSET Cmds]
    /\ ran \in [Streams -> [Cmds -> Nat]]
    /\ pushed \in [Cmds -> Seq(0..MaxNow)]
    /\ connected \in BOOLEAN /\ revoked \in BOOLEAN

\* A push of c whose record is not written yet.
PushUnrecorded(c) ==
    \/ issuer[c] = "pushed"
    \/ \E s \in Streams : flush[s].pc = "pushed" /\ flush[s].cmd = c

\* A push of c the log does not tell of: its record is not written yet, or could not be.
Unnoted(c) == PushUnrecorded(c) \/ <<c, "push">> \in missed

\* Every call that touches c has returned.
Settled(c) ==
    /\ issuer[c] \in {"idle", "done"}
    /\ \A s \in Streams :
         /\ flush[s].pc = "idle" /\ handler[s] = Idle
         /\ \A i \in 1..Len(chan[s]) : chan[s][i].cmd # c
         /\ \A i \in 1..Len(wire[s]) : wire[s][i].cmd # c
         /\ \A i \in 1..Len(acks[s]) : acks[s][i].cmd # c

WentOut(c) == {pushed[c][i] : i \in 1..Len(pushed[c])}

\* A record says "queued" while nothing of the command has gone out, or it would never
\* be flushed; and only then, or the next flush would send a command that already ran.
\* The exceptions are the window between a push and the write that follows it, and a
\* write that failed.
QueuedMeansUnsent ==
    \A c \in Cmds : issuer[c] # "idle" =>
        /\ pushed[c] = << >> => log[c].status = "queued"
        /\ log[c].status = "queued" /\ ~Unnoted(c) => pushed[c] = << >>

\* "the stored proof must track the envelope that actually went out": whatever
\* order issue, flush and acknowledgement write in, the proof kept in the log is
\* that of an envelope that was put on a stream.
ProofWentOut ==
    \A c \in Cmds : log[c].status \in {"sent", "acked"} =>
        /\ ~Unnoted(c) => log[c].proof \in WentOut(c)
        /\ log[c].proof \in WentOut(c) \cup {issued[c]}

\* The log follows the wire: a command that never went out is queued, one that is queued
\* never went out, and the proof the log holds is of an envelope that did (issueCommand,
\* flushQueued, noteAck).  Where the write of a push failed, the first of these is left,
\* and that the proof is of such an envelope or of the one signed first.
LogFollowsWire == QueuedMeansUnsent /\ ProofWentOut

\* However often an envelope of it is pushed, the agent carries out a command at
\* most once per stream, as long as its replay cache has not overflowed.
RunOncePerStream ==
    IsFiniteSet(Cmds) /\ Cardinality(Cmds) <= ReplayCap
        => \A s \in Streams, c \in Cmds : ran[s][c] <= 1

\* An acknowledgement the log holds as accepted is of a command the agent ran,
\* and a result kept next to it is the one that acknowledgement carried.
AcceptedMeansRun ==
    \A c \in Cmds : log[c].status # "none" /\ log[c].accepted
        => /\ \E s \in Streams : ran[s][c] > 0
           /\ log[c].ack.accepted

\* What the log says was carried out was, once and with that result: however often an
\* envelope is pushed, refused as a replay or acknowledged (allow, noteAck).
RunsMatchAnswers == RunOncePerStream /\ AcceptedMeansRun

\* An envelope on a stream's channel is sent, run or refused, acknowledged and
\* recorded, unless that stream breaks or the write of the acknowledgement fails:
\* noteAck does not try again.
AckedUnlessBroken ==
    \A s \in Streams, c \in Cmds :
        (\E i \in 1..Len(chan[s]) : chan[s][i].cmd = c)
            ~> (log[c].status = "acked" \/ link[s] # "up" \/ <<c, "ack">> \in missed)

(***************************************************************************)
(* What the documentation or a comment says and the code does not do.      *)
(***************************************************************************)

\* The offline verifier recomputes the signed result from the row (verifyAcks):
\* with an untouched database every acknowledgement on a row must match it.
EvidenceRowVerifies ==
    \A c \in Cmds : Settled(c) /\ rows[c].status # "none" /\ rows[c].ack # NoAck
        => /\ rows[c].ack.msg = rows[c].msg
           /\ rows[c].ack.accepted = rows[c].accepted

=============================================================================
