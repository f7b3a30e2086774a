# DefendSec in TLA+

Specifications, model-checking configurations and machine-checked proofs for
DefendSec, a self-hosted defensive security platform: a Go control plane
(`defendsec-apid`), an agent for Linux, Windows and macOS hosts
(`defendsec-agentd`), an offline evidence verifier (`defendsec-verify`), a web
console, and a Postgres database with a few JSON files beside it.

Every definition is a translation of the Go, SQL or TypeScript it is mapped to
in `PROJECT.json` ("map"). A sentence of a document or of a comment is never
modelled; where one disagrees with the code it is stated as a property, and the
run that refutes it is kept (see *Findings*).

## 1. Inventory

### Processes and how they interact

```
   browser ── web console ──REST──┐                      ┌── SSH probes, Microsoft Graph, Google, RMM
                                  ▼                      ▼
  agent ──mTLS gRPC (Enroll, ReportInventory,   defendsec-apid ──► Autotask, Slack/syslog/webhooks,
          Heartbeat, Connect stream)──────────►      │             anchor targets (log, file, S3, peer)
                                                     ▼
                      JSON files (presence, command log, alerts) + Postgres
                                                     ▼
                                   evidence bundle ──► defendsec-verify (offline)
```

`apid` is one process with many goroutines: one per HTTP request, one per gRPC
stream (plus its receive goroutine), and timers (checkpoint, anchoring,
retention, feed refresh, identity and RMM sync, Autotask schedule, forwarding).
They share three kinds of state, with three different kinds of protection:

* Postgres rows, under READ COMMITTED transactions, sometimes with an advisory lock;
* JSON stores (`presence`, `cmdlog`, `alerts`), each under one mutex per store;
* maps in memory (the hub of streams, batches of open alerts, run claims).

Nothing spans two of them atomically, which is where most hazards come from.

### Components

| component | state it keeps | operations | what makes it correct | here |
|---|---|---|---|---|
| Audit ledger (`storepg/store.go`, `auditchain`) | `audit_log`, `audit_checkpoints`, the advisory lock | Audit, auditInTx, AppendCheckpoint, VerifyAuditChain, ListAuditChain | dense hash chain under any interleaving; change and entry commit together; no false alarm | `AuditChain`, proved |
| Evidence bundle, offline verifier (`evidence`) | the bundle | ExportEvidence, Verify | an untouched database exports a bundle that verifies | audit part in `AuditChain`, command rows in `CommandDelivery`, surface section in `SurfaceScans` |
| Command delivery (`control/commands.go`, `hub.go`, `server.go`, `cmdlog`, `sign`) | command log, command rows, hub, channels | issueCommand, flushQueued, noteAck, Connect, HandleRevoke | at most one execution per stream; the record says what happened | `CommandDelivery`, proved |
| Agent (`cmd/defendsec-agentd`) | replay cache, one stream | runStream, executeCommand, heartbeats | refuses expired and repeated commands, answers each | in `CommandDelivery` |
| Device presence (`presence`, `storepg/devices.go`) | one record per device, in memory, in a file and in a table | ReportInventory, Heartbeat, AcceptBaseline, Seed | the copies come together; an accepted baseline is kept | `Presence`, proved |
| Alerts (`control/alerts.go`, `storepg/alerts.go`) | JSON store, table, batches | ensureAlert, resolveAlert, syncVulnAlerts | one open alert per device, kind and ref; alerts follow reports | `Alerts`, proved |
| Vulnerability matcher (`vuln`) | none | Match | a patched host is not flagged; a fix leads out; the order of rows does not matter | `Matcher` |
| Findings lifecycle (`storepg/findings.go`, `control/vuln.go`) | `vulnerability_findings`, intervals, the memory of the last match | RecordFindingsFor, matchDevice, refreshFindings | open exactly what the matches agree on; every interval kept | `Findings`, proved |
| Feeds (`feeds/runner`, `feeds/fetch`, `storepg/feeds.go`) | cache directory, feed tables, snapshots | Sync, process, settle, loads | a truncated download replaces nothing; KEV reaches every row; the data catches up | `FeedSync`, proved |
| Autotask tickets (`autotask`, `storepg/autotask.go`, `control/autotask.go`) | settings, dry runs, tracked tickets, the run claim | SetAutotaskSettings, Engine.Run, AutotaskCommit, RecordAutotaskRun | no duplicate ticket; rows describe their tickets; nothing live before a dry run | `Tickets`, proved |
| Log forwarding (`forward`) | queue, counters | Send, worker, Close | every record delivered once, in order, or counted | `Forwarder`, proved |
| Surface scanner (`surface`, `storepg/surface.go`, `control/surface.go`) | assets, claims, findings, scans | declare, confirm, revoke, RecordSurfaceScan | nothing recorded after a revocation; findings follow assessed checks; the bundle verifies | `SurfaceScans`, proved |
| Identity posture (`m365`, `gws`, `storepg/identity*.go`) | settings, claim, findings of a tenant | StartIdentityRun, RecordIdentityRun | a partial read resolves nothing it did not see | `IdentityRuns`, proved |
| RMM sync (`rmm`, `storepg/rmm.go`) | site settings, devices, update lists, findings | Sync, Rematch, retire | what is stored comes to what the site says | `RmmSync` |
| Checkpoint anchoring (`anchor`, `storepg/anchors.go`, `control/anchors.go`) | `audit_anchors`, what the targets hold | sign, publish, RecordAnchors, VerifyAnchors | an anchor on record is held by its target and matches what was signed | `Anchoring`, proved |
| Checks of a scan (`surface/email.go`, `dnshygiene.go`, `tlscheck.go`, `ports.go`) | none | one probe each | a question nobody answered decides nothing | `SurfaceChecks`, proved |
| API clients (`m365/graph`, `gws/google`, `autotask/client`, `rmm/datto`) | tokens, retries | paged reads, creates, updates | a call says what it did, reads whole lists, ends | `ApiCalls`, proved |
| Accounts (`storepg/users.go`, `control/setup.go`, `sso.go`, `identity.go`) | users, invites, sessions, the setup window | first-run setup, invitations, sign-in, disabling | one first administrator | `Accounts`, proved; passwords and tokens are not modelled |
| Exposure, lifecycle, repository health, configuration checks, controls, posture | none of their own | queries and pure assessments | – | not modelled (section 7) |
| Collectors, retention, metrics, keys, web console, packaging | host, network, files | I/O and rendering | – | not modelled (section 7) |

### What is hard in this code

Two transactions that must chain onto each other; readers that page without a
lock; two stores written one after the other; a push on a channel before the
record that says so; deferred clean-up of an old stream after a new one has
replaced it; bounded channels, caches and queues; calls to another system whose
answer may be lost; runs that saw only part of what they judge; a publication
outside the transaction that records it; a memory of the last match that is
checked before and stored after it. Each is listed at its line in
`PROJECT.json` ("hazards") with the property that watches it.

## 2. How the modules are built, and the plan

The order was that of importance: the ledger everything else appends to and the
promise the product is sold on; the only path that acts on a host; the only part
that writes into another company's system; then what decides what an operator
sees (matcher, findings, alerts, presence, scans, feeds, tenants), what leaves
the building (forwarding, anchors, API clients), and who may sign in. Each is a
module of its own with constants and named assumptions; where an abstract
specification says more than an invariant would, there is one (`AuditLedger`).

Parts that share no state are put together in one module that extends one of
them, takes the others with `INSTANCE`, and lets one of them work in a behaviour
(`Devices`, `Outside`, `Outbound`, `Console`, and `Surface`): the sum of their
state spaces and not the product. A composition has the parts' constants, says
nothing of their values, and restates the fairness of each part for the
behaviours in which it works; its theorems hold for all values, and those about the
module it extends hold of it (`SideBySide`, or stated of it at once). Its MC module
gives the values, restricts the initial states to one of those that are alike,
and assumes what the proofs assume of a part (`WellFormed`), so that TLC
evaluates it.

Proofs follow the same order, component by component, in a module of proofs
each (section 5). Of the parts without a module, the exposure ranking (the order
of the SQL against the rule in Go, and a list that is paged while it changes) is
the next worth modelling, then the checks of a configuration pack and of a tenant.

## 3. Modules

### AuditLedger, AuditChain

`AuditLedger` is the promise: a list of events that grows at its end and a set
of attested lengths. `AuditChain` is the code: each event is a transaction of
the steps `Begin`, `Lock` (`auditChainLock`), `ReadTip`, `Insert`, `Commit`, or
`Rollback` at any point; the signer (`AppendCheckpoint`) is a transaction of its
own; `VerifyAuditChain` and `ExportEvidence` read a page per step and take no
lock. A statement sees what was committed before it (READ COMMITTED). The
unique index on `seq` is modelled: an insert waits for an uncommitted row with
the same sequence and is refused by a committed one (`conflict`).

`AtomicEvents` are those recorded by `auditInTx` inside the transaction that
makes the change; `changes` records that the change is committed.

Abstractions: the text of an entry is the event itself; `ComputeHash` is a
constant operator. TLC gives it the history it commits to; the proofs assume of
it nothing at all, not even that it is injective, because no property here is
about detecting a tampered row, only about an untouched ledger never failing its
own checks. Signatures of checkpoints are valid for what was signed. Rows
written before the chain existed (no sequence) are outside it, as in the code.

### CommandDelivery

One device, its streams one after another, every goroutine of the server with a
program counter between the steps that touch shared state: `issueCommand`
(append to the log, insert the row, push, write the log, write the row),
`Connect` (admit, register, flush, serve, unregister, mark disconnected),
`noteAck` (log, row, proof) and the agent. `now` counts seconds so that two
envelopes of one command differ. A Postgres statement may fail without failing
the call, as `_ =` and the logged errors in the code have it (`PgOutcomes`), and
so may a write of the log after a push or an acknowledgement (`UpdateLog`;
commands.go:282, 334 and 364 discard the error), whereupon nothing tries it
again: `missed` keeps account of the writes that no later one has made good, and
the properties name it. A log that cannot be read is, to a flush, an empty one.

Abstractions: the payload and the result text are one word each; a signature is
valid for what was signed and is not modelled; commands are refused for their
type, role or form before anything is stored, so `IssueAppend` starts with an
accepted one. The lookup of the channel and the write to it (`Hub.Send`) are one
step: a message put on the channel of a stream that has just ended is lost
either way. `pushed` and `ran` are history variables.

### Tickets

The state of three parties: Autotask (`tickets`, as its own users and the engine
leave them), the database (`settings`, `goodDry`, `rows`, the open findings
`inventory`) and one run (`pc`, what it has read, the plan in hand). A run is
`StartRun` (the claim and the gate), `ReadAutotask` (preflight and the tickets
it follows), then one plan per action: `decide` is the operators `NeedsTicket`,
`NeedsNote`, `NeedsCompletion` and `Flags`, and the plan is carried out as
`FindByTag`, `PostTicket`, `PostNote`, `SetStatus`, each a request, and
`Commit`, the row's transaction. A plan may be decided when its turn comes,
although the code decides all of them first, because it depends only on what the
run has read and on the rows of its own action, which nobody else writes.

Between any two steps a technician may complete, reopen or delete a ticket,
findings may come and go, and settings may be saved, with the check against the
newest dry run a step before the transaction, as in `SetAutotaskSettings`. A
request may fail without effect (`RequestFails`), have its effect and lose its
answer (`AnswerLost`), and a run may stop anywhere (`RunBreaks`: a failed
commit, a fatal answer, the time limit, a crash); `RunOver` then releases the
claim, which lives in memory.

Abstractions: members are keys of hosts and accounts; a change of a member's
digest and a rise in urgency are further reasons for a note and left out, and
whether an action is urgent enough depends on its members, not on the settings.
The tag is the pair of action and generation (a hash in the code), so tags do
not collide. A ticket's text is the set of members it last named; `said` is the
history of those. Settings are one value per fingerprint and say whether
auto-complete is on. One save of mode live is in flight at a time, and plans go
out in any order rather than urgent ones first. A dry run is one step: what it
shows is only whether it was verified and without a problem. One Autotask
company: settings that move an instance to another are outside the model.

### Matcher

`Match` for one advisory and one host: the candidate ranges, what each says of a
package (`judge`), the source package's verdict, Ubuntu Pro, rebuild
distributions, and the one finding the verdicts of a family become
(`addFinding`). A version is a pair of epoch and number, since the code only
uses the total preorder of dpkg and rpm; loops are recursive functions of how many
rows they have seen, in the order of the rows. Ranges of different advisories never meet, so one is enough. The clause
for a range without a source whose package equals the installed source package
cannot be reached and is translated all the same.

### Findings

`RecordFindingsFor` statement by statement (archive, upsert, sweep, close with a
reason), run by the handler of a report and by the refresh timer at once, while
the feed runner creates a snapshot and loads it. Transactions are READ COMMITTED
with row locks: a statement waits for a row another transaction has written.
The memory of the last match (fingerprint and snapshot) is what decides whether
a host is matched again.

### FeedSync

One or more runs of `defendsec-feeds` over a shared cache directory: conditional
download, stash and restore of the previous copy, verification by count, the
database lock, loads in catalogue order with KEV last, the settlement of the
cache after the lock is let go, and a crash anywhere. A publisher's files are
numbered; what a file holds is the set of ids its parser yields. What a run still
has to do is a set of feeds: the one it is at is the first of them, in catalogue
order or, while it loads, phase by phase (`Precedes`).

### Forwarder

The bounded queue, its token channel, the worker's `select`, delivery of a batch
to each destination in turn, and `Close` with the last flush. The formats are
abstracted to accepted or refused.

### Alerts

The goroutines that handle reports and the one that refreshes findings, the
batch of open keys that a report installs for all of them, the file and the
table. A check is one word per report; an administrator gives an alert any other
status, a closed one too (`SetStatus`).

### Presence

Memory, exported file and table row of one host under reports, heartbeats,
acceptances of the baseline, restarts and failing writes: each handler changes
the memory under the mutex and writes the row later from what it read.

### SurfaceScans

Assets, the claim that keeps two scans of one asset apart, the schedule, the
recording transaction with its row lock, and the surface section of an evidence
bundle with its offline verification. A probe returns any report.

### IdentityRuns, RmmSync

Reads of a tenant or of an RMM site: settings that change under a read, the
claim, what a partial read may resolve, and, for the RMM, the rematch that runs
beside the read without the claim.

### SurfaceChecks

The checks of one scan as functions of a world (what is true of the asset) and
of a silence (which questions get no answer): mail (SPF with its nested lookups,
DMARC, DKIM, MX, MTA-STS, TLS-RPT), DNS hygiene, certificates and ports. A check
concludes with findings and with whether it was assessed. `SilenceDecidesNothing`
compares it with the same check of the same world when everything answers:
silence may neither open a finding nor close one, *except* where the code itself
decides on silence, which the property names: a nested SPF lookup that fails; an
MX host whose address or alias lookup fails resolves `mx.no_address` and
`mx.cname`; MTA-STS and TLS-RPT are called missing although MX was not read
(docs/SURFACE.md:43); the address lookup of the MTA-STS policy host fails and the
policy is called unreachable; a port in state error or filtered inside an
assessed ports check resolves its open finding. The walk through SPF
records is a recursive function: a visit has a domain, the domains it was reached
by and the state so far, and goes on with the visits of what the record includes.
`SpfClosed`: a world knows every domain its records lead to. MX hosts past the
first `MxCap` are not looked at, so the check says nothing of them.

`Surface` puts `SurfaceScans` and `SurfaceChecks` side by side.

### ApiCalls

One call of one client through every sequence of answers a service may give:
renewal of the token, retry with back-off and its budget, pages that follow
links, links to another host, lists that are too long, answers that are lost or
garbled. `CallsKeepTheirWord`: a read that succeeds has read every page; a write
is sent twice only if the first is known not to have been carried out, and what
is called failed was not carried out. One deviation is excused by name: a
creation answered with 200 and a body that cannot be read is called a bad
response and not an ambiguous one (autotask/client/client.go:266).

### Anchoring

Checkpoints signed on a timer and published to the targets in turn by the timer
and by request, each with its own reading of what is unanchored; the records are
inserted one by one; an answer may be lost, an insert may fail, the process may
stop; the comparison with the chain, which may have been rebuilt meanwhile.

### Accounts

First-run setup (two pages open at once, by a link and by the open window), the
advisory lock of the first user, links printed by `bootstrap-admin` (the count,
the revocation of unused links and the commit are separate steps, with row locks
and without the advisory lock), each of which can be spent once, accounts
made by an administrator and by single sign-on, sign-in, sessions and disabling.
Passwords, the lockout and the second factor are a sign-in that may fail.

## 4. Runs

| run | module | question |
|---|---|---|
| `audit_chain` | `AuditChain` | do three transactions, the signer, a verifier and an export, in any order and with any rollback, keep the ledger chained, attested and verifiable, implement `AuditLedger`, and all end? |
| `command_delivery` | `CommandDelivery` | does the log follow what went out and what ran, with two streams, breaks, revocation, the clock and a write of the log that fails? |
| `command_live` | `CommandDelivery` | is what was put on a channel answered and recorded unless the stream breaks or the write of the log fails? |
| `tickets` | `Tickets` | whatever fails, and whatever technicians do meanwhile, is no ticket doubled, does every row name and describe its ticket, does nothing go out without a dry run, and does every action end with the ticket its findings call for? |
| `devices` | `Alerts`, `Presence` | do alerts follow reports, is what nobody came between durable, and do memory and table come together? |
| `outside` | `FeedSync`, `IdentityRuns`, `RmmSync`, `ApiCalls` | does what is stored follow what was really read, catch up with it, and does no call lie or go on for ever? |
| `outbound` | `Forwarder`, `Anchoring` | is every record delivered once, in order, or counted, and is what the anchors say true? |
| `console` | `Findings`, `Matcher`, `Accounts` | is what matches agree on open and no interval lost; is a patched host not flagged; is there one first administrator? |
| `surface` | `SurfaceScans`, `SurfaceChecks` | is what is stored what assessed checks saw, does the bundle verify, is nothing recorded of a revoked asset, does silence decide nothing? |
| `command_evidence`, `surface_dnssec`, `anchors_all` | | one sentence of the repository each, refuted (section 6) |

### Bounds, and why they are enough

* `AuditChain`: 3 events, 2 of them atomic with a change, pages of 1, exports
  from 1 or 2, 1 checkpoint. A page of one row makes every row a page boundary;
  three events give a tip that moves twice under a reader and two waiters behind
  the lock. The proofs remove the bounds.
* `CommandDelivery`: 1 command, 2 streams, channel of 1, clock 0..1 for safety;
  2 commands on 1 stream for liveness; 1 failed write of the log that is not made
  good (`MaxMissed`). The command rows in Postgres play no part in these
  properties: every statement on them succeeds in the safety run and fails in the
  liveness run, and the proofs have any mixture. Two streams are what it takes for an old
  one to end after a new one registered; records of different commands share
  nothing but the channel, whose limit is the subject of `command_live`; two
  seconds give two different envelopes.
* `Tickets`: 2 actions, 2 members of which 1 is urgent, 1 create and 1 note per
  run, 1 fault, 3 changes. Actions share only the run and its limits, so one of
  them waits for the other; a ticket can be created, lost, adopted, completed,
  reopened and followed by the next generation. The proofs remove the bounds.
* `Alerts`: 2 goroutines of which one refreshes, 1 check, 1 vulnerability that
  is there at first, 1 change of the host, 1 change of an alert's status, 1 fault. `Presence`: 2 reporters, 1 heartbeat, 1 acceptance, 2 faults.
* `FeedSync`: KEV and one OSV feed with three published files each, one of them
  truncated, 2 faults, one run at a time (two at once are under *True of the
  code*). `IdentityRuns`: 2 tenants, 1 finding (findings do not interact), timer
  and request. `RmmSync`: 2 sites that are alike, 1 device, 1 update. `ApiCalls`:
  reads of at most 4 pages with a limit of 3, 4, 5 and 3 attempts.
* `Forwarder`: a queue of 2, batches of 2, 5 records, 2 destinations.
  `Anchoring`: 2 targets, timer and request, 2 checkpoints, 1 fault.
* `Findings`: 3 matches by 2 goroutines, 1 load. `Matcher`: up to 2 packages of
  one source and 2 ranges, since ranges of different advisories never meet.
  `Accounts`: 2 setup pages of which one goes on as the administrator who makes
  accounts and signs in, 2 names, 2 links, 2 bootstrap-admins. Links, and
  bootstrap-admins, are interchangeable: the run is symmetric in them.
* `SurfaceScans`: 1 asset (assets share only the claim loop), 3 changes, 2
  rescans, 1 fault. `SurfaceChecks`: the worlds and silences of `MCSurfaceWorlds`; 2 MX hosts
  are looked at, of up to 3 (10 in the code).

`CHECK_DEADLOCK FALSE` is said where the system really stops: the streams are
finite and a revoked agent does nothing more (command runs), after `Close`
(outbound), when nothing is set or a call is over (outside), when what may change
has changed (console), when a scan's checks are over (surface, `surface_dnssec`),
when a comparison is made (`anchors_all`).

### Fairness

`AuditChain!FairSpec`: a statement that can run is run; the lock is strongly fair
per transaction because Postgres queues the waiters of an advisory lock. No
fairness for beginning a transaction, failing one, or starting a reader.

`CommandDelivery!FairSpec`: weak fairness of each goroutine's own steps, of the
agent reading its stream, redialling (`runStream` loops with a backoff) and
sending heartbeats (a ticker). None for issuing, revoking, breaking or the clock.

`Tickets!FairSpec`: a run that has begun goes on, and `StartRun("live")` is
strongly fair: the schedule asks again on a timer, and a dry run that holds the
claim when it asks is one a person started. Convergence is claimed only for
behaviors whose settings stay live.

Hosts: the goroutine that holds a report or a row goes on; the timers of feeds,
scans, tenants, sites, checkpoints and heartbeats come again; a call proceeds to
its next request. `Forwarder!LastFlush` is strongly fair because Go's `select`
chooses at random among what is ready. Changes and faults are bounded, so they
cease; no fairness is assumed of whoever makes them.

## 5. Proofs

### The ledger

`AuditChainProofs` proves, for every finite set of events, every page size and
every hash function: `TypeCorrect`, `LedgerIntact` (`ChainIntact`),
`LockOrdersWriters` (`NoConflict`), `ChangeAndEntryTogether`
(`AtomicWithChange`), `VerifierNeverCriesWolf` (`NoFalseAlarm`),
`CheckpointsNameRows` (`CheckpointsAttest`), `BundlesVerify`, `WalkReachesTip`
(the action property `VerifiedToTheEnd`) and `LedgerRefined`, the refinement of
`AuditLedger`.

The assumptions are those named in `AuditChain`: events are finite in number,
the signer and "nobody" are not events, pages are not empty, exports start at 1
or later. TLC evaluates them in every run.

The argument. None of the properties is inductive. The chain stays intact only
because a writer that has read the tip still holds the lock when it commits, so
the invariant says who may be where: whoever is between `Lock` and `Commit` is
the holder, hence there is one at most, and the tip it has read is the tip
(`ReadersFrame`). The rows are stated as a function of their sequence: dense
from 1, one row per sequence, each chained onto the one before (`StoredFrame`).
For the readers, the invariant says that a walk which has come to sequence `n`
carries the hash of row `n - 1`, and that an export holds a contiguous range
that starts where it should; since rows are never changed, what was read stays
true while the ledger grows. Each action is one step of the preservation proof;
the invariant was checked with TLC before it was proved. The refinement follows
from it: a commit maps to `Record`, a checkpoint to `Attest` (the lock is what
makes the length it read the length of the ledger when it commits), everything
else to a stutter.

### The tickets

`TicketsProofs` proves, for every set of actions, members and settings, every
limit per run and every number of faults and changes: `TypeCorrect`,
`NoDuplicates` (`NoDuplicateTicket`), `RowsName` (`RowsNameTheirTickets`),
`OneOpen` (`OneOpenTicket`), `LiveAfterDryRun` (`LiveOnlyAfterDryRun`),
`RowsTold` (`RowWasSaid`) and `CompletedLast` (the action property
`CompletedAfterFinalNote`). Assumed of the constants: the settings with
auto-complete are settings, "no settings" is not one of them, urgent members are
members, the limits are numbers and those per run positive.

The argument. Tags are unique because a create is always for the generation
after the newest row (`NewGeneration`), every ticket belongs to a generation
that has a row or to that next one (`Generations`), and the search found none
with the tag (`PlanInv` at `"post"`). One ticket is open because a new generation
is planned only when every older ticket is *spent*: not open, or reopened by a
person. That an old ticket is spent is known from two sources, the rows
(`OldOnesSpent`: an older generation, or one recorded as completed) and the
run's look at Autotask (`ReadOnesSpent`), and both stay true however late the
run acts on them, because being spent is never undone. The relation `Older`
captures all that technicians, notes and completions may do to a ticket, and one
lemma for it (`StoreOlder`, `RunOlder`) serves all of them. For the text, the
plan in hand carries what was just said until the commit writes it
(`RowWasSaid`), and a row without members proves that the final note was sent
(`EmptyWasSaid`), which is what a retried completion relies on.

### Command delivery

`CommandDeliveryProofs` proves, for any set of commands, any bound of the
channel, the replay cache and the clock: `TypeCorrect`, `LogIsRight`
(`LogFollowsWire`) and `RunsAreRight` (`RunsMatchAnswers`). The replay cache is
a number of ids, so "a command runs once per stream" is claimed of finitely many
commands, no more than it holds: beyond that the code forgets (`allow` empties
the cache).

The argument follows an envelope. Whatever is on a channel or on the wire, or is
about to be recorded by the issuer or a flush, was pushed (`OutInv`); every
acknowledgement on its way is of a command that was pushed and, if it accepts,
that was run on that stream (`AckInv`). So a record that left "queued" belongs to
a command that was pushed, and a queued one to a command that was not, except in
the window between a push and its record and after a write of the record that
failed, both of which the property names (`Unnoted`, `LogInv`). What ran on a stream is in that stream's cache
(`ReplayInv`), hence it is refused the second time. Which flush may be anywhere
but idle, and that no flush holds a command without a record, are needed for the
steps of reconnecting (`FlushInv`, `SignedInv`).

### Findings, accounts and verdicts

`ConsoleProofs` is about `Console`, where three parts work side by side: the
findings lifecycle directly, `Accounts` as the instance `A`, `Matcher` as `M`. `SideBySide` says that the first
two behave in the composition as they do alone.

For any keys, inventories and number of goroutines: `Agreed` (`AgreedFindings`)
and `PastIsKept` (`HistorySurvives`). Statements of several transactions
interleave, so the invariant speaks of each transaction at each of its
statements (`TxInv`) and of each pair (`PairInv`): starts are unique, and newer
than every row seen before (`FreshOK`); a row seen at or after a transaction's
start was found by a recorded match or by one still running (`SweptOK`); what
the sweep has judged and its match did not find is stale, closed, or found by
somebody else (`StaleOK`); only its writer changes a row that is locked
(`OwnOK`); an interval about to be archived is not yet in the history and is that
of the row (`KeptOK`, `AloneOK`, `RowInv`). `GroupInv` is then the property at
every moment, with the matches recorded since transactions last overlapped none;
it turns into `AgreedFindings` when nobody is running.

For any number of names, links and requests under way, provided the requests are
distinguishable from "nobody" and the links from "no link"
(`Accounts!WellFormed`, which `MCConsole` assumes, so that TLC evaluates it):
`FirstAdmin` (`FirstAdminOnce`). Whoever is past the count holds the advisory
lock and nobody else is there (`LockInv`); as long as it is, setup has made no
account and the link it spends is unused (`FirstInv`). No bootstrap-admin takes
the advisory lock; what keeps it from revoking a link that is being spent is the
lock of the link's row, which nobody shares (`RowsInv`). Nothing is claimed of how
many links are usable (section 6).

For inventories and feeds of any length, over any packages, ranges and floors of
the shape the code gives them (`Matcher!WellFormed`, which `MCConsole` assumes):
`VerdictsAreRight` (`VerdictsHold`). The loops of `judge` and of `Match` are
recursive functions (`Heard`, `Kept`); that they exist is proved (`HeardIs`,
`KeptIs`), and what they compute is then characterised without an order, by
induction on the rows seen: `judge` has each flag that some range raises and the
lowest version that some range names (`Sums`, `HeardSums`), `Match` keeps a
verdict on one of the family's packages than which none is better (`Best`,
`KeptBest`). Both characterisations determine their value (`SumsOne`, `BestOne`),
the second because a host has one package of a name, which is the part of
the invariant (`MatcherInv`) that is more than a shape. From them follow the three
parts of the property, each a lemma of its own: `NeverFlagged`, `LeadsOut` (a
package brought to the version of a range, or to its source's version and epoch, is
one the range calls clean: `UpdateClears`) and `OrderDoesNotMatter`.

### Alerts and the copies of a device

`DevicesProofs` proves, for any number of goroutines, checks and vulnerabilities:
`ReportsAreKept` (`AlertsMatchReport`) and `OneAlert` (the action property
`NoSecondAlert`). Both are about a goroutine nobody came between, an
administrator who sets the status of an alert included, so the
invariant says that nobody else is at work beside it (`AloneInv`), that the batch
it works with, while it has one, says of every key exactly whether an alert has
it open or acknowledged (`KnownOK`), and which keys it is done with and how it left
them (`DoneOK`). For the others it says only where they may be (`StepOK`,
`BatchOK`).

Of `Presence`, for any contents of a host's files, any reporters, heartbeats and
administrators and any bounds (`Presence!WellFormed`: there is a content, and neither
"nothing" nor the emptied baseline is one): `DurableAlone` (`AloneIsDurable`). A call that
nobody came between still has in hand the very device the memory holds when it
writes the row (`CopiesAlone`), and no call is at a write while the memory does
not know the device (`MemInv`). What a call does is stated field by field once
(`HandleDoes`) and each conjunct of the invariant follows from that statement.

### Surface scans

`SurfaceScansProofs` proves, for any assets, findings, checks and workers:
`TypeCorrect`, `RevocationHolds` (the action property `RevokedRecordsNothing`),
`OpenUntilGone` (`OpenUntilSeenGone`) and `EvidenceVerifies` (`ExportVerifies`).
Whoever is about to commit holds the row lock of an asset that is confirmed
(`CommitHolds`), and a revocation needs that row, so it comes before or after.
`OpenUntilGone` is an induction over the scans recorded: a commit adds one scan
with a greater number than all.

`EvidenceVerifies` is about three clocks at once. The ledger's range is read
before the section, so every entry has its scan (`BundleIsOfTheLedger`). The
verifier goes through the scans of an asset by the time they finished, the rows
follow the order in which they were recorded; that these orders agree is due to
the claim and not to the row lock: nobody else scans the asset between the end
of a probe and its commit (`ClaimsApart`, `InOrder`). And every row tells what the
scans tell (`RowFits`): one more scan, younger than those told, adds an opening, a
closing, a sighting or nothing, to the story and to the row alike
(`RowFitsAfter`). The section of a bundle is a snapshot of tables that fit.

What these theorems say of `SurfaceScans` alone holds of `Surface` (`SideBySide`).

### The checks of a scan

`SurfaceScansProofs` also proves, for any asset, any set of unanswered questions and
any limits (`SurfaceChecks!WellFormed`: the depth limit is a number, an asset is a
domain, a hostname or an address, and its world knows what its SPF records lead to):
`SilenceSaysNothing` (`SilenceDecidesNothing`) and `WalkEnds`.

For each check a lemma (`MxSame` to `PortsSame`) says from which answers it concludes:
if it is assessed and the questions named in `Presumes` were answered, its result is
the one of the same world without any silence, findings and severities included. SPF,
MTA-STS and TLS-RPT also use what earlier checks learned, and the property judges a
result by what is known now, not by what was known when the check ran. So the
invariant (`InTurn`) fixes the whole state: after n checks the results are those of
the first n, each run with what the ones before it learned, and MX and DMARC come
before whoever listens to them. What is known of mail and of DMARC is known
rightly (`MxKnown`, `BothKnown`): a failed lookup leaves it unknown and never wrong.

`WalkEnds` is what makes the SPF part say something: a recursive function that no
function satisfies would be any value. Includes may form loops and chains of any
length. A visit depends only on those one step below (`VisitLocal`, through the terms
of a record in turn, `TermsLocal`), each of which has one domain more on its path
(`RankUp`), and beyond the depth limit nothing is visited. So there is a function that
is right about visits up to k steps from too deep, for each k (`RightStep`), hence
about all of them, and no other one (`WalkUnique`).

### Forwarding

`OutboundProofs` proves, for any capacity, batch size, number of records and
non-empty sequence of destinations (`DestinationsAssumption`: the worker is not
started without one): `TypeCorrect` and `OnceInOrder` (`EachOnceInOrder`). The
records are numbered as they are accepted. The queue is the newest of them, the
batch is older than the queue, and a destination still to be offered the batch
has only seen older records than it (`OrderInv`); the batch is empty unless it is
being delivered, to each destination once (`TodoInv`); and the worker ends only
after the last flush, when nothing is queued (`CloseInv`).

### Anchoring

`OutboundProofs` also proves, for any targets listed in any sequence
(`Anchoring!WellFormed`, assumed in `MCOutbound` and evaluated there) and any
number of checkpoints and faults: `AnchorsReal` (`AnchorsAreReal`). A publisher
carries what it did to a target from the answer to the insertion of its row, so
the invariant says of its notes what it says of the rows: what they call published is
held by the target (`RealInv`). What a target holds is a signed checkpoint, and
until the chain is rebuilt every signed checkpoint is on it; the comparison works
on rows it read before it reads the chain, and both facts survive the time
between (`AlarmInv`). A new checkpoint needs a sequence number: that there is a
greatest one is `BoundInv`, with well-founded induction over the naturals for the
least.

### The feeds

`OutsideProofs` holds what is proved of the clients of services outside. Of
`FeedSync`, for any enabled feeds in any catalogue order, any files the publishers
serve, any number of runs over one cache and any faults: `EnrichmentIsLast`
(`EnrichmentLands`, where KEV is enabled) and `NoTruncation` (the action property
`NeverTruncated`). Assumed: the catalogue names no feed twice, a publisher serves at
least one file, files are finite, and a CVE is itself an id, its own CVE.

The argument. A run that loads has the lock, and only that one (`LockOK`), so
nobody else changes the status rows it read at its start: the count the guard
compares with is the recorded one. That is `NoTruncation`. For the enrichment, the
order of the loads matters: when KEV's turn comes, nothing else is left
(`FirstIs`, which needs that a set of feeds has a first one: well-founded
induction over their places). Until then a run that wrote something, and whose
feeds are all good so far, will apply the catalog (`LoadOK`: `reload`, or a range
feed about to be recorded); once it has, what it wrote and the catalog covers is
flagged (`LandedOK`). It stays so although other runs load after it, because a
later catalog is applied to every row, and no row is ever deleted. The cache, which
all of them share without a lock, matters to neither: a run may well load another
file than it downloaded (*True of the code*), and the proof does not care which.

### The reads of a tenant

For any tenants, groups, findings, readers and bounds, with no assumption on the
constants: `RowsAreStretches` (`IntervalsFollowReads`). The property compares rows
and intervals with the whole history of reads, so what has to be shown is how one
more read changes the stretches of a history: a read that says a finding adds a
stretch unless one still lasts (`SaidAgain`), a read that denies it ends the one
that lasts (`DeniedThen`), any other changes nothing; the row is the last stretch,
and lasts exactly if it is open (`RowInv`).

### The calls of the API clients

For any calls, budgets, attempts, retries and bounds on pages
(`ApiCalls!WellFormed`: a read has a page, its last page is the one none follows,
and only Autotask is sent what must not be repeated): `CallsAreKept`
(`CallsKeepTheirWord`). A read under way has pages to come, and has handed over
exactly the first ones (`ReadInv`); a creation under way has not been made
(`CreateInv`): an answer that leaves room for doubt is never tried again.

### What is only model-checked

* Liveness and refinements that need fairness: `EveryAppendEnds`,
  `AckedUnlessBroken`, `ChecksSettle`, `ConfirmedIsScanned`, `EveryRecordLeaves`,
  `EveryCheckpointAnchored` and the others of their kind. Neither fairness nor
  ENABLED is within reach of the prover.
* `RmmSync`: what is checked of it is liveness (`RmmSettles`).

## 6. Findings

Each is a run that TLC must find violated, of one property that says what the
repository says and the code does not do.

* `command_evidence`, `EvidenceRowVerifies` (a bug). "Evidence bundles verify
  offline" (README.md:37). `issueCommand` pushes the envelope and writes the
  row's message, status and accepted flag afterwards (commands.go:290); when the
  acknowledgement was recorded in between, that write leaves its signature and
  result hash beside another message, and `verifyAcks` (evidence/bundle.go:230)
  reports the row of an untouched database as failed.
* `surface_dnssec`, `BrokenIsBogus` (documentation). "A bogus chain is told apart
  from an outage by repeating the question with the checking-disabled bit"
  (surface/dnshygiene.go:16-19). Any failed first answer, a timeout included,
  followed by an answer with checking disabled opens the high finding
  `dnssec.broken` (dnshygiene.go:57).
* `anchors_all`, `EveryAnchorCompared` (documentation). "VerifyAnchors compares
  every stored anchor against the chain as it stands" (storepg/anchors.go:96). It
  compares the rows `ListAnchors` returns, the newest 200.

### True of the code, without a run

What follows is in the models (unless it says otherwise), was met while writing
them, and is a property of the code rather than of a bound.

*Commands.* A duplicate push is refused as a replay and the refusal overwrites
the acknowledgement of the execution (commands.go:367; the comment at
evidence/bundle.go:207-209 expects otherwise). A revocation does not end the open
stream (docs/OPERATIONS.md:281 "Live gRPC connections are dropped", admin.go:80).
The proof kept in Postgres can be that of an envelope sent earlier
(store.go:403-406 says it is the latest); a queued command is signed again on
reconnect and so outlives the two minutes of docs/OPERATIONS.md:313-314; a
command that found the channel full stays queued until the stream is replaced; a
`cmdlog.Update` that fails to write its file after the push sends again, and one
that fails after the acknowledgement leaves it out of the log for good
(commands.go:282, 334, 364).

*Connection flag.* The deferred `SetConnected(false)` of an old stream can clear
a newer stream's flag until the next heartbeat, and a heartbeat in flight can
leave a gone or revoked device shown as connected.

*Tickets.* An adopted ticket's row lists members the ticket was never told of
(engine.go:674 against db/migrations/030_autotask.sql:63). A ticket created
without a record whose findings are fixed before the next run never hears of it
(engine.go:676 against docs/AUTOTASK.md:64 and 52-53).

*Feeds.* "One run at a time" (docs/FEEDS.md:147, storepg/feeds.go:586-589) holds
of the loads, not of the downloads: a second run may replace a file the first is
about to load, which then records its own digest for data it never read. A crash
between the two renames of `Restore` has the same effect, and a run that found
the lock taken or crashed leaves unverified files in the cache. A KEV download
that fails in the run that loads OSV rows with vendor ids leaves those unflagged
until the catalogue changes.

*Findings.* The snapshot row exists before its data (runner.go:219), so a host
matched during a load is remembered under the new snapshot with the old ranges
and is not matched again (vuln.go:22-24). Two matches that finish in the other
order leave the memory naming a match that is not the one in the table; two that
overlap can leave the union; `last_seen` can move backwards; with three that
overlap, a row opened by the newest, confirmed by the oldest and closed by the
third is recorded as closed before it began; the sweep closes by
id a row the other match confirmed meanwhile. `Classify` compares the binary's
version with a fix that may be a source version.

*Forwarder.* A flush in progress, or a token or tick served first, drains the
queue under the cancelled context after `stop()`: batches that a destination then
refuses are not kept (forward.go:168-169, `TestCloseFlushes`). Destinations of
the same name share one status entry.

*Alerts.* An acknowledged alert of a vulnerability that is gone never closes; an
alert whose insert failed is not raised again while the fingerprint is
remembered; a report that overlaps the refresh can double an alert or suppress
one; a created path that vanishes is never resolved. `updateAlertStatus` accepts `open`
for a closed alert, beside which another may be open by then.

*Presence.* A report's stale full-row write can overwrite a baseline just
accepted (lost at a restart before the next report); an accepted empty baseline
never replaces the column; a late older report moves the files back until the
next one.

*Surface.* One finding reported twice in a scan with different severities makes
the attested scan contradict itself; a clock that is set back reorders scans.
Neither is in the model, in which a scan reports a finding once and the clock
only advances.

*Identity, RMM.* A change of tenant keeps the old tenant's findings until a
group that is assessed resolves them. `Rematch` does not hold the claim: it may
record from an older update list over a newer read and set the coverage of a
stale device to covered (storepg/rmm.go:349-350), until the next read; a rematch
during a load is remembered with the new snapshot without its data.

*Anchoring.* The timer and a manual publication may publish one checkpoint twice
(control/anchors.go:107), rows of one publication are inserted one by one
(storepg/anchors.go:20), and a target that failed for a checkpoint another
target took is not tried for it again.

*Anchoring.* A publication has two minutes for all its targets: four that hang
for thirty seconds each lose the records of those that answered. One target's
success marks a checkpoint as anchored for all.

*Accounts.* `bootstrap-admin` counts the accounts (setup.go:245) and stores the
link in a later transaction (users.go:379-392) that neither holds the advisory
lock nor meets a unique index: two at once can leave two usable links, against
"only the most recently printed link works" (users.go:377-378), and a link may be
printed after the account is made. Either link still makes no second account.
When the account is made and the sign-in after it fails, the entry
`first_admin_created` is missing. `HandleUsers` inserts outside the advisory lock
of first-run setup.

## 7. Not modelled

* Pure input and output: the inventory collectors and the file watcher of the
  agent, which read one host and share nothing; the web console, which renders
  and proxies; metrics and tracing; packaging, scripts and the load test.
* Cryptography, keys and certificates: a hash or a signature identifies what was
  hashed or signed, and nothing more is assumed.
* Read-only reports without a state of their own: exposure ranking, lifecycle
  tables, repository health, configuration checks, controls, posture, the audit
  layer. What they read is modelled where it is written.
* Retention: two DELETE statements on a timer; nothing modelled reads what they
  delete.
* Parts of modelled components: the envelopes, anchors and identity and RMM
  entries of a bundle; passwords, lockout, second factor and tokens; the parsers
  of vendor formats; the judgements of identity and RMM checks (a read returns
  any report); the matching of an RMM device with an agent.
* Two hazards have no property: a stream that stays open after a revocation and a
  host remembered as matched against a snapshot that was still loading. The code
  does both; they are under *True of the code*.
