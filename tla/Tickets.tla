------------------------------ MODULE Tickets ------------------------------
(***************************************************************************)
(* The Autotask ticket engine: internal/autotask/engine.go (Run, decide,   *)
(* doCreate, doNote, doComplete, doFlag), the tracked rows and settings of *)
(* internal/storepg/autotask.go and the run claim of                       *)
(* internal/control/autotask.go.                                           *)
(*                                                                         *)
(* One run reads the open findings, grouped by action, and the tickets it  *)
(* follows, decides one plan per action and carries the plans out one      *)
(* request at a time; each request is followed by a commit of the action's *)
(* row.  Between any two of them technicians work on the tickets, findings *)
(* come and go, an answer is lost, a commit fails or the server dies.      *)
(*                                                                         *)
(* A group's members are the keys of the hosts and accounts it affects; that*)
(* an advisory joins one of them or its urgency rises is one more reason   *)
(* for a note and left out.  A tag is the pair of group and generation, and*)
(* the text of a ticket the set of members it last said are open.  One     *)
(* Autotask company; one API server, whose claim lets one run at a time.   *)
(***************************************************************************)
EXTENDS Integers, Sequences

CONSTANTS
    Groups,         \* remediation actions
    Members,        \* what an action can affect (a host, an account)
    Urgent,         \* the members that make their action urgent enough for a ticket
    Configs,        \* settings that a fingerprint tells apart
    AutoComplete,   \* those with auto-complete on
    NoConfig,       \* no such settings
    MaxCreates,     \* new tickets per run
    MaxNotes,       \* notes per run (MaxNotesPerRun)
    MaxFaults,      \* bound: failed requests, lost answers, failed commits and crashes
    MaxChanges      \* bound: changes of the findings and of tickets by technicians

ASSUME ConfigAssumption ==
    /\ AutoComplete \subseteq Configs
    /\ NoConfig \notin Configs

ASSUME UrgentAssumption == Urgent \subseteq Members

ASSUME NumbersAssumption ==
    /\ MaxCreates \in Nat \ {0} /\ MaxNotes \in Nat \ {0}
    /\ MaxFaults \in Nat /\ MaxChanges \in Nat

VARIABLES
    settings,   \* the row of autotask_settings: the mode and the rest
    saving,     \* a save of mode live that has passed its check
    goodDry,    \* fingerprint of the newest verified dry run without a problem
    inventory,  \* the open findings of each group, by member
    tickets,    \* the tickets in Autotask, by id, oldest first
    rows,       \* autotask_tickets: the rows of each group, by generation
    adopted,    \* ids of the tickets a run adopted
    pc,         \* where the run is; "idle" when nobody holds the claim
    mode,       \* of the run
    cfg,        \* the settings the run has read
    found,      \* the findings the run has read
    seen,       \* the tickets Autotask returned as not completed
    todo,       \* the groups whose plan is not carried out yet
    sent,       \* creates and notes this run has set out to send
    op,         \* the plan being carried out: its kind, its group, the row to commit
    faults,     \* how many of MaxFaults have happened
    changes     \* how many of MaxChanges have happened

setVars == <<settings, saving, goodDry>>
runVars == <<mode, cfg, found, seen>>
planVars == <<todo, sent, op>>
vars == <<setVars, inventory, tickets, rows, adopted, pc, runVars, planVars, faults, changes>>

NoOp == [kind |-> "none"]
NothingSent == [create |-> 0, note |-> 0]

Untracked(g) == rows[g] = << >>
Latest(g) == rows[g][Len(rows[g])]

Op(kind, g, gen, row) == [kind |-> kind, group |-> g, gen |-> gen, row |-> row]
Row(k, state, members) == [ticket |-> k, state |-> state, members |-> members]

-----------------------------------------------------------------------------
Init ==
    /\ settings \in [mode : {"dry_run"}, cfg : Configs]
    /\ saving = NoConfig
    /\ goodDry = NoConfig
    /\ inventory = [g \in Groups |-> {}]
    /\ tickets = << >>
    /\ rows = [g \in Groups |-> << >>]
    /\ adopted = {}
    /\ pc = "idle"
    /\ mode = "dry_run"
    /\ cfg = NoConfig
    /\ found = [g \in Groups |-> {}]
    /\ seen = {}
    /\ todo = {}
    /\ sent = NothingSent
    /\ op = NoOp
    /\ faults = 0
    /\ changes = 0

-----------------------------------------------------------------------------
(***************************************************************************)
(* The world outside a run.                                                *)
(***************************************************************************)

Change == changes < MaxChanges /\ changes' = changes + 1

\* The inventory reports, scans and feeds change what is open.
FindingsChange(g, S) ==
    /\ Change
    /\ inventory[g] # S
    /\ inventory' = [inventory EXCEPT ![g] = S]
    /\ UNCHANGED <<setVars, tickets, rows, adopted, pc, runVars, planVars, faults>>

WithStatus(t, status) == [t EXCEPT !.status = status, !.reopened = @ \/ status = "open"]
WithNote(t, members) == [t EXCEPT !.told = members, !.said = @ \cup {members}]

\* A technician completes, reopens or deletes a ticket.
TechnicianSets(k, status) ==
    /\ Change
    /\ tickets[k].status \notin {status, "deleted"}
    /\ tickets' = [tickets EXCEPT ![k] = WithStatus(tickets[k], status)]
    /\ UNCHANGED <<setVars, inventory, rows, adopted, pc, runVars, planVars, faults>>

\* SetAutotaskSettings with mode dry_run: no check, one transaction.
SaveDryRun(c) ==
    /\ settings # [mode |-> "dry_run", cfg |-> c]
    /\ settings' = [mode |-> "dry_run", cfg |-> c]
    /\ UNCHANGED <<saving, goodDry, inventory, tickets, rows, adopted, pc, runVars, planVars, faults, changes>>

\* With mode live: the newest good dry run is read before the transaction that
\* saves the settings begins.
SaveLiveCheck(c) ==
    /\ saving = NoConfig
    /\ goodDry = c
    /\ saving' = c
    /\ UNCHANGED <<settings, goodDry, inventory, tickets, rows, adopted, pc, runVars, planVars, faults, changes>>

\* The transaction, or its failure.
SaveLive ==
    /\ saving # NoConfig
    /\ settings' \in {settings, [mode |-> "live", cfg |-> saving]}
    /\ saving' = NoConfig
    /\ UNCHANGED <<goodDry, inventory, tickets, rows, adopted, pc, runVars, planVars, faults, changes>>

-----------------------------------------------------------------------------
(***************************************************************************)
(* A run begins: claimAutotask, the settings, the findings, the newest     *)
(* good dry run.  A run that the gate refuses records a problem and        *)
(* changes nothing, so only those it lets through are steps.               *)
(***************************************************************************)

\* Mutant of Gate: the dry run behind the settings is not asked for.
GateLiveOnly(m) == pc = "idle" /\ (m = "live" => settings.mode = "live")

Gate(m) ==
    /\ pc = "idle"
    /\ m = "live" => settings.mode = "live" /\ goodDry = settings.cfg

StartRun(m) ==
    /\ Gate(m)
    /\ pc' = "reading" /\ mode' = m /\ cfg' = settings.cfg /\ found' = inventory
    /\ UNCHANGED <<setVars, inventory, tickets, rows, adopted, seen, planVars, faults, changes>>

\* The claim is released and what the run knew is forgotten.
RunOver ==
    /\ pc' = "idle" /\ mode' = "dry_run" /\ cfg' = NoConfig
    /\ found' = [g \in Groups |-> {}] /\ seen' = {}
    /\ todo' = {} /\ sent' = NothingSent /\ op' = NoOp

\* preflight, then GetTickets of what the newest rows follow: the tickets it returns
\* and that are not completed.  decide cannot tell a completed ticket from one that
\* was deleted or is hidden.
ReadAutotask ==
    /\ pc = "reading" /\ mode = "live"
    /\ seen' = {k \in 1..Len(tickets) :
                  /\ tickets[k].status = "open"
                  /\ \E g \in Groups : ~Untracked(g) /\ Latest(g).ticket = k
                                       /\ Latest(g).state \in {"open", "resolved"}}
    /\ todo' = Groups
    /\ pc' = "next"
    /\ UNCHANGED <<setVars, inventory, tickets, rows, adopted, mode, cfg, found, sent, op, faults, changes>>

\* A dry run shows its plans and sends nothing; RecordAutotaskRun then makes its
\* settings the shown ones if it was verified and met no problem.
EndDryRun ==
    /\ pc = "reading" /\ mode = "dry_run"
    /\ goodDry' \in {goodDry, cfg}
    /\ RunOver
    /\ UNCHANGED <<settings, saving, inventory, tickets, rows, adopted, faults, changes>>

-----------------------------------------------------------------------------
(***************************************************************************)
(* decide and finish: what an action needs, from what the run has read.    *)
(* The rows of a group change only by its own plan, so the plan may be     *)
(* decided when its turn comes.                                            *)
(***************************************************************************)

InState(g, state) == ~Untracked(g) /\ Latest(g).state = state
StillOpen(g) == Latest(g).ticket \in seen

Qualifies(S) == S \cap Urgent # {}

Moved(g, state, members) == Row(Latest(g).ticket, state, members)

AutoOn == cfg \in AutoComplete

\* Mutant of NeedsTicket: a returned finding gets a new ticket without a look at the old one.
NeedsTicketBlind(g) ==
    /\ Qualifies(found[g])
    /\ \/ Untracked(g)
       \/ InState(g, "closed_in_psa") /\ ~(found[g] \subseteq Latest(g).members)
       \/ InState(g, "resolved")

\* A first ticket; one for a member the completed ticket never covered; one for
\* findings that came back after the ticket was completed.
NeedsTicket(g) ==
    /\ Qualifies(found[g])
    /\ \/ Untracked(g)
       \/ InState(g, "closed_in_psa") /\ ~(found[g] \subseteq Latest(g).members)
       \/ InState(g, "resolved") /\ ~StillOpen(g)

\* News for the ticket: members joined or left, all of them left, or they came back.
NeedsNote(g) ==
    \/ InState(g, "open") /\ StillOpen(g) /\ found[g] # Latest(g).members
    \/ InState(g, "resolved") /\ StillOpen(g) /\ found[g] # {}

\* The final note was sent; the completion was not recorded.
NeedsCompletion(g) ==
    InState(g, "open") /\ StillOpen(g) /\ found[g] = {} /\ Latest(g).members = {} /\ AutoOn

\* Mutant of Flags: a completed ticket whose findings went away is left as it is.
FlagsNoResolve(g) ==
    IF Untracked(g) THEN {}
    ELSE IF Latest(g).state = "open" /\ ~StillOpen(g)
           THEN {IF found[g] = {} THEN Moved(g, "resolved", {}) ELSE Moved(g, "closed_in_psa", found[g])}
    ELSE {}

\* The row's state after a plan that only records one (at most one such row).
Flags(g) ==
    IF Untracked(g) THEN {}
    ELSE IF Latest(g).state = "open" /\ ~StillOpen(g)
           THEN {IF found[g] = {} THEN Moved(g, "resolved", {}) ELSE Moved(g, "closed_in_psa", found[g])}
    ELSE IF Latest(g).state = "closed_in_psa" /\ found[g] = {}
           THEN {Moved(g, "resolved", Latest(g).members)}
    ELSE IF Latest(g).state = "open" /\ found[g] = {} /\ Latest(g).members = {} /\ ~AutoOn
           THEN {Moved(g, "resolved", {})}
    ELSE {}

NothingToDo(g) == ~NeedsTicket(g) /\ ~NeedsNote(g) /\ ~NeedsCompletion(g) /\ Flags(g) = {}

-----------------------------------------------------------------------------
(***************************************************************************)
(* The plans are carried out one after another, urgent ones first; any     *)
(* order is allowed here.                                                  *)
(***************************************************************************)

Turn(g) == pc = "next" /\ g \in todo /\ todo' = todo \ {g}

\* Nothing to do, or a create or note over the run's limit: the next run sends it.
Pass(g) ==
    /\ Turn(g)
    /\ \/ NothingToDo(g)
       \/ NeedsTicket(g) /\ sent.create >= MaxCreates
       \/ NeedsNote(g) /\ sent.note >= MaxNotes
    /\ UNCHANGED <<setVars, inventory, tickets, rows, adopted, pc, runVars, sent, op, faults, changes>>

BeginCreate(g) ==
    /\ Turn(g)
    /\ NeedsTicket(g) /\ sent.create < MaxCreates
    /\ sent' = [sent EXCEPT !.create = @ + 1]
    /\ pc' = "find"
    /\ op' = Op("create", g, Len(rows[g]) + 1, Row(0, "open", found[g]))
    /\ UNCHANGED <<setVars, inventory, tickets, rows, adopted, runVars, faults, changes>>

\* Mutant of BeginNote: with auto-complete on, the final note is left out.
BeginNoteCompletes(g) ==
    /\ Turn(g)
    /\ NeedsNote(g) /\ sent.note < MaxNotes
    /\ sent' = [sent EXCEPT !.note = @ + 1]
    /\ pc' = IF found[g] = {} /\ AutoOn THEN "complete" ELSE "note"
    /\ op' = Op("note", g, Len(rows[g]), Moved(g, IF found[g] = {} THEN "resolved" ELSE "open", found[g]))
    /\ UNCHANGED <<setVars, inventory, tickets, rows, adopted, runVars, faults, changes>>

\* A note; the final one says that nothing is open any more and, with
\* auto-complete on, the row stays "open" until the completion is recorded.
BeginNote(g) ==
    /\ Turn(g)
    /\ NeedsNote(g) /\ sent.note < MaxNotes
    /\ sent' = [sent EXCEPT !.note = @ + 1]
    /\ pc' = "note"
    /\ op' = IF found[g] = {} /\ AutoOn
               THEN Op("final", g, Len(rows[g]), Moved(g, "open", {}))
               ELSE Op("note", g, Len(rows[g]),
                       Moved(g, IF found[g] = {} THEN "resolved" ELSE "open", found[g]))
    /\ UNCHANGED <<setVars, inventory, tickets, rows, adopted, runVars, faults, changes>>

Completion(g, gen, k) == Op("complete", g, gen, Row(k, "resolved", {}))

BeginComplete(g) ==
    /\ Turn(g)
    /\ NeedsCompletion(g)
    /\ pc' = "complete"
    /\ op' = Completion(g, Len(rows[g]), Latest(g).ticket)
    /\ UNCHANGED <<setVars, inventory, tickets, rows, adopted, runVars, sent, faults, changes>>

BeginFlag(g) ==
    /\ Turn(g)
    /\ \E row \in Flags(g) : op' = Op("flag", g, Len(rows[g]), row)
    /\ pc' = "commit"
    /\ UNCHANGED <<setVars, inventory, tickets, rows, adopted, runVars, sent, faults, changes>>

-----------------------------------------------------------------------------
(***************************************************************************)
(* Requests to Autotask.                                                   *)
(***************************************************************************)

NextPlan == pc' = "next" /\ op' = NoOp
Fault == faults < MaxFaults /\ faults' = faults + 1
Answered == pc' = "commit" /\ UNCHANGED faults
AnswerLost == Fault /\ NextPlan

Tagged(g, gen) ==
    {k \in 1..Len(tickets) : tickets[k].group = g /\ tickets[k].gen = gen /\ tickets[k].status # "deleted"}

Oldest(S) == CHOOSE k \in S : \A j \in S : k <= j

\* Mutant of FindByTag: straight to the create.
FindByTagSkipped ==
    /\ pc = "find"
    /\ pc' = "post"
    /\ UNCHANGED <<setVars, inventory, tickets, rows, adopted, runVars, planVars, faults, changes>>

\* FindTickets by the tag: the oldest ticket with it is adopted, and its row
\* names the members of now.
FindByTag ==
    /\ pc = "find"
    /\ LET hits == Tagged(op.group, op.gen) IN
       IF hits = {}
         THEN pc' = "post" /\ UNCHANGED <<op, adopted>>
         ELSE /\ op' = Op("adopt", op.group, op.gen,
                          Row(Oldest(hits),
                              IF tickets[Oldest(hits)].status = "open" THEN "open" ELSE "closed_in_psa",
                              found[op.group]))
              /\ adopted' = adopted \cup {Oldest(hits)}
              /\ pc' = "commit"
    /\ UNCHANGED <<setVars, inventory, tickets, rows, runVars, todo, sent, faults, changes>>

\* CreateTicket.
PostTicket ==
    /\ pc = "post"
    /\ tickets' = Append(tickets, [group |-> op.group, gen |-> op.gen, status |-> "open",
                                   told |-> op.row.members, said |-> {op.row.members},
                                   reopened |-> FALSE])
    /\ \/ Answered /\ op' = [op EXCEPT !.row.ticket = Len(tickets) + 1]
       \/ AnswerLost
    /\ UNCHANGED <<setVars, inventory, rows, adopted, runVars, todo, sent, changes>>

Rejected(k) == tickets[k].status = "deleted"

\* Mutant of PostNote: the row is written before the note is sent.
PostNoteUnsent ==
    /\ pc = "note"
    /\ pc' = "commit"
    /\ UNCHANGED <<setVars, inventory, tickets, rows, adopted, runVars, planVars, faults, changes>>

\* CreateNote; Autotask refuses it for a ticket that is gone.
PostNote ==
    /\ pc = "note"
    /\ LET k == op.row.ticket IN
       \/ Rejected(k) /\ NextPlan /\ UNCHANGED <<tickets, faults>>
       \/ /\ ~Rejected(k)
          /\ tickets' = [tickets EXCEPT ![k] = WithNote(tickets[k], op.row.members)]
          /\ (Answered /\ UNCHANGED op) \/ AnswerLost
    /\ UNCHANGED <<setVars, inventory, rows, adopted, runVars, todo, sent, changes>>

\* SetTicketStatus.
SetStatus ==
    /\ pc = "complete"
    /\ LET k == op.row.ticket IN
       \/ Rejected(k) /\ NextPlan /\ UNCHANGED <<tickets, faults>>
       \/ /\ ~Rejected(k)
          /\ tickets' = [tickets EXCEPT ![k] = WithStatus(tickets[k], "completed")]
          /\ (Answered /\ UNCHANGED op) \/ AnswerLost
    /\ UNCHANGED <<setVars, inventory, rows, adopted, runVars, todo, sent, changes>>

\* A request that is not carried out; the run goes on with the next plan.
RequestFails ==
    /\ pc \in {"find", "post", "note", "complete"}
    /\ AnswerLost
    /\ UNCHANGED <<setVars, inventory, tickets, rows, adopted, runVars, todo, sent, changes>>

-----------------------------------------------------------------------------
\* AutotaskCommit: the row of the action's generation, inserted or updated (an
\* update keeps the ticket id, which is the same).  After the final note comes
\* the completion.
Commit ==
    /\ pc = "commit"
    /\ rows' = [rows EXCEPT ![op.group] =
                  IF op.gen > Len(@) THEN Append(@, op.row) ELSE [@ EXCEPT ![op.gen] = op.row]]
    /\ IF op.kind = "final"
         THEN pc' = "complete" /\ op' = Completion(op.group, op.gen, op.row.ticket)
         ELSE NextPlan
    /\ UNCHANGED <<setVars, inventory, tickets, adopted, runVars, todo, sent, faults, changes>>

EndRun ==
    /\ pc = "next" /\ todo = {}
    /\ RunOver
    /\ UNCHANGED <<setVars, inventory, tickets, rows, adopted, faults, changes>>

\* The run stops where it is: a commit fails, Autotask refuses the credentials or
\* the budget is spent, the run's time is over, or the process dies.
RunBreaks ==
    /\ pc # "idle"
    /\ Fault
    /\ RunOver
    /\ UNCHANGED <<setVars, inventory, tickets, rows, adopted, changes>>

RunStep ==
    \/ ReadAutotask \/ EndDryRun \/ EndRun
    \/ \E g \in Groups :
         Pass(g) \/ BeginCreate(g) \/ BeginNote(g) \/ BeginComplete(g) \/ BeginFlag(g)
    \/ FindByTag \/ PostTicket \/ PostNote \/ SetStatus \/ Commit

Next ==
    \/ \E g \in Groups, S \in SUBSET Members : FindingsChange(g, S)
    \/ \E k \in 1..Len(tickets), status \in {"open", "completed", "deleted"} : TechnicianSets(k, status)
    \/ \E c \in Configs : SaveDryRun(c)
    \/ \E c \in Configs : SaveLiveCheck(c)
    \/ SaveLive
    \/ \E m \in {"dry_run", "live"} : StartRun(m)
    \/ ReadAutotask
    \/ EndDryRun
    \/ \E g \in Groups : Pass(g)
    \/ \E g \in Groups : BeginCreate(g)
    \/ \E g \in Groups : BeginNote(g)
    \/ \E g \in Groups : BeginComplete(g)
    \/ \E g \in Groups : BeginFlag(g)
    \/ FindByTag
    \/ PostTicket
    \/ PostNote
    \/ SetStatus
    \/ RequestFails
    \/ Commit
    \/ EndRun
    \/ RunBreaks

Spec == Init /\ [][Next]_vars

(***************************************************************************)
(* A run that has begun goes on.  The schedule asks again and again for a  *)
(* live run, and dry runs are asked for by a person, who does not beat it  *)
(* to the claim for ever.  Faults and changes are bounded, so they stop.   *)
(***************************************************************************)
FairSpec == Spec /\ WF_vars(RunStep) /\ SF_vars(StartRun("live"))

-----------------------------------------------------------------------------
(***************************************************************************)
(* Properties.                                                             *)
(***************************************************************************)

TicketType == [group : Groups, gen : Nat \ {0}, status : {"open", "completed", "deleted"},
               told : SUBSET Members, said : SUBSET SUBSET Members, reopened : BOOLEAN]

RowType == [ticket : Nat, state : {"open", "resolved", "closed_in_psa"}, members : SUBSET Members]

\* Each variable has the shape of the table, ticket or run it stands for.
TypeOK ==
    /\ settings \in [mode : {"dry_run", "live"}, cfg : Configs]
    /\ saving \in Configs \cup {NoConfig} /\ goodDry \in Configs \cup {NoConfig}
    /\ inventory \in [Groups -> SUBSET Members] /\ found \in [Groups -> SUBSET Members]
    /\ tickets \in Seq(TicketType)
    /\ rows \in [Groups -> Seq(RowType)]
    /\ adopted \subseteq 1..Len(tickets)
    /\ pc \in {"idle", "reading", "next", "find", "post", "note", "complete", "commit"}
    /\ mode \in {"dry_run", "live"} /\ cfg \in Configs \cup {NoConfig}
    /\ seen \subseteq 1..Len(tickets)
    /\ todo \subseteq Groups
    /\ sent \in [create : 0..MaxCreates, note : 0..MaxNotes]
    /\ faults \in 0..MaxFaults /\ changes \in 0..MaxChanges

\* "That covers the one dangerous gap": whichever answers are lost, commits fail
\* and processes die, no two tickets in Autotask carry the same tag (doCreate).
NoDuplicateTicket ==
    \A i, j \in 1..Len(tickets) :
        i < j /\ tickets[i].group = tickets[j].group /\ tickets[i].gen = tickets[j].gen
        => tickets[i].status = "deleted" \/ tickets[j].status = "deleted"

\* A row names a ticket with its own tag, and no two rows name the same ticket, so
\* notes go to the ticket of their action.
RowsNameTheirTickets ==
    \A g \in Groups : \A n \in 1..Len(rows[g]) :
        LET k == rows[g][n].ticket IN
        k \in 1..Len(tickets) /\ tickets[k].group = g /\ tickets[k].gen = n

\* An action has one open ticket; a second one is open only because a technician
\* reopened the first (decide looks at the old ticket before it opens a new one).
OneOpenTicket ==
    \A i, j \in 1..Len(tickets) :
        i < j /\ tickets[i].group = tickets[j].group
          /\ tickets[i].status = "open" /\ tickets[j].status = "open"
        => tickets[i].reopened \/ tickets[j].reopened

\* "Going live needs a dry run behind it": whatever is saved meanwhile, a run that
\* may send something works with the settings the newest good dry run showed.
LiveOnlyAfterDryRun ==
    pc # "idle" /\ mode = "live" => cfg = goodDry

\* What an open row lists as told is something its ticket was told, in one piece:
\* no member is marked as announced by a note that never left.  Adopted tickets
\* are the exception: their row lists the members of the run that adopts them.
RowWasSaid ==
    \A g \in Groups : \A n \in 1..Len(rows[g]) :
        LET r == rows[g][n] IN
        r.state = "open" /\ r.ticket \notin adopted => r.members \in tickets[r.ticket].said

\* The engine completes a ticket only with auto-complete on, and only one that has
\* been told that nothing is open any more, also when the completion is retried.
CompletedAfterFinalNote ==
    [][pc = "complete" /\ pc' # pc /\ tickets' # tickets
         => AutoOn /\ found[op.group] = {} /\ {} \in tickets[op.row.ticket].said]_vars

\* The row of a group agrees with what is open.
CaughtUp(g) ==
    IF Untracked(g) THEN ~Qualifies(inventory[g])
    ELSE CASE Latest(g).state = "open" ->
                /\ inventory[g] = Latest(g).members /\ inventory[g] # {}
                /\ faults = 0 => tickets[Latest(g).ticket].told = inventory[g]
           [] Latest(g).state = "closed_in_psa" ->
                /\ inventory[g] # {}
                /\ inventory[g] \subseteq Latest(g).members \/ ~Qualifies(inventory[g])
           [] Latest(g).state = "resolved" ->
                inventory[g] = {} \/ ~Qualifies(inventory[g])

\* Once the settings stay live, every action over the threshold gets its ticket,
\* deferred ones included, and every row ends up agreeing with what is open; if no
\* answer was lost, so does the ticket's text.
Converges ==
    <>[](settings.mode = "live" /\ settings.cfg = goodDry) => <>[](\A g \in Groups : CaughtUp(g))

=============================================================================
