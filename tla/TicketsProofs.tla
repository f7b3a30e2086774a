--------------------------- MODULE TicketsProofs ---------------------------
(***************************************************************************)
(* Proofs about the Autotask ticket engine, for every set of groups,       *)
(* members and settings and any number of faults and changes.              *)
(***************************************************************************)
EXTENDS Tickets, SequenceTheorems, TLAPS

Ids == 1..Len(tickets)

\* A ticket the engine need not fear to double: not open, or reopened by a person.
Spent(k) == tickets[k].status # "open" \/ tickets[k].reopened

(***************************************************************************)
(* What holds of the tickets and the rows, whatever a run is doing.        *)
(***************************************************************************)

\* A ticket belongs to a generation that has a row or is the next to get one.
Generations == \A k \in Ids : tickets[k].gen <= Len(rows[tickets[k].group]) + 1

\* The ticket of a generation that has a row is the row's; others with its tag are gone.
RowHasTheTicket ==
    \A k \in Ids :
        tickets[k].gen <= Len(rows[tickets[k].group])
        => tickets[k].status = "deleted" \/ k = rows[tickets[k].group][tickets[k].gen].ticket

\* The tickets of older generations, and those recorded as completed, are spent.
OldOnesSpent ==
    \A g \in Groups : \A n \in 1..Len(rows[g]) :
        n < Len(rows[g]) \/ rows[g][n].state = "closed_in_psa" => Spent(rows[g][n].ticket)

\* A row without members belongs to a ticket that was told nothing is open any more.
EmptyWasSaid ==
    \A g \in Groups : \A n \in 1..Len(rows[g]) :
        rows[g][n].state = "open" /\ rows[g][n].members = {}
        => {} \in tickets[rows[g][n].ticket].said

StoreInv ==
    /\ RowsNameTheirTickets
    /\ Generations
    /\ NoDuplicateTicket
    /\ RowHasTheTicket
    /\ OldOnesSpent
    /\ OneOpenTicket
    /\ RowWasSaid
    /\ EmptyWasSaid

(***************************************************************************)
(* What holds of a run and of the plan it carries out.                     *)
(***************************************************************************)

Planning == {"next", "find", "post", "note", "complete", "commit"}
Acting == Planning \ {"next"}

Kinds == {"create", "adopt", "note", "final", "complete", "flag"}

OpTyped ==
    pc \in Acting =>
        /\ op \in [kind : Kinds, group : Groups, gen : Nat \ {0}, row : RowType]
        /\ op.group \notin todo

OnlyLivePlans == pc \in Planning => mode = "live"

\* The tickets that Autotask did not return as open, of the groups still to be done.
ReadOnesSpent ==
    pc \in Planning =>
        \A g \in todo :
            ~Untracked(g) /\ Latest(g).ticket \notin seen /\ Latest(g).state \in {"open", "resolved"}
            => Spent(Latest(g).ticket)

\* A create is for the next generation, for members, and only after every earlier
\* ticket of the group is spent.
NewGeneration ==
    /\ op.gen = Len(rows[op.group]) + 1
    /\ op.row.members # {}
    /\ \A n \in 1..Len(rows[op.group]) : Spent(rows[op.group][n].ticket)

\* Any other plan is for the newest row and its ticket.
SameGeneration ==
    /\ op.gen = Len(rows[op.group])
    /\ op.row.ticket = rows[op.group][op.gen].ticket

\* The only ticket that may carry the plan's tag is the one its row names.
OwnsTag == \A k \in Ids :
    tickets[k].group = op.group /\ tickets[k].gen = op.gen => tickets[k].status = "deleted" \/ k = op.row.ticket

LastWord == AutoOn /\ found[op.group] = {} /\ op.row.members = {}

PlanInv ==
    /\ pc \in {"find", "post"} =>
         /\ op.kind = "create" /\ NewGeneration /\ op.row.state = "open"
         /\ op.row.members = found[op.group]
    /\ pc = "post" => Tagged(op.group, op.gen) = {}
    /\ pc = "note" =>
         /\ op.kind \in {"note", "final"} /\ SameGeneration
         /\ op.row.state = "open" \/ op.row.members = {}
         /\ op.kind = "final" => LastWord /\ op.row.state = "open"
         /\ op.row.state \in {"open", "resolved"}
    /\ pc = "complete" =>
         /\ op.kind = "complete" /\ SameGeneration /\ LastWord
         /\ op.row.state = "resolved"
         /\ {} \in tickets[op.row.ticket].said
    /\ pc = "commit" =>
         /\ \/ /\ op.kind \in {"create", "adopt"} /\ NewGeneration /\ OwnsTag
               /\ op.row.ticket \in Ids
               /\ tickets[op.row.ticket].group = op.group
               /\ tickets[op.row.ticket].gen = op.gen
            \/ op.kind \in {"note", "final", "complete", "flag"} /\ SameGeneration
         /\ op.row.state = "closed_in_psa" => Spent(op.row.ticket)
         /\ op.row.state = "open" =>
              /\ op.row.ticket \notin adopted => op.row.members \in tickets[op.row.ticket].said
              /\ op.row.members = {} => {} \in tickets[op.row.ticket].said
         /\ op.kind = "final" => LastWord /\ op.row.state = "open"

RunInv ==
    /\ LiveOnlyAfterDryRun
    /\ OnlyLivePlans
    /\ OpTyped
    /\ ReadOnesSpent
    /\ PlanInv

IInv == TypeOK /\ StoreInv /\ RunInv

-----------------------------------------------------------------------------
(***************************************************************************)
(* Facts about the rows and the tickets as sequences.                      *)
(***************************************************************************)

\* A sequence of a group's rows: its length, its elements, when it is empty.
LEMMA RowsOf ==
    ASSUME TypeOK, NEW g \in Groups
    PROVE  /\ rows[g] \in Seq(RowType)
           /\ Len(rows[g]) \in Nat
           /\ Untracked(g) <=> Len(rows[g]) = 0
           /\ \A n \in 1..Len(rows[g]) : rows[g][n] \in RowType
    <1>1. rows[g] \in Seq(RowType)
        BY DEF TypeOK
    <1>2. QED
        BY <1>1, EmptySeq, ElementOfSeq, LenProperties DEF Untracked

\* The tickets: how many there are and what each one is.
LEMMA TicketsOf ==
    ASSUME TypeOK
    PROVE  /\ tickets \in Seq(TicketType)
           /\ Len(tickets) \in Nat
           /\ \A k \in 1..Len(tickets) : tickets[k] \in TicketType
    <1>1. tickets \in Seq(TicketType)
        BY DEF TypeOK
    <1>2. QED
        BY <1>1, ElementOfSeq, LenProperties

\* A tracked group has a newest row.
LEMMA LatestOf ==
    ASSUME TypeOK, NEW g \in Groups, ~Untracked(g)
    PROVE  /\ Len(rows[g]) \in Nat \ {0}
           /\ Latest(g) \in RowType
           /\ Latest(g) = rows[g][Len(rows[g])]
    BY RowsOf DEF Latest

-----------------------------------------------------------------------------
(***************************************************************************)
(* Frames: what a step that leaves something alone keeps.                  *)
(***************************************************************************)

\* What holds of tickets and rows depends on nothing else.
LEMMA StoreFrame ==
    ASSUME StoreInv, UNCHANGED <<tickets, rows, adopted>>
    PROVE  StoreInv'
    BY DEF StoreInv, RowsNameTheirTickets, Generations, NoDuplicateTicket, RowHasTheTicket,
           OldOnesSpent, OneOpenTicket, RowWasSaid, EmptyWasSaid, Ids, Spent

\* A run that is over knows nothing.
LEMMA NothingKnown ==
    ASSUME RunOver
    PROVE  RunInv'
    BY DEF RunOver, RunInv, LiveOnlyAfterDryRun, OnlyLivePlans, OpTyped, ReadOnesSpent, PlanInv,
           Planning, Acting

\* The world around a run may change the findings and the settings.
LEMMA RunFrame ==
    ASSUME RunInv, UNCHANGED <<goodDry, tickets, rows, adopted, pc, runVars, planVars>>
    PROVE  RunInv'
    BY DEF RunInv, LiveOnlyAfterDryRun, OnlyLivePlans, OpTyped, ReadOnesSpent, PlanInv,
           Planning, Acting, runVars, planVars, Untracked, Latest, Spent, NewGeneration, SameGeneration,
           OwnsTag, LastWord, Tagged, Ids, AutoOn

\* A run that turns to the next plan has none in hand.
LEMMA PlanDone ==
    ASSUME RunInv, pc \in Planning, pc' = "next", todo' \subseteq todo, ReadOnesSpent',
           UNCHANGED <<goodDry, runVars>>
    PROVE  RunInv'
    BY DEF RunInv, LiveOnlyAfterDryRun, OnlyLivePlans, OpTyped, PlanInv, Planning, Acting, runVars

\* What Autotask did not return stays spent while tickets and rows stay as they are.
LEMMA ReadFrame ==
    ASSUME ReadOnesSpent, pc \in Planning, todo' \subseteq todo, UNCHANGED <<tickets, rows, seen>>
    PROVE  ReadOnesSpent'
    BY DEF ReadOnesSpent, Untracked, Latest, Spent

-----------------------------------------------------------------------------
(***************************************************************************)
(* Tickets as they grow older: whoever works on them, a ticket keeps its   *)
(* tag and what it was told, a deleted one stays deleted, and one is open  *)
(* again only as a reopened one.                                           *)
(***************************************************************************)

Older ==
    /\ Len(tickets') = Len(tickets)
    /\ \A k \in Ids :
         /\ tickets'[k].group = tickets[k].group /\ tickets'[k].gen = tickets[k].gen
         /\ tickets[k].said \subseteq tickets'[k].said
         /\ tickets[k].status = "deleted" => tickets'[k].status = "deleted"
         /\ tickets[k].reopened => tickets'[k].reopened
         /\ tickets'[k].status = "open" => tickets[k].status = "open" \/ tickets'[k].reopened

\* Older tickets keep everything that holds of tickets and rows.
LEMMA StoreOlder ==
    ASSUME TypeOK, StoreInv, Older, UNCHANGED <<rows, adopted>>
    PROVE  StoreInv'
    <1>1. \A g \in Groups : \A n \in 1..Len(rows[g]) : rows[g][n].ticket \in Ids
        BY DEF StoreInv, RowsNameTheirTickets, Ids
    <1>2. \A k \in Ids : Spent(k) => Spent(k)'
        BY DEF Older, Spent
    <1>3. RowsNameTheirTickets'
        BY <1>1 DEF StoreInv, RowsNameTheirTickets, Older, Ids
    <1>4. Generations'
        BY DEF StoreInv, Generations, Older, Ids
    <1>5. NoDuplicateTicket'
        BY DEF StoreInv, NoDuplicateTicket, Older, Ids
    <1>6. RowHasTheTicket'
        BY DEF StoreInv, RowHasTheTicket, Older, Ids
    <1>7. OneOpenTicket'
        BY DEF StoreInv, OneOpenTicket, Older, Ids
    <1>8. OldOnesSpent'
        BY <1>1, <1>2 DEF StoreInv, OldOnesSpent
    <1>9. RowWasSaid' /\ EmptyWasSaid'
        BY <1>1 DEF StoreInv, RowWasSaid, EmptyWasSaid, Older
    <1>10. QED
        BY <1>3, <1>4, <1>8, <1>9, <1>5, <1>6, <1>7 DEF StoreInv

\* A technician's step makes the tickets older.
LEMMA TechnicianOlder ==
    ASSUME TypeOK, NEW k \in Ids, NEW status \in {"open", "completed", "deleted"},
           TechnicianSets(k, status)
    PROVE  Older
    <1>1. \A j \in Ids : tickets[j] \in TicketType
        BY TicketsOf DEF Ids
    <1>2. tickets' = [tickets EXCEPT ![k] = WithStatus(tickets[k], status)] /\ tickets[k].status # "deleted"
        BY DEF TechnicianSets
    <1> DEFINE t == WithStatus(tickets[k], status)
    <1>3. /\ t.group = tickets[k].group /\ t.gen = tickets[k].gen /\ t.said = tickets[k].said
          /\ t.status = status
        BY <1>1 DEF WithStatus, TicketType
    <1>4. t.reopened = (tickets[k].reopened \/ status = "open")
        BY <1>1 DEF WithStatus, TicketType
    <1>5. (tickets[k].reopened => t.reopened) /\ (status = "open" => t.reopened)
        BY <1>4
    <1> HIDE DEF t
    <1>6. Len(tickets') = Len(tickets) /\ tickets'[k] = t /\ \A j \in Ids \ {k} : tickets'[j] = tickets[j]
        BY <1>2, TicketsOf DEF Ids, t
    <1>7. QED
        BY <1>2, <1>3, <1>5, <1>6 DEF Older

\* So do a note and a completion.
LEMMA RequestOlder ==
    ASSUME TypeOK, PostNote \/ SetStatus, op.row.ticket \in Ids
    PROVE  Older
    <1> DEFINE k == op.row.ticket
    <1>1. \A j \in Ids : tickets[j] \in TicketType
        BY TicketsOf DEF Ids
    <1>2. CASE UNCHANGED tickets
        BY <1>2 DEF Older, Ids
    <1>3. CASE tickets' = [tickets EXCEPT ![k] = WithNote(tickets[k], op.row.members)]
        BY <1>1, <1>3, TicketsOf DEF WithNote, Older, Ids, TicketType
    <1>4. CASE ~Rejected(k) /\ tickets' = [tickets EXCEPT ![k] = WithStatus(tickets[k], "completed")]
        BY <1>1, <1>4, TicketsOf DEF WithStatus, Rejected, Older, Ids, TicketType
    <1>5. CASE PostNote
        BY <1>2, <1>3, <1>5 DEF PostNote
    <1>6. CASE SetStatus
        BY <1>2, <1>4, <1>6 DEF SetStatus
    <1>7. QED
        BY <1>5, <1>6

\* A plan under way survives what a technician does.
LEMMA RunOlder ==
    ASSUME TypeOK, StoreInv, RunInv, Older,
           UNCHANGED <<goodDry, rows, adopted, pc, runVars, planVars>>
    PROVE  RunInv'
    <1>1. \A k \in Ids : Spent(k) => Spent(k)'
        BY DEF Older, Spent
    <1>2. \A g \in Groups : \A n \in 1..Len(rows[g]) : rows[g][n].ticket \in Ids
        BY DEF StoreInv, RowsNameTheirTickets, Ids
    <1>3. LiveOnlyAfterDryRun' /\ OnlyLivePlans' /\ OpTyped'
        BY DEF RunInv, LiveOnlyAfterDryRun, OnlyLivePlans, OpTyped, runVars, planVars
    <1>4. ReadOnesSpent'
        <2>1. ASSUME NEW g \in todo, ~Untracked(g) PROVE Latest(g).ticket \in Ids
            <3>1. g \in Groups
                BY DEF TypeOK
            <3>2. Latest(g) = rows[g][Len(rows[g])] /\ Len(rows[g]) \in 1..Len(rows[g])
                BY <2>1, <3>1, LatestOf
            <3>3. QED
                BY <1>2, <3>1, <3>2
        <2>2. QED
            BY <1>1, <2>1 DEF RunInv, ReadOnesSpent, runVars, planVars, Untracked, Latest
    <1>5. PlanInv'
        <2>1. op' = op /\ pc' = pc /\ rows' = rows /\ found' = found /\ cfg' = cfg /\ adopted' = adopted
            BY DEF runVars, planVars
        <2>2. pc \in {"find", "post"} => NewGeneration'
            BY <1>1, <1>2, <2>1 DEF RunInv, OpTyped, PlanInv, NewGeneration, Acting, Planning
        <2>3. pc = "post" => Tagged(op.group, op.gen)' = {}
            BY <2>1 DEF RunInv, PlanInv, Tagged, Older, Ids
        <2>4. pc \in {"note", "complete"} => op.row.ticket \in Ids
            BY <1>2, RowsOf DEF RunInv, OpTyped, PlanInv, SameGeneration, Acting, Planning
        <2>5. pc = "commit" => op.row.ticket \in Ids
            BY <1>2, RowsOf DEF RunInv, OpTyped, PlanInv, SameGeneration, Acting, Planning
        <2>6. SameGeneration' <=> SameGeneration
            BY <2>1 DEF SameGeneration
        <2>7. LastWord' <=> LastWord
            BY <2>1 DEF LastWord, AutoOn
        <2>8. (pc \in {"find", "post"} =>
                 /\ op.kind = "create" /\ NewGeneration /\ op.row.state = "open"
                 /\ op.row.members = found[op.group])'
            BY <2>1, <2>2 DEF RunInv, PlanInv
        <2>9. (pc = "complete" =>
                 /\ op.kind = "complete" /\ SameGeneration /\ LastWord
                 /\ op.row.state = "resolved"
                 /\ {} \in tickets[op.row.ticket].said)'
            BY <2>1, <2>4, <2>6, <2>7 DEF RunInv, PlanInv, Older
        <2>10. (pc = "note" =>
                 /\ op.kind \in {"note", "final"} /\ SameGeneration
                 /\ op.row.state = "open" \/ op.row.members = {}
                 /\ op.kind = "final" => LastWord /\ op.row.state = "open"
                 /\ op.row.state \in {"open", "resolved"})'
            BY <2>1, <2>6, <2>7 DEF RunInv, PlanInv
        <2>11. CASE pc = "commit" /\ op.kind \in {"create", "adopt"}
            <3>1. NewGeneration'
                BY <1>1, <1>2, <2>1, <2>11 DEF RunInv, OpTyped, PlanInv, NewGeneration, SameGeneration, Acting, Planning
            <3>2. OwnsTag'
                BY <2>1, <2>11 DEF RunInv, PlanInv, OwnsTag, Older, Ids
            <3>3. QED
                BY <1>1, <2>1, <2>5, <2>7, <2>11, <3>1, <3>2 DEF RunInv, PlanInv, Older, Ids
        <2>12. CASE pc = "commit" /\ op.kind \notin {"create", "adopt"}
            BY <1>1, <2>1, <2>5, <2>6, <2>7, <2>12 DEF RunInv, PlanInv, Older
        <2>13. CASE pc # "commit"
            BY <2>1, <2>3, <2>8, <2>9, <2>10, <2>13 DEF PlanInv
        <2>14. QED
            BY <2>11, <2>12, <2>13
    <1>6. QED
        BY <1>3, <1>4, <1>5 DEF RunInv

-----------------------------------------------------------------------------
(***************************************************************************)
(* A run begins and ends.                                                  *)
(***************************************************************************)

\* The gate lets a live run through only with the settings of the newest dry run.
LEMMA StartRunKeeps ==
    ASSUME IInv, NEW m \in {"dry_run", "live"}, StartRun(m)
    PROVE  StoreInv' /\ RunInv'
    <1>1. StoreInv'
        BY StoreFrame DEF IInv, StartRun
    <1>2. RunInv'
        BY DEF IInv, RunInv, StartRun, Gate, setVars, LiveOnlyAfterDryRun, OnlyLivePlans, OpTyped,
               ReadOnesSpent, PlanInv, Planning, Acting
    <1>3. QED
        BY <1>1, <1>2

\* A ticket that is not returned as open is not open.
LEMMA ReadAutotaskKeeps ==
    ASSUME IInv, ReadAutotask
    PROVE  StoreInv' /\ RunInv'
    <1>1. StoreInv'
        BY StoreFrame DEF IInv, ReadAutotask
    <1>2. ReadOnesSpent'
        <2>1. \A g \in Groups : ~Untracked(g) => Latest(g).ticket \in Ids
            BY LatestOf DEF IInv, StoreInv, RowsNameTheirTickets, Ids
        <2>2. QED
            BY <2>1 DEF ReadAutotask, ReadOnesSpent, Untracked, Latest, Spent, Ids
    <1>3. RunInv'
        BY <1>2 DEF IInv, RunInv, ReadAutotask, setVars, LiveOnlyAfterDryRun, OnlyLivePlans, OpTyped,
               PlanInv, Planning, Acting
    <1>4. QED
        BY <1>1, <1>3

\* Whichever way a run ends.
LEMMA EndKeeps ==
    ASSUME IInv, EndDryRun \/ EndRun \/ RunBreaks
    PROVE  StoreInv' /\ RunInv'
    <1>1. RunOver /\ UNCHANGED <<tickets, rows, adopted>>
        BY DEF EndDryRun, EndRun, RunBreaks
    <1>2. QED
        BY <1>1, StoreFrame, NothingKnown DEF IInv

-----------------------------------------------------------------------------
(***************************************************************************)
(* A plan is taken up.                                                     *)
(***************************************************************************)

\* What every plan has in common.
LEMMA TurnKeeps ==
    ASSUME IInv, NEW g \in Groups, Turn(g), UNCHANGED <<tickets, rows, seen>>, pc' \in Planning
    PROVE  /\ ReadOnesSpent'
           /\ mode = "live" /\ g \notin todo'
    BY ReadFrame DEF IInv, RunInv, Turn, Planning, OnlyLivePlans

\* A plan that waits for the next run.
LEMMA PassKeeps ==
    ASSUME IInv, NEW g \in Groups, Pass(g)
    PROVE  StoreInv' /\ RunInv'
    <1>1. StoreInv'
        BY StoreFrame DEF IInv, Pass
    <1>2. RunInv'
        BY TurnKeeps, PlanDone DEF IInv, Pass, Turn, Planning, runVars, setVars
    <1>3. QED
        BY <1>1, <1>2

\* Every reason for a new ticket leaves the older tickets of the group spent.
LEMMA OldTicketsSpent ==
    ASSUME IInv, NEW g \in Groups, Turn(g), NeedsTicket(g)
    PROVE  \A n \in 1..Len(rows[g]) : Spent(rows[g][n].ticket)
    <1> SUFFICES ASSUME NEW n \in 1..Len(rows[g])
                 PROVE  Spent(rows[g][n].ticket)
        OBVIOUS
    <1>1. Len(rows[g]) \in Nat /\ ~Untracked(g)
        BY RowsOf DEF IInv
    <1>2. CASE n < Len(rows[g])
        BY <1>2 DEF IInv, StoreInv, OldOnesSpent
    <1>3. CASE n = Len(rows[g])
        <2>1. CASE InState(g, "closed_in_psa")
            BY <2>1, <1>3 DEF IInv, StoreInv, OldOnesSpent, InState, Latest
        <2>2. CASE InState(g, "resolved") /\ ~StillOpen(g)
            BY <2>2, <1>3 DEF IInv, RunInv, ReadOnesSpent, InState, StillOpen, Latest, Turn, Planning
        <2>3. QED
            BY <1>1, <2>1, <2>2 DEF NeedsTicket
    <1>4. QED
        BY <1>1, <1>2, <1>3

\* A create.
LEMMA BeginCreateKeeps ==
    ASSUME IInv, NEW g \in Groups, BeginCreate(g)
    PROVE  StoreInv' /\ RunInv'
    <1>1. StoreInv'
        BY StoreFrame DEF IInv, BeginCreate
    <1>2. op' = Op("create", g, Len(rows[g]) + 1, Row(0, "open", found[g])) /\ pc' = "find"
        BY DEF BeginCreate
    <1>3. found[g] \in SUBSET Members /\ found[g] # {}
        BY DEF IInv, TypeOK, BeginCreate, NeedsTicket, Qualifies
    <1>4. OpTyped'
        BY <1>2, <1>3, RowsOf, TurnKeeps
           DEF IInv, BeginCreate, OpTyped, Op, Row, Kinds, RowType, Planning, runVars
    <1>5. NewGeneration'
        BY <1>2, <1>3, OldTicketsSpent DEF BeginCreate, NewGeneration, Op, Row, Spent
    <1>6. PlanInv'
        BY <1>2, <1>5 DEF PlanInv, Op, Row, BeginCreate, runVars
    <1>7. QED
        BY <1>1, <1>2, <1>4, <1>6, TurnKeeps
           DEF IInv, RunInv, BeginCreate, LiveOnlyAfterDryRun, OnlyLivePlans, runVars, setVars, Planning, Turn

\* A plan for the newest row.
LEMMA LatestPlan ==
    ASSUME IInv, NEW g \in Groups, ~Untracked(g), NEW kind \in Kinds, NEW row \in RowType,
           row.ticket = Latest(g).ticket,
           Turn(g), pc' \in Acting, op' = Op(kind, g, Len(rows[g]), row),
           UNCHANGED <<tickets, rows, adopted, runVars, setVars>>
    PROVE  /\ StoreInv'
           /\ PlanInv' => RunInv'
           /\ SameGeneration'
           /\ op'.row = row /\ op'.kind = kind /\ op'.group = g
           /\ row.ticket \in Ids
    <1>1. StoreInv'
        BY StoreFrame DEF IInv
    <1>2. SameGeneration' /\ op'.row = row /\ op'.kind = kind /\ op'.group = g
        BY LatestOf DEF IInv, SameGeneration, Op
    <1>3. ReadOnesSpent' /\ mode = "live" /\ g \notin todo'
        BY TurnKeeps DEF runVars, Acting, Planning
    <1>4. OpTyped'
        BY <1>3, LatestOf DEF IInv, OpTyped, Op
    <1>5. row.ticket \in Ids
        BY LatestOf DEF IInv, StoreInv, RowsNameTheirTickets, Ids
    <1>6. PlanInv' => RunInv'
        BY <1>3, <1>4 DEF IInv, RunInv, LiveOnlyAfterDryRun, OnlyLivePlans, runVars, setVars, Turn, Planning
    <1>7. QED
        BY <1>1, <1>2, <1>5, <1>6

\* A note: the final one only with nothing open and auto-complete on.
LEMMA BeginNoteKeeps ==
    ASSUME IInv, NEW g \in Groups, BeginNote(g)
    PROVE  StoreInv' /\ RunInv'
    <1> DEFINE state == IF found[g] = {} /\ ~AutoOn THEN "resolved" ELSE "open"
               kind == IF found[g] = {} /\ AutoOn THEN "final" ELSE "note"
               row == Moved(g, state, found[g])
    <1>1. ~Untracked(g) /\ Turn(g) /\ pc' = "note"
        BY DEF BeginNote, NeedsNote, InState
    <1>2. row \in RowType /\ row.ticket = Latest(g).ticket /\ row.state = state /\ row.members = found[g]
        BY <1>1, LatestOf DEF IInv, TypeOK, Moved, Row, RowType
    <1>3. op' = Op(kind, g, Len(rows[g]), row)
        BY DEF BeginNote
    <1>4. kind \in Kinds
        BY DEF Kinds
    <1>5. UNCHANGED <<tickets, rows, adopted, runVars, setVars>>
        BY DEF BeginNote
    <1> HIDE DEF row
    <1>6. /\ StoreInv' /\ (PlanInv' => RunInv') /\ SameGeneration'
          /\ op'.row = row /\ op'.kind = kind /\ op'.group = g
        BY <1>1, <1>2, <1>3, <1>4, <1>5, LatestPlan DEF Acting, Planning
    <1>7. PlanInv'
        BY <1>1, <1>2, <1>5, <1>6 DEF PlanInv, LastWord, AutoOn, runVars
    <1>8. QED
        BY <1>6, <1>7

\* A completion that is tried again.
LEMMA BeginCompleteKeeps ==
    ASSUME IInv, NEW g \in Groups, BeginComplete(g)
    PROVE  StoreInv' /\ RunInv'
    <1> DEFINE row == Row(Latest(g).ticket, "resolved", {})
    <1>1. ~Untracked(g) /\ Turn(g) /\ pc' = "complete" /\ found[g] = {} /\ AutoOn
          /\ Latest(g).state = "open" /\ Latest(g).members = {}
        BY DEF BeginComplete, NeedsCompletion, InState
    <1>2. row \in RowType /\ row.ticket = Latest(g).ticket /\ row.state = "resolved" /\ row.members = {}
        BY <1>1, LatestOf DEF IInv, Row, RowType
    <1>3. op' = Op("complete", g, Len(rows[g]), row)
        BY DEF BeginComplete, Completion
    <1>4. UNCHANGED <<tickets, rows, adopted, runVars, setVars>>
        BY DEF BeginComplete
    <1>5. {} \in tickets[Latest(g).ticket].said
        BY <1>1, LatestOf DEF IInv, StoreInv, EmptyWasSaid
    <1> HIDE DEF row
    <1>6. /\ StoreInv' /\ (PlanInv' => RunInv') /\ SameGeneration'
          /\ op'.row = row /\ op'.kind = "complete" /\ op'.group = g
        BY <1>1, <1>2, <1>3, <1>4, LatestPlan DEF Acting, Planning, Kinds
    <1>7. PlanInv'
        BY <1>1, <1>2, <1>4, <1>5, <1>6 DEF PlanInv, LastWord, AutoOn, runVars
    <1>8. QED
        BY <1>6, <1>7

\* A state that is only recorded: a ticket recorded as completed was not returned as open.
LEMMA BeginFlagKeeps ==
    ASSUME IInv, NEW g \in Groups, BeginFlag(g)
    PROVE  StoreInv' /\ RunInv'
    <1>1. ~Untracked(g) /\ Turn(g) /\ pc' = "commit"
        BY DEF BeginFlag, Flags
    <1>2. PICK row \in Flags(g) : op' = Op("flag", g, Len(rows[g]), row)
        BY DEF BeginFlag
    <1>3. row.ticket = Latest(g).ticket /\ row.state \in {"resolved", "closed_in_psa"}
        BY <1>1 DEF Flags, Moved, Row
    <1>4. row \in RowType
        <2>1. Latest(g) \in RowType /\ found[g] \subseteq Members
            BY <1>1, LatestOf DEF IInv, TypeOK
        <2>2. \E state \in {"resolved", "closed_in_psa"}, members \in {{}, found[g], Latest(g).members} :
                row = Row(Latest(g).ticket, state, members)
            BY <1>1 DEF Flags, Moved
        <2>3. QED
            BY <2>1, <2>2 DEF Row, RowType
    <1>5. row.state = "closed_in_psa" => Spent(row.ticket)
        <2>1. row.state = "closed_in_psa" => Latest(g).state = "open" /\ ~StillOpen(g)
            BY <1>1 DEF Flags, Moved, Row
        <2>2. QED
            BY <1>1, <1>3, <2>1 DEF IInv, RunInv, ReadOnesSpent, StillOpen, Turn, Planning
    <1>6. UNCHANGED <<tickets, rows, adopted, runVars, setVars>>
        BY DEF BeginFlag
    <1>7. /\ StoreInv' /\ (PlanInv' => RunInv') /\ SameGeneration'
          /\ op'.row = row /\ op'.kind = "flag" /\ op'.group = g
        BY <1>1, <1>2, <1>3, <1>4, <1>6, LatestPlan DEF Acting, Planning, Kinds
    <1>8. PlanInv'
        BY <1>1, <1>3, <1>5, <1>6, <1>7 DEF PlanInv, Spent
    <1>9. QED
        BY <1>7, <1>8

-----------------------------------------------------------------------------
(***************************************************************************)
(* Requests.                                                               *)
(***************************************************************************)

\* The search for a tag finds one ticket at most.
LEMMA OneHit ==
    ASSUME IInv, NEW g, NEW gen, Tagged(g, gen) # {}
    PROVE  /\ Oldest(Tagged(g, gen)) \in Tagged(g, gen)
           /\ \A j \in Tagged(g, gen) : j = Oldest(Tagged(g, gen))
    <1>1. \A i, j \in Tagged(g, gen) : ~(i < j)
        BY DEF IInv, StoreInv, NoDuplicateTicket, Tagged
    <1>2. Tagged(g, gen) \subseteq Nat
        BY TicketsOf DEF IInv, Tagged
    <1>3. \A i, j \in Tagged(g, gen) : i = j
        BY <1>1, <1>2
    <1> HIDE DEF Tagged
    <1>4. QED
        BY <1>2, <1>3 DEF Oldest

\* The ticket that is found by its tag is the only one with it: its row is for the
\* next generation, like that of a create.
LEMMA FindByTagKeeps ==
    ASSUME IInv, FindByTag
    PROVE  StoreInv' /\ RunInv'
    <1> DEFINE hits == Tagged(op.group, op.gen)
               k == Oldest(hits)
    <1>1. pc = "find" /\ UNCHANGED <<tickets, rows, runVars, todo, setVars>>
        BY DEF FindByTag
    <1>2. NewGeneration /\ op.kind = "create" /\ op.row.state = "open" /\ op.row.members = found[op.group]
        BY <1>1 DEF IInv, RunInv, PlanInv
    <1>3. mode = "live" /\ cfg = goodDry /\ OpTyped /\ op.group \notin todo /\ op.group \in Groups
        BY <1>1 DEF IInv, RunInv, OnlyLivePlans, LiveOnlyAfterDryRun, OpTyped, Planning, Acting
    <1>4. ReadOnesSpent'
        BY <1>1, ReadFrame DEF IInv, RunInv, Planning, runVars
    <1>5. StoreInv'
        <2>1. adopted \subseteq adopted'
            BY DEF FindByTag
        <2>2. RowWasSaid'
            BY <1>1, <2>1 DEF IInv, StoreInv, RowWasSaid
        <2>3. QED
            BY <1>1, <2>2 DEF IInv, StoreInv, RowsNameTheirTickets, Generations, NoDuplicateTicket,
               RowHasTheTicket, OldOnesSpent, OneOpenTicket, EmptyWasSaid, Ids, Spent
    <1>6. CASE hits = {}
        <2>1. pc' = "post" /\ UNCHANGED <<op, adopted>>
            BY <1>6 DEF FindByTag
        <2>2. PlanInv'
            BY <1>1, <1>2, <1>6, <2>1 DEF PlanInv, NewGeneration, Spent, Tagged, runVars
        <2>3. OpTyped'
            BY <1>1, <1>3, <2>1 DEF OpTyped, Acting, Planning
        <2>4. QED
            BY <1>1, <1>3, <1>4, <1>5, <2>1, <2>2, <2>3
               DEF RunInv, LiveOnlyAfterDryRun, OnlyLivePlans, Planning, runVars, setVars
    <1>7. CASE hits # {}
        <2>1. k \in hits /\ \A j \in hits : j = k
            BY <1>7, OneHit
        <2>2. /\ k \in Ids /\ tickets[k].group = op.group /\ tickets[k].gen = op.gen
              /\ tickets[k].status # "deleted" /\ tickets[k].status # "open" => Spent(k)
            BY <2>1 DEF Tagged, Ids, Spent
        <2> DEFINE row == Row(k, IF tickets[k].status = "open" THEN "open" ELSE "closed_in_psa", found[op.group])
        <2>3. op' = Op("adopt", op.group, op.gen, row) /\ adopted' = adopted \cup {k} /\ pc' = "commit"
            BY <1>7 DEF FindByTag
        <2> HIDE DEF k, hits
        <2>4. /\ row.ticket = k /\ row.members = found[op.group]
              /\ row.state \in {"open", "closed_in_psa"}
              /\ row.state = "closed_in_psa" => tickets[k].status # "open"
              /\ row \in RowType
            BY <1>3, <2>2, TicketsOf DEF IInv, TypeOK, Row, RowType, Ids
        <2> HIDE DEF row
        <2>5. op'.kind = "adopt" /\ op'.group = op.group /\ op'.gen = op.gen /\ op'.row = row
            BY <2>3 DEF Op
        <2>6. NewGeneration'
            BY <1>1, <1>2, <2>4, <2>5 DEF NewGeneration, Spent
        <2>7. OwnsTag'
            BY <1>1, <2>1, <2>4, <2>5 DEF OwnsTag, Tagged, Ids, hits
        <2>8. PlanInv'
            <3>1. (pc = "commit" =>
                     /\ op.kind \in {"create", "adopt"} /\ NewGeneration /\ OwnsTag
                     /\ op.row.ticket \in Ids
                     /\ tickets[op.row.ticket].group = op.group
                     /\ tickets[op.row.ticket].gen = op.gen)'
                BY <1>1, <2>2, <2>4, <2>5, <2>6, <2>7 DEF Ids
            <3>2. (op.row.state = "closed_in_psa" => Spent(op.row.ticket))'
                BY <1>1, <2>2, <2>4, <2>5 DEF Spent
            <3>3. op'.row.ticket \in adopted' /\ op'.row.members # {} /\ op'.kind # "final"
                BY <1>2, <2>3, <2>4, <2>5 DEF NewGeneration
            <3>4. QED
                BY <2>3, <3>1, <3>2, <3>3 DEF PlanInv
        <2>9. OpTyped'
            BY <1>1, <1>3, <2>3, <2>4 DEF OpTyped, Op, Kinds, Acting, Planning
        <2>10. QED
            BY <1>1, <1>3, <1>4, <1>5, <2>3, <2>8, <2>9
               DEF RunInv, LiveOnlyAfterDryRun, OnlyLivePlans, Planning, runVars, setVars
    <1>8. QED
        BY <1>6, <1>7

\* The ticket that PostTicket creates.
NewTicket == [group |-> op.group, gen |-> op.gen, status |-> "open",
              told |-> op.row.members, said |-> {op.row.members}, reopened |-> FALSE]

\* A new ticket joins the others, which stay as they are.
LEMMA Joined ==
    ASSUME TypeOK, tickets' = Append(tickets, NewTicket)
    PROVE  /\ Len(tickets') = Len(tickets) + 1
           /\ \A k \in Ids : k \in Ids' /\ tickets'[k] = tickets[k]
           /\ \A k \in Ids' : k \in Ids \/ k = Len(tickets) + 1
           /\ Len(tickets) + 1 \in Ids' /\ Len(tickets) + 1 \notin Ids
           /\ tickets'[Len(tickets) + 1] = NewTicket
    BY TicketsOf, AppendProperties DEF Ids, TypeOK

\* A ticket is created for the next generation of a group whose tickets are spent.
LEMMA PostTicketStore ==
    ASSUME IInv, PostTicket
    PROVE  StoreInv'
    <1> DEFINE new == Len(tickets) + 1
    <1>1. pc = "post" /\ tickets' = Append(tickets, NewTicket) /\ UNCHANGED <<rows, adopted>>
        BY DEF PostTicket, NewTicket
    <1>2. NewGeneration /\ Tagged(op.group, op.gen) = {} /\ op.group \in Groups
        BY <1>1 DEF IInv, RunInv, PlanInv, OpTyped, Acting, Planning
    <1>3. TypeOK /\ StoreInv
        BY DEF IInv
    <1>4. /\ \A k \in Ids : k \in Ids' /\ tickets'[k] = tickets[k]
          /\ \A k \in Ids' : k \in Ids \/ k = new
          /\ new \notin Ids /\ new \in Ids' /\ tickets'[new] = NewTicket
        BY <1>1, <1>3, Joined
    <1>5. \A g \in Groups : \A n \in 1..Len(rows[g]) : rows[g][n].ticket \in Ids
        BY <1>3 DEF StoreInv, RowsNameTheirTickets, Ids
    <1>6. Len(rows[op.group]) \in Nat
        BY <1>2, <1>3, RowsOf
    <1>7. NewTicket.group = op.group /\ NewTicket.gen = Len(rows[op.group]) + 1
          /\ NewTicket.status = "open" /\ NewTicket.said = {op.row.members}
        BY <1>2 DEF NewTicket, NewGeneration
    <1>8. \A k \in Ids : Spent(k) => Spent(k)'
        BY <1>4 DEF Spent
    <1>9. RowsNameTheirTickets'
        BY <1>1, <1>3, <1>4, <1>5 DEF StoreInv, RowsNameTheirTickets, Ids
    <1>10. Generations'
        <2> SUFFICES ASSUME NEW k \in Ids'
                     PROVE  tickets'[k].gen <= Len(rows[tickets'[k].group]) + 1
            BY <1>1 DEF Generations
        <2>1. CASE k \in Ids
            BY <1>3, <1>4, <2>1 DEF StoreInv, Generations
        <2>2. CASE k = new
            <3>1. tickets'[k].gen = Len(rows[op.group]) + 1 /\ tickets'[k].group = op.group
                BY <1>4, <1>7, <2>2
            <3>2. QED
                BY <1>6, <3>1
        <2>3. QED
            BY <1>4, <2>1, <2>2
    <1>11. RowHasTheTicket'
        <2> SUFFICES ASSUME NEW k \in Ids', tickets'[k].gen <= Len(rows[tickets'[k].group])
                     PROVE  tickets'[k].status = "deleted" \/ k = rows[tickets'[k].group][tickets'[k].gen].ticket
            BY <1>1 DEF RowHasTheTicket
        <2>1. CASE k \in Ids
            BY <1>3, <1>4, <2>1 DEF StoreInv, RowHasTheTicket
        <2>2. CASE k = new
            <3>1. tickets'[k].gen = Len(rows[op.group]) + 1 /\ tickets'[k].group = op.group
                BY <1>4, <1>7, <2>2
            <3>2. QED
                BY <1>6, <3>1
        <2>3. QED
            BY <1>4, <2>1, <2>2
    <1>12. OldOnesSpent'
        BY <1>1, <1>3, <1>5, <1>8 DEF StoreInv, OldOnesSpent
    <1>13. RowWasSaid' /\ EmptyWasSaid'
        BY <1>1, <1>3, <1>4, <1>5 DEF StoreInv, RowWasSaid, EmptyWasSaid
    <1>14. \A k \in Ids : tickets[k].group = op.group /\ tickets[k].gen = op.gen => tickets[k].status = "deleted"
        BY <1>2 DEF Tagged, Ids
    <1>15. \A k \in Ids : tickets[k].group = op.group => Spent(k)
        <2> SUFFICES ASSUME NEW k \in Ids, tickets[k].group = op.group
                     PROVE  Spent(k)
            OBVIOUS
        <2>1. tickets[k].gen \in Nat \ {0} /\ tickets[k].gen <= Len(rows[op.group]) + 1
            BY <1>3, TicketsOf DEF StoreInv, Generations, Ids, TicketType
        <2>2. CASE tickets[k].gen = Len(rows[op.group]) + 1
            BY <1>2, <1>14, <2>2 DEF NewGeneration, Spent
        <2>3. CASE tickets[k].gen <= Len(rows[op.group])
            <3>1. tickets[k].gen \in 1..Len(rows[op.group])
                BY <1>6, <2>1, <2>3
            <3>2. tickets[k].status = "deleted" \/ k = rows[op.group][tickets[k].gen].ticket
                BY <1>3, <2>3 DEF StoreInv, RowHasTheTicket
            <3>3. Spent(rows[op.group][tickets[k].gen].ticket)
                BY <1>2, <3>1 DEF NewGeneration
            <3>4. QED
                BY <3>2, <3>3 DEF Spent
        <2>4. QED
            BY <1>6, <2>1, <2>2, <2>3
    <1>16. \A i, j \in Ids' : i < j => i \in Ids
        BY <1>3, <1>4, TicketsOf DEF Ids
    <1>17. NoDuplicateTicket'
        <2> SUFFICES ASSUME NEW i \in Ids', NEW j \in Ids', i < j,
                            tickets'[i].group = tickets'[j].group, tickets'[i].gen = tickets'[j].gen
                     PROVE  tickets'[i].status = "deleted" \/ tickets'[j].status = "deleted"
            BY DEF NoDuplicateTicket, Ids
        <2>1. CASE j \in Ids
            BY <1>3, <1>4, <1>16, <2>1 DEF StoreInv, NoDuplicateTicket, Ids
        <2>2. CASE j = new
            BY <1>2, <1>4, <1>7, <1>14, <1>16, <2>2 DEF NewGeneration
        <2>3. QED
            BY <1>4, <2>1, <2>2
    <1>18. OneOpenTicket'
        <2> SUFFICES ASSUME NEW i \in Ids', NEW j \in Ids', i < j,
                            tickets'[i].group = tickets'[j].group,
                            tickets'[i].status = "open", tickets'[j].status = "open"
                     PROVE  tickets'[i].reopened \/ tickets'[j].reopened
            BY DEF OneOpenTicket, Ids
        <2>1. CASE j \in Ids
            BY <1>3, <1>4, <1>16, <2>1 DEF StoreInv, OneOpenTicket, Ids
        <2>2. CASE j = new
            BY <1>4, <1>7, <1>15, <1>16, <2>2 DEF Spent
        <2>3. QED
            BY <1>4, <2>1, <2>2
    <1>19. QED
        BY <1>9, <1>10, <1>11, <1>12, <1>13, <1>17, <1>18 DEF StoreInv

\* The plan of a create whose answer arrived names the new ticket.
LEMMA PostTicketRun ==
    ASSUME IInv, PostTicket
    PROVE  RunInv'
    <1> DEFINE new == Len(tickets) + 1
    <1>1. /\ pc = "post" /\ tickets' = Append(tickets, NewTicket)
          /\ UNCHANGED <<rows, adopted, setVars, runVars, todo>>
        BY DEF PostTicket, NewTicket
    <1>2. /\ \A k \in Ids : k \in Ids' /\ tickets'[k] = tickets[k]
          /\ \A k \in Ids' : k \in Ids \/ k = new
          /\ new \notin Ids /\ new \in Ids' /\ tickets'[new] = NewTicket
        BY <1>1, Joined DEF IInv
    <1>3. \A g \in Groups : \A n \in 1..Len(rows[g]) : rows[g][n].ticket \in Ids
        BY DEF IInv, StoreInv, RowsNameTheirTickets, Ids
    <1>4. ReadOnesSpent'
        <2>1. \A g \in todo : ~Untracked(g) => Latest(g).ticket \in Ids
            BY <1>3, LatestOf DEF IInv, TypeOK
        <2>2. ReadOnesSpent /\ pc \in Planning
            BY <1>1 DEF IInv, RunInv, Planning
        <2>3. QED
            BY <1>1, <1>2, <2>1, <2>2 DEF ReadOnesSpent, runVars, Untracked, Latest, Spent
    <1>5. CASE AnswerLost
        <2>1. pc' = "next" /\ pc \in Planning
            BY <1>1, <1>5 DEF AnswerLost, NextPlan, Planning
        <2>2. QED
            BY <1>1, <1>4, <2>1, PlanDone DEF IInv, setVars
    <1>6. CASE Answered /\ op' = [op EXCEPT !.row.ticket = new]
        <2>1. /\ op.kind = "create" /\ NewGeneration /\ Tagged(op.group, op.gen) = {}
              /\ op.row.state = "open" /\ mode = "live" /\ cfg = goodDry
            BY <1>1 DEF IInv, RunInv, PlanInv, OnlyLivePlans, LiveOnlyAfterDryRun, Planning
        <2>2. /\ op \in [kind : Kinds, group : Groups, gen : Nat \ {0}, row : RowType]
              /\ op.group \notin todo
            BY <1>1 DEF IInv, RunInv, OpTyped, Acting, Planning
        <2>3. /\ op'.kind = op.kind /\ op'.group = op.group /\ op'.gen = op.gen
              /\ op'.row.ticket = new /\ op'.row.state = "open" /\ op'.row.members = op.row.members
              /\ op' \in [kind : Kinds, group : Groups, gen : Nat \ {0}, row : RowType]
            BY <1>6, <2>1, <2>2, TicketsOf DEF IInv, RowType
        <2>4. pc' = "commit"
            BY <1>6 DEF Answered
        <2>5. NewTicket.group = op.group /\ NewTicket.gen = op.gen /\ NewTicket.said = {op.row.members}
            BY DEF NewTicket
        <2>6. NewGeneration'
            <3>1. \A n \in 1..Len(rows[op.group]) : tickets'[rows[op.group][n].ticket] = tickets[rows[op.group][n].ticket]
                BY <1>2, <1>3, <2>2
            <3>2. \A n \in 1..Len(rows[op.group]) : Spent(rows[op.group][n].ticket)'
                BY <1>1, <2>1, <2>3, <3>1 DEF NewGeneration, Spent
            <3>3. QED
                BY <1>1, <2>1, <2>3, <3>2 DEF NewGeneration, Spent
        <2>7. OwnsTag'
            <3>1. \A k \in Ids : tickets[k].group = op.group /\ tickets[k].gen = op.gen
                                => tickets[k].status = "deleted"
                BY <2>1 DEF Tagged, Ids
            <3>2. QED
                BY <1>2, <2>3, <3>1 DEF OwnsTag
        <2>8. PlanInv'
            <3>1. (/\ op.kind \in {"create", "adopt"} /\ NewGeneration /\ OwnsTag
                   /\ op.row.ticket \in Ids
                   /\ tickets[op.row.ticket].group = op.group
                   /\ tickets[op.row.ticket].gen = op.gen)'
                BY <1>2, <2>1, <2>3, <2>5, <2>6, <2>7
            <3>2. op'.row.members \in tickets'[op'.row.ticket].said /\ op'.row.members # {}
                BY <1>2, <2>1, <2>3, <2>5 DEF NewGeneration
            <3>3. QED
                BY <2>1, <2>3, <2>4, <3>1, <3>2 DEF PlanInv
        <2>9. OpTyped'
            BY <1>1, <2>2, <2>3, <2>4 DEF OpTyped
        <2>10. QED
            BY <1>1, <1>4, <2>1, <2>4, <2>8, <2>9
               DEF RunInv, LiveOnlyAfterDryRun, OnlyLivePlans, Planning, runVars, setVars
    <1>7. QED
        BY <1>5, <1>6 DEF PostTicket

\* A note and a completion.
LEMMA RequestKeeps ==
    ASSUME IInv, PostNote \/ SetStatus
    PROVE  StoreInv' /\ RunInv'
    <1>1. pc \in {"note", "complete"} /\ UNCHANGED <<rows, adopted, setVars, runVars, todo>>
        BY DEF PostNote, SetStatus
    <1>2. pc = "note" => PostNote
        BY DEF PostNote, SetStatus
    <1>3. /\ SameGeneration /\ op.group \in Groups /\ op.gen \in Nat \ {0}
          /\ op \in [kind : Kinds, group : Groups, gen : Nat \ {0}, row : RowType]
          /\ op.group \notin todo /\ mode = "live" /\ cfg = goodDry
        BY <1>1 DEF IInv, RunInv, PlanInv, OpTyped, OnlyLivePlans, LiveOnlyAfterDryRun, Acting, Planning
    <1>4. op.row.ticket \in Ids
        BY <1>3, RowsOf DEF IInv, StoreInv, RowsNameTheirTickets, SameGeneration, Ids
    <1>5. Older
        BY <1>4, RequestOlder DEF IInv
    <1>6. StoreInv'
        BY <1>1, <1>5, StoreOlder DEF IInv
    <1>7. \A k \in Ids : Spent(k) => Spent(k)'
        BY <1>5 DEF Older, Spent
    <1>8. ReadOnesSpent'
        <2>1. \A g \in todo : ~Untracked(g) => Latest(g).ticket \in Ids
            BY LatestOf DEF IInv, TypeOK, StoreInv, RowsNameTheirTickets, Ids
        <2>2. ReadOnesSpent /\ pc \in Planning
            BY <1>1 DEF IInv, RunInv, Planning
        <2>3. QED
            BY <1>1, <1>7, <2>1, <2>2 DEF ReadOnesSpent, runVars, Untracked, Latest
    <1>9. /\ pc \in Planning /\ RunInv /\ UNCHANGED <<goodDry, runVars>> /\ todo' = todo
          /\ mode' = "live" /\ cfg' = goodDry'
        BY <1>1, <1>3 DEF IInv, Planning, setVars, runVars
    <1>10. CASE pc' = "next"
        BY <1>6, <1>8, <1>10, <1>9, PlanDone
    <1>11. CASE pc' = "commit" /\ op' = op
        <2>1. SameGeneration'
            BY <1>1, <1>3, <1>11 DEF SameGeneration
        <2>2. /\ op.kind \in {"note", "final", "complete"} /\ op.row.state # "closed_in_psa"
              /\ op.kind = "final" => LastWord /\ op.row.state = "open"
              /\ op.row.state = "open" => pc = "note"
            BY <1>1 DEF IInv, RunInv, PlanInv
        <2>3. pc = "note" => op.row.members \in tickets'[op.row.ticket].said
            <3>1. tickets[op.row.ticket] \in TicketType
                BY <1>4, TicketsOf DEF IInv, Ids
            <3>2. pc = "note" => tickets' = [tickets EXCEPT ![op.row.ticket] =
                                                WithNote(tickets[op.row.ticket], op.row.members)]
                BY <1>11, <1>2 DEF PostNote, NextPlan
            <3>3. op.row.members \in WithNote(tickets[op.row.ticket], op.row.members).said
                BY <3>1 DEF TicketType, WithNote
            <3>4. QED
                BY <1>4, <3>2, <3>3, TicketsOf DEF IInv, Ids
        <2>4. LastWord' <=> LastWord
            BY <1>1, <1>11 DEF LastWord, AutoOn, runVars
        <2>5. PlanInv'
            BY <1>11, <2>1, <2>2, <2>3, <2>4 DEF PlanInv
        <2>6. OpTyped'
            BY <1>1, <1>3, <1>11 DEF OpTyped
        <2>7. QED
            BY <1>6, <1>8, <1>9, <2>5, <2>6 DEF RunInv, LiveOnlyAfterDryRun, OnlyLivePlans
    <1>12. QED
        BY <1>10, <1>11 DEF PostNote, SetStatus, NextPlan, Answered, AnswerLost

\* A request that fails.
LEMMA RequestFailsKeeps ==
    ASSUME IInv, RequestFails
    PROVE  StoreInv' /\ RunInv'
    <1>1. /\ pc \in Planning /\ pc' = "next" /\ UNCHANGED <<tickets, rows, adopted, runVars, setVars, todo>>
        BY DEF RequestFails, AnswerLost, NextPlan, Planning
    <1>2. StoreInv'
        BY <1>1, StoreFrame DEF IInv
    <1>3. ReadOnesSpent'
        BY <1>1, ReadFrame DEF IInv, RunInv, runVars
    <1>4. QED
        BY <1>1, <1>2, <1>3, PlanDone DEF IInv, setVars

-----------------------------------------------------------------------------
(***************************************************************************)
(* The commit of a row.                                                    *)
(***************************************************************************)

\* What a commit knows of its plan.
LEMMA CommitPlan ==
    ASSUME IInv, Commit
    PROVE  /\ op \in [kind : Kinds, group : Groups, gen : Nat \ {0}, row : RowType]
           /\ op.row.ticket \in Ids
           /\ tickets[op.row.ticket].group = op.group /\ tickets[op.row.ticket].gen = op.gen
           /\ OwnsTag
           /\ \/ op.kind \in {"create", "adopt"} /\ NewGeneration
              \/ op.kind \notin {"create", "adopt"} /\ SameGeneration
           /\ op.gen \in 1..(Len(rows[op.group]) + 1)
    <1>1. pc = "commit"
        BY DEF Commit
    <1>2. op \in [kind : Kinds, group : Groups, gen : Nat \ {0}, row : RowType]
        BY <1>1 DEF IInv, RunInv, OpTyped, Acting, Planning
    <1>3. Len(rows[op.group]) \in Nat
        BY <1>2, RowsOf DEF IInv
    <1>4. CASE op.kind \in {"create", "adopt"}
        <2>1. /\ NewGeneration /\ OwnsTag /\ op.row.ticket \in Ids
              /\ tickets[op.row.ticket].group = op.group /\ tickets[op.row.ticket].gen = op.gen
            BY <1>1, <1>4 DEF IInv, RunInv, PlanInv
        <2>2. QED
            BY <1>2, <1>3, <1>4, <2>1 DEF NewGeneration
    <1>5. CASE op.kind \notin {"create", "adopt"}
        <2>1. SameGeneration
            BY <1>1, <1>5 DEF IInv, RunInv, PlanInv
        <2>2. op.gen \in 1..Len(rows[op.group]) /\ op.row.ticket = rows[op.group][op.gen].ticket
            BY <1>2, <1>3, <2>1 DEF SameGeneration
        <2>3. /\ op.row.ticket \in Ids
              /\ tickets[op.row.ticket].group = op.group /\ tickets[op.row.ticket].gen = op.gen
            BY <1>2, <2>2 DEF IInv, StoreInv, RowsNameTheirTickets, Ids
        <2>4. OwnsTag
            <3>1. op.gen <= Len(rows[op.group])
                BY <1>3, <2>2
            <3>2. QED
                BY <2>2, <3>1 DEF IInv, StoreInv, RowHasTheTicket, OwnsTag
        <2>5. QED
            BY <1>2, <1>3, <1>5, <2>1, <2>2, <2>3, <2>4
    <1>6. QED
        BY <1>4, <1>5

\* The rows after a commit: the plan's row in its place, the others as they were.
LEMMA CommittedRows ==
    ASSUME IInv, Commit
    PROVE  /\ \A g \in Groups \ {op.group} : rows'[g] = rows[g]
           /\ Len(rows'[op.group]) = IF op.kind \in {"create", "adopt"} THEN op.gen ELSE Len(rows[op.group])
           /\ op.gen = Len(rows'[op.group])
           /\ rows'[op.group][op.gen] = op.row
           /\ \A n \in 1..Len(rows'[op.group]) :
                n # op.gen => n \in 1..Len(rows[op.group]) /\ rows'[op.group][n] = rows[op.group][n]
           /\ Len(rows[op.group]) <= Len(rows'[op.group])
           /\ rows' \in [Groups -> Seq(RowType)]
    <1> DEFINE g == op.group
               committed == IF op.gen > Len(rows[g]) THEN Append(rows[g], op.row) ELSE [rows[g] EXCEPT ![op.gen] = op.row]
    <1>1. /\ g \in Groups /\ op.row \in RowType /\ op.gen \in Nat \ {0}
          /\ \/ op.kind \in {"create", "adopt"} /\ NewGeneration
             \/ op.kind \notin {"create", "adopt"} /\ SameGeneration
        BY CommitPlan
    <1>2. rows \in [Groups -> Seq(RowType)] /\ rows[g] \in Seq(RowType) /\ Len(rows[g]) \in Nat
        BY <1>1, RowsOf DEF IInv, TypeOK
    <1>3. rows' = [rows EXCEPT ![g] = committed]
        BY DEF Commit
    <1>4. CASE op.kind \in {"create", "adopt"}
        <2>1. op.gen = Len(rows[g]) + 1
            BY <1>1, <1>4 DEF NewGeneration
        <2>2. op.gen > Len(rows[g])
            BY <1>2, <2>1
        <2>3. committed = Append(rows[g], op.row)
            BY <2>2
        <2>4. rows' = [rows EXCEPT ![g] = Append(rows[g], op.row)]
            BY <1>3, <2>3
        <2>5. rows'[g] = Append(rows[g], op.row)
            BY <1>1, <1>2, <2>4
        <2>6. /\ Append(rows[g], op.row) \in Seq(RowType)
              /\ Len(Append(rows[g], op.row)) = Len(rows[g]) + 1
              /\ \A n \in 1..Len(rows[g]) : Append(rows[g], op.row)[n] = rows[g][n]
              /\ Append(rows[g], op.row)[Len(rows[g]) + 1] = op.row
            BY <1>1, <1>2, AppendProperties
        <2>7. \A h \in Groups \ {g} : rows'[h] = rows[h]
            BY <1>2, <2>4
        <2>8. rows' \in [Groups -> Seq(RowType)]
            BY <1>2, <2>4, <2>6
        <2> HIDE DEF g
        <2>9. QED
            BY <1>2, <1>4, <2>1, <2>5, <2>6, <2>7, <2>8 DEF g
    <1>5. CASE op.kind \notin {"create", "adopt"}
        <2>1. op.gen = Len(rows[g]) /\ op.gen \in 1..Len(rows[g])
            BY <1>1, <1>2, <1>5 DEF SameGeneration
        <2>2. ~(op.gen > Len(rows[g]))
            BY <1>2, <2>1
        <2>3. committed = [rows[g] EXCEPT ![op.gen] = op.row]
            BY <2>2
        <2>4. rows' = [rows EXCEPT ![g] = [rows[g] EXCEPT ![op.gen] = op.row]]
            BY <1>3, <2>3
        <2>5. rows'[g] = [rows[g] EXCEPT ![op.gen] = op.row]
            BY <1>1, <1>2, <2>4
        <2>6. /\ [rows[g] EXCEPT ![op.gen] = op.row] \in Seq(RowType)
              /\ Len([rows[g] EXCEPT ![op.gen] = op.row]) = Len(rows[g])
              /\ \A n \in 1..Len(rows[g]) :
                   [rows[g] EXCEPT ![op.gen] = op.row][n] = IF n = op.gen THEN op.row ELSE rows[g][n]
            BY <1>1, <1>2, <2>1, ExceptSeq
        <2>7. \A h \in Groups \ {g} : rows'[h] = rows[h]
            BY <1>2, <2>4
        <2>8. rows' \in [Groups -> Seq(RowType)]
            BY <1>2, <2>4, <2>6
        <2>9. QED
            BY <1>2, <1>5, <2>1, <2>5, <2>6, <2>7, <2>8
    <1>6. QED
        BY <1>4, <1>5

\* The row that is written names the plan's ticket and says what it was told.
LEMMA CommitStore ==
    ASSUME IInv, Commit
    PROVE  StoreInv'
    <1> DEFINE g == op.group
    <1>1. TypeOK /\ StoreInv /\ UNCHANGED <<tickets, adopted>>
        BY DEF IInv, Commit
    <1>2. /\ g \in Groups /\ op.row.ticket \in Ids /\ OwnsTag /\ op.gen \in Nat \ {0}
          /\ tickets[op.row.ticket].group = g /\ tickets[op.row.ticket].gen = op.gen
          /\ \/ op.kind \in {"create", "adopt"} /\ NewGeneration
             \/ op.kind \notin {"create", "adopt"} /\ SameGeneration
        BY CommitPlan
    <1>3. /\ op.row.state = "closed_in_psa" => Spent(op.row.ticket)
          /\ op.row.state = "open" =>
               /\ op.row.ticket \notin adopted => op.row.members \in tickets[op.row.ticket].said
               /\ op.row.members = {} => {} \in tickets[op.row.ticket].said
        BY DEF Commit, IInv, RunInv, PlanInv
    <1>4. /\ \A h \in Groups \ {g} : rows'[h] = rows[h]
          /\ op.gen = Len(rows'[g]) /\ rows'[g][op.gen] = op.row
          /\ \A n \in 1..Len(rows'[g]) : n # op.gen => n \in 1..Len(rows[g]) /\ rows'[g][n] = rows[g][n]
          /\ Len(rows[g]) <= Len(rows'[g])
        BY CommittedRows
    <1>5. \A h \in Groups : Len(rows[h]) \in Nat /\ Len(rows[h]) <= Len(rows'[h]) /\ Len(rows'[h]) \in Nat
        BY <1>1, <1>2, <1>4, RowsOf
    <1>6. \A k \in Ids : tickets[k].group \in Groups /\ tickets[k].gen \in Nat \ {0}
        BY <1>1, TicketsOf DEF Ids, TicketType
    <1> HIDE DEF g
    <1>7. RowsNameTheirTickets'
        <2> SUFFICES ASSUME NEW h \in Groups, NEW n \in 1..Len(rows'[h])
                     PROVE  /\ rows'[h][n].ticket \in Ids
                            /\ tickets[rows'[h][n].ticket].group = h /\ tickets[rows'[h][n].ticket].gen = n
            BY <1>1 DEF RowsNameTheirTickets, Ids
        <2>1. CASE h = g /\ n = op.gen
            BY <1>2, <1>4, <2>1
        <2>2. CASE h # g \/ n # op.gen
            <3>1. n \in 1..Len(rows[h]) /\ rows'[h][n] = rows[h][n]
                BY <1>4, <2>2
            <3>2. QED
                BY <1>1, <3>1 DEF StoreInv, RowsNameTheirTickets, Ids
        <2>3. QED
            BY <2>1, <2>2
    <1>8. Generations'
        <2> SUFFICES ASSUME NEW k \in Ids
                     PROVE  tickets[k].gen <= Len(rows'[tickets[k].group]) + 1
            BY <1>1 DEF Generations, Ids
        <2>1. tickets[k].gen <= Len(rows[tickets[k].group]) + 1
            BY <1>1 DEF StoreInv, Generations
        <2>2. QED
            BY <1>5, <1>6, <2>1
    <1>9. RowHasTheTicket'
        <2> SUFFICES ASSUME NEW k \in Ids, tickets[k].gen <= Len(rows'[tickets[k].group])
                     PROVE  tickets[k].status = "deleted" \/ k = rows'[tickets[k].group][tickets[k].gen].ticket
            BY <1>1 DEF RowHasTheTicket, Ids
        <2>1. CASE tickets[k].group = g /\ tickets[k].gen = op.gen
            BY <1>4, <1>2, <2>1 DEF OwnsTag, g
        <2>2. CASE tickets[k].group # g \/ tickets[k].gen # op.gen
            <3>1. tickets[k].gen \in 1..Len(rows'[tickets[k].group])
                BY <1>5, <1>6
            <3>2. /\ tickets[k].gen \in 1..Len(rows[tickets[k].group])
                  /\ rows'[tickets[k].group][tickets[k].gen] = rows[tickets[k].group][tickets[k].gen]
                BY <1>4, <1>6, <2>2, <3>1
            <3>3. tickets[k].gen <= Len(rows[tickets[k].group])
                BY <1>5, <1>6, <3>2
            <3>4. QED
                BY <1>1, <3>2, <3>3 DEF StoreInv, RowHasTheTicket
        <2>3. QED
            BY <2>1, <2>2
    <1>10. OldOnesSpent'
        <2> SUFFICES ASSUME NEW h \in Groups, NEW n \in 1..Len(rows'[h]),
                            n < Len(rows'[h]) \/ rows'[h][n].state = "closed_in_psa"
                     PROVE  Spent(rows'[h][n].ticket)
            BY <1>1 DEF OldOnesSpent, Spent
        <2>1. CASE h = g /\ n = op.gen
            BY <1>2, <1>3, <1>4, <2>1
        <2>2. CASE h # g
            BY <1>1, <1>4, <2>2 DEF StoreInv, OldOnesSpent
        <2>3. CASE h = g /\ n # op.gen
            <3>1. n \in 1..Len(rows[g]) /\ rows'[g][n] = rows[g][n]
                BY <1>4, <2>3
            <3>2. CASE NewGeneration
                BY <2>3, <3>1, <3>2 DEF NewGeneration, g
            <3>3. CASE SameGeneration
                <4>1. n < Len(rows[g])
                    BY <1>2, <1>4, <1>5, <2>3, <3>1, <3>3 DEF SameGeneration, g
                <4>2. QED
                    BY <1>1, <1>2, <2>3, <3>1, <4>1 DEF StoreInv, OldOnesSpent
            <3>4. QED
                BY <1>2, <3>2, <3>3
        <2>4. QED
            BY <2>1, <2>2, <2>3
    <1>11. RowWasSaid' /\ EmptyWasSaid'
        <2> SUFFICES ASSUME NEW h \in Groups, NEW n \in 1..Len(rows'[h]), rows'[h][n].state = "open"
                     PROVE  LET r == rows'[h][n] IN
                            /\ r.ticket \notin adopted => r.members \in tickets[r.ticket].said
                            /\ r.members = {} => {} \in tickets[r.ticket].said
            BY <1>1 DEF RowWasSaid, EmptyWasSaid
        <2>1. CASE h = g /\ n = op.gen
            BY <1>3, <1>4, <2>1
        <2>2. CASE h # g \/ n # op.gen
            <3>1. n \in 1..Len(rows[h]) /\ rows'[h][n] = rows[h][n]
                BY <1>4, <2>2
            <3>2. QED
                BY <1>1, <3>1 DEF StoreInv, RowWasSaid, EmptyWasSaid
        <2>3. QED
            BY <2>1, <2>2
    <1>12. NoDuplicateTicket' /\ OneOpenTicket'
        BY <1>1 DEF StoreInv, NoDuplicateTicket, OneOpenTicket
    <1>13. QED
        BY <1>7, <1>8, <1>9, <1>10, <1>11, <1>12 DEF StoreInv

\* After the final note comes the completion, after anything else the next plan.
LEMMA CommitRun ==
    ASSUME IInv, Commit
    PROVE  RunInv'
    <1>1. /\ pc = "commit" /\ pc \in Planning /\ RunInv
          /\ UNCHANGED <<goodDry, runVars, tickets, adopted>> /\ todo' = todo
        BY DEF IInv, Commit, Planning, setVars
    <1>2. /\ op.group \in Groups /\ op.group \notin todo /\ op.gen \in Nat \ {0} /\ op.row.ticket \in Nat
        BY <1>1 DEF RunInv, OpTyped, Acting, Planning, RowType
    <1>3. ReadOnesSpent'
        <2>1. \A g \in todo : rows'[g] = rows[g]
            BY <1>1, <1>2, CommittedRows DEF IInv, TypeOK
        <2>2. QED
            BY <1>1, <2>1 DEF RunInv, ReadOnesSpent, runVars, Untracked, Latest, Spent
    <1>4. CASE op.kind # "final"
        <2>1. pc' = "next"
            BY <1>4 DEF Commit, NextPlan
        <2>2. QED
            BY <1>1, <1>3, <2>1, PlanDone
    <1>5. CASE op.kind = "final"
        <2>1. pc' = "complete" /\ op' = Completion(op.group, op.gen, op.row.ticket)
            BY <1>5 DEF Commit
        <2>2. LastWord /\ op.row.state = "open" /\ op.row.members = {} /\ {} \in tickets[op.row.ticket].said
            BY <1>1, <1>5 DEF RunInv, PlanInv, LastWord
        <2>3. /\ op'.kind = "complete" /\ op'.group = op.group /\ op'.gen = op.gen
              /\ op'.row = Row(op.row.ticket, "resolved", {})
            BY <2>1 DEF Completion, Op
        <2>4. /\ op'.row.ticket = op.row.ticket /\ op'.row.state = "resolved" /\ op'.row.members = {}
              /\ op'.row \in RowType
            BY <1>2, <2>3 DEF Row, RowType
        <2>5. SameGeneration'
            <3>1. op.gen = Len(rows'[op.group]) /\ rows'[op.group][op.gen] = op.row
                BY CommittedRows
            <3>2. QED
                BY <2>3, <2>4, <3>1 DEF SameGeneration
        <2>6. PlanInv'
            BY <1>1, <2>1, <2>2, <2>3, <2>4, <2>5 DEF PlanInv, LastWord, AutoOn, runVars
        <2>7. OpTyped'
            <3>1. op' \in [kind : Kinds, group : Groups, gen : Nat \ {0}, row : RowType]
                BY <1>2, <2>1, <2>3, <2>4 DEF Completion, Op, Kinds
            <3>2. QED
                BY <1>1, <1>2, <2>3, <3>1 DEF OpTyped
        <2>8. mode' = "live" /\ cfg' = goodDry'
            BY <1>1 DEF RunInv, OnlyLivePlans, LiveOnlyAfterDryRun, Planning, runVars
        <2>9. QED
            BY <1>3, <2>6, <2>7, <2>8 DEF RunInv, OnlyLivePlans, LiveOnlyAfterDryRun
    <1>6. QED
        BY <1>4, <1>5

-----------------------------------------------------------------------------
(***************************************************************************)
(* Types.                                                                  *)
(***************************************************************************)

\* The steps of the world around a run, and the run's claim.
LEMMA WorldTypes ==
    ASSUME TypeOK
    PROVE  /\ \A g \in Groups, S \in SUBSET Members : FindingsChange(g, S) => TypeOK'
           /\ \A c \in Configs : SaveDryRun(c) \/ SaveLiveCheck(c) => TypeOK'
           /\ SaveLive => TypeOK'
           /\ \A m \in {"dry_run", "live"} : StartRun(m) => TypeOK'
    <1>1. ASSUME NEW g \in Groups, NEW S \in SUBSET Members, FindingsChange(g, S) PROVE TypeOK'
        BY <1>1, NumbersAssumption DEF TypeOK, FindingsChange, Change, setVars, runVars, planVars
    <1>2. ASSUME NEW c \in Configs, SaveDryRun(c) PROVE TypeOK'
        BY <1>2 DEF TypeOK, SaveDryRun, runVars, planVars
    <1>3. ASSUME NEW c \in Configs, SaveLiveCheck(c) PROVE TypeOK'
        BY <1>3 DEF TypeOK, SaveLiveCheck, runVars, planVars
    <1>4. ASSUME SaveLive PROVE TypeOK'
        BY <1>4 DEF TypeOK, SaveLive, runVars, planVars
    <1>5. ASSUME NEW m \in {"dry_run", "live"}, StartRun(m) PROVE TypeOK'
        BY <1>5 DEF TypeOK, StartRun, setVars, planVars
    <1>6. QED
        BY <1>1, <1>2, <1>3, <1>4, <1>5

\* A technician's step.
LEMMA TechnicianTypes ==
    ASSUME TypeOK, NEW k \in Ids, NEW status \in {"open", "completed", "deleted"}, TechnicianSets(k, status)
    PROVE  TypeOK'
    <1>1. tickets[k] \in TicketType
        BY TicketsOf DEF Ids
    <1> DEFINE older == WithStatus(tickets[k], status)
    <1>2. older \in TicketType
        BY <1>1 DEF TicketType, WithStatus
    <1>3. tickets' = [tickets EXCEPT ![k] = older]
        BY DEF TechnicianSets
    <1> HIDE DEF older
    <1>4. tickets' \in Seq(TicketType) /\ Len(tickets') = Len(tickets)
        BY <1>2, <1>3, TicketsOf, ExceptSeq DEF Ids
    <1>5. QED
        BY <1>4, NumbersAssumption DEF TypeOK, TechnicianSets, Change, setVars, runVars, planVars

\* The end of a run.
LEMMA EndTypes ==
    ASSUME TypeOK, EndDryRun \/ EndRun \/ RunBreaks
    PROVE  TypeOK'
    <1>1. RunOver /\ UNCHANGED <<settings, saving, inventory, tickets, rows, adopted, changes>>
        BY DEF EndDryRun, EndRun, RunBreaks, setVars
    <1>2. faults' \in 0..MaxFaults
        BY NumbersAssumption DEF TypeOK, EndDryRun, EndRun, RunBreaks, Fault
    <1>3. goodDry' \in Configs \cup {NoConfig}
        BY DEF TypeOK, EndDryRun, EndRun, RunBreaks, setVars
    <1>4. QED
        BY <1>1, <1>2, <1>3, NumbersAssumption DEF TypeOK, RunOver, NothingSent

\* The steps of a run that leave the store alone.
LEMMA PlanTypes ==
    ASSUME TypeOK
    PROVE  /\ ReadAutotask => TypeOK'
           /\ \A g \in Groups :
                Pass(g) \/ BeginCreate(g) \/ BeginNote(g) \/ BeginComplete(g) \/ BeginFlag(g) => TypeOK'
           /\ RequestFails => TypeOK'
    <1>1. ASSUME ReadAutotask PROVE TypeOK'
        BY <1>1 DEF TypeOK, ReadAutotask, setVars
    <1>2. ASSUME NEW g \in Groups, Pass(g) PROVE TypeOK'
        BY <1>2 DEF TypeOK, Pass, Turn, setVars, runVars
    <1>3. ASSUME NEW g \in Groups, BeginCreate(g) PROVE TypeOK'
        <2>1. sent.create + 1 \in 0..MaxCreates
            BY <1>3, NumbersAssumption DEF TypeOK, BeginCreate
        <2>2. sent' \in [create : 0..MaxCreates, note : 0..MaxNotes]
            BY <1>3, <2>1 DEF TypeOK, BeginCreate
        <2>3. QED
            BY <1>3, <2>2 DEF TypeOK, BeginCreate, Turn, setVars, runVars
    <1>4. ASSUME NEW g \in Groups, BeginNote(g) PROVE TypeOK'
        <2>1. sent.note + 1 \in 0..MaxNotes
            BY <1>4, NumbersAssumption DEF TypeOK, BeginNote
        <2>2. sent' \in [create : 0..MaxCreates, note : 0..MaxNotes]
            BY <1>4, <2>1 DEF TypeOK, BeginNote
        <2>3. QED
            BY <1>4, <2>2 DEF TypeOK, BeginNote, Turn, setVars, runVars
    <1>5. ASSUME NEW g \in Groups, BeginComplete(g) PROVE TypeOK'
        BY <1>5 DEF TypeOK, BeginComplete, Turn, setVars, runVars
    <1>6. ASSUME NEW g \in Groups, BeginFlag(g) PROVE TypeOK'
        BY <1>6 DEF TypeOK, BeginFlag, Turn, setVars, runVars
    <1>7. ASSUME RequestFails PROVE TypeOK'
        BY <1>7, NumbersAssumption DEF TypeOK, RequestFails, AnswerLost, Fault, NextPlan, setVars, runVars
    <1>8. QED
        BY <1>1, <1>2, <1>3, <1>4, <1>5, <1>6, <1>7

\* The search for a tag.
LEMMA FindByTagTypes ==
    ASSUME IInv, FindByTag
    PROVE  TypeOK'
    <1>1. CASE Tagged(op.group, op.gen) = {}
        BY <1>1 DEF IInv, TypeOK, FindByTag, setVars, runVars
    <1>2. CASE Tagged(op.group, op.gen) # {}
        <2> DEFINE hits == Tagged(op.group, op.gen)
        <2>1. Oldest(hits) \in hits
            BY <1>2, OneHit
        <2>2. Oldest(hits) \in 1..Len(tickets)
            <3>1. hits \subseteq 1..Len(tickets)
                BY DEF Tagged
            <3> HIDE DEF hits
            <3>2. QED
                BY <2>1, <3>1
        <2>3. adopted' \subseteq 1..Len(tickets) /\ pc' = "commit"
            BY <1>2, <2>2 DEF IInv, TypeOK, FindByTag
        <2>4. QED
            BY <2>3 DEF IInv, TypeOK, FindByTag, setVars, runVars
    <1>3. QED
        BY <1>1, <1>2

\* A create.
LEMMA PostTicketTypes ==
    ASSUME IInv, PostTicket
    PROVE  TypeOK'
    <1>1. pc = "post" /\ tickets' = Append(tickets, NewTicket)
        BY DEF PostTicket, NewTicket
    <1>2. op \in [kind : Kinds, group : Groups, gen : Nat \ {0}, row : RowType]
        BY <1>1 DEF IInv, RunInv, OpTyped, Acting, Planning
    <1>3. NewTicket \in TicketType
        BY <1>2 DEF NewTicket, TicketType, RowType
    <1>4. tickets' \in Seq(TicketType) /\ Len(tickets') = Len(tickets) + 1 /\ Len(tickets) \in Nat
        BY <1>1, <1>3, TicketsOf, AppendProperties DEF IInv
    <1>5. 1..Len(tickets) \subseteq 1..Len(tickets')
        BY <1>4
    <1>6. pc' \in {"commit", "next"} /\ faults' \in 0..MaxFaults
        BY NumbersAssumption DEF IInv, TypeOK, PostTicket, Answered, AnswerLost, Fault, NextPlan
    <1>7. QED
        BY <1>4, <1>5, <1>6 DEF IInv, TypeOK, PostTicket, setVars, runVars

\* A note and a completion.
LEMMA RequestTypes ==
    ASSUME IInv, PostNote \/ SetStatus
    PROVE  TypeOK'
    <1> DEFINE k == op.row.ticket
    <1>1. pc \in {"note", "complete"}
        BY DEF PostNote, SetStatus
    <1>2. /\ op \in [kind : Kinds, group : Groups, gen : Nat \ {0}, row : RowType]
          /\ SameGeneration
        BY <1>1 DEF IInv, RunInv, OpTyped, PlanInv, Acting, Planning
    <1>3. k \in Ids /\ tickets[k] \in TicketType /\ op.row.members \in SUBSET Members
        BY <1>2, RowsOf, TicketsOf DEF IInv, StoreInv, RowsNameTheirTickets, SameGeneration, Ids, RowType
    <1> DEFINE noted == WithNote(tickets[k], op.row.members)
               completed == WithStatus(tickets[k], "completed")
    <1>4. noted \in TicketType /\ completed \in TicketType
        BY <1>3 DEF TicketType, WithNote, WithStatus
    <1>5. \/ tickets' = tickets \/ tickets' = [tickets EXCEPT ![k] = noted]
          \/ tickets' = [tickets EXCEPT ![k] = completed]
        BY DEF PostNote, SetStatus
    <1> HIDE DEF noted, completed
    <1>6. tickets' \in Seq(TicketType) /\ Len(tickets') = Len(tickets)
        BY <1>3, <1>4, <1>5, TicketsOf, ExceptSeq DEF Ids, IInv
    <1>7. pc' \in {"commit", "next"} /\ faults' \in 0..MaxFaults
        BY NumbersAssumption DEF IInv, TypeOK, PostNote, SetStatus, Answered, AnswerLost, Fault, NextPlan
    <1>8. UNCHANGED <<settings, saving, goodDry, inventory, rows, adopted, runVars, todo, sent, changes>>
        BY DEF PostNote, SetStatus, setVars
    <1>9. QED
        BY <1>6, <1>7, <1>8 DEF IInv, TypeOK, runVars

\* A commit.
LEMMA CommitTypes ==
    ASSUME IInv, Commit
    PROVE  TypeOK'
    <1>1. rows' \in [Groups -> Seq(RowType)]
        BY CommittedRows
    <1>2. QED
        BY <1>1 DEF IInv, TypeOK, Commit, NextPlan, setVars, runVars

-----------------------------------------------------------------------------
(***************************************************************************)
(* The invariant.                                                          *)
(***************************************************************************)

\* It holds at the start.
LEMMA InitInv == Init => IInv
    <1> SUFFICES ASSUME Init
                 PROVE  IInv
        OBVIOUS
    <1>1. tickets = << >> /\ Len(tickets) = 0 /\ \A g \in Groups : rows[g] = << >> /\ Len(rows[g]) = 0
        BY EmptySeq DEF Init
    <1>2. TypeOK
        BY <1>1, EmptySeq, NumbersAssumption DEF Init, TypeOK, NothingSent
    <1>3. StoreInv
        BY <1>1 DEF StoreInv, RowsNameTheirTickets, Generations, NoDuplicateTicket, RowHasTheTicket,
                    OldOnesSpent, OneOpenTicket, RowWasSaid, EmptyWasSaid, Ids
    <1>4. RunInv
        BY DEF Init, RunInv, LiveOnlyAfterDryRun, OnlyLivePlans, OpTyped, ReadOnesSpent, PlanInv,
               Planning, Acting
    <1>5. QED
        BY <1>2, <1>3, <1>4 DEF IInv

\* Every step keeps it.
LEMMA NextInv == IInv /\ [Next]_vars => IInv'
    <1> SUFFICES ASSUME IInv, [Next]_vars
                 PROVE  IInv'
        OBVIOUS
    <1> USE DEF IInv
    <1>1. ASSUME NEW g \in Groups, NEW S \in SUBSET Members, FindingsChange(g, S) PROVE IInv'
        <2>1. UNCHANGED <<goodDry, tickets, rows, adopted, pc, runVars, planVars>>
            BY <1>1 DEF FindingsChange, setVars
        <2>2. QED
            BY <1>1, <2>1, WorldTypes, StoreFrame, RunFrame
    <1>2. ASSUME NEW k \in Ids, NEW status \in {"open", "completed", "deleted"}, TechnicianSets(k, status)
          PROVE  IInv'
        <2>1. UNCHANGED <<goodDry, rows, adopted, pc, runVars, planVars>>
            BY <1>2 DEF TechnicianSets, setVars
        <2>2. Older
            BY <1>2, TechnicianOlder
        <2>3. QED
            BY <1>2, <2>1, <2>2, TechnicianTypes, StoreOlder, RunOlder
    <1>3. ASSUME NEW c \in Configs, SaveDryRun(c) \/ SaveLiveCheck(c) PROVE IInv'
        <2>1. UNCHANGED <<goodDry, tickets, rows, adopted, pc, runVars, planVars>>
            BY <1>3 DEF SaveDryRun, SaveLiveCheck
        <2>2. QED
            BY <1>3, <2>1, WorldTypes, StoreFrame, RunFrame
    <1>4. ASSUME SaveLive PROVE IInv'
        <2>1. UNCHANGED <<goodDry, tickets, rows, adopted, pc, runVars, planVars>>
            BY <1>4 DEF SaveLive
        <2>2. QED
            BY <1>4, <2>1, WorldTypes, StoreFrame, RunFrame
    <1>5. ASSUME NEW m \in {"dry_run", "live"}, StartRun(m) PROVE IInv'
        BY <1>5, WorldTypes, StartRunKeeps
    <1>6. CASE ReadAutotask
        BY <1>6, PlanTypes, ReadAutotaskKeeps
    <1>7. CASE EndDryRun \/ EndRun \/ RunBreaks
        BY <1>7, EndTypes, EndKeeps
    <1>8. ASSUME NEW g \in Groups,
                 Pass(g) \/ BeginCreate(g) \/ BeginNote(g) \/ BeginComplete(g) \/ BeginFlag(g)
          PROVE  IInv'
        BY <1>8, PlanTypes, PassKeeps, BeginCreateKeeps, BeginNoteKeeps, BeginCompleteKeeps, BeginFlagKeeps
    <1>9. CASE FindByTag
        BY <1>9, FindByTagTypes, FindByTagKeeps
    <1>10. CASE PostTicket
        BY <1>10, PostTicketTypes, PostTicketStore, PostTicketRun
    <1>11. CASE PostNote \/ SetStatus
        BY <1>11, RequestTypes, RequestKeeps
    <1>12. CASE RequestFails
        BY <1>12, PlanTypes, RequestFailsKeeps
    <1>13. CASE Commit
        BY <1>13, CommitTypes, CommitStore, CommitRun
    <1>14. CASE UNCHANGED vars
        <2>1. UNCHANGED <<goodDry, tickets, rows, adopted, pc, runVars, planVars>>
            BY <1>14 DEF vars, setVars
        <2>2. TypeOK'
            BY <1>14 DEF vars, setVars, runVars, planVars, TypeOK
        <2>3. QED
            BY <2>1, <2>2, StoreFrame, RunFrame
    <1>15. QED
        BY <1>1, <1>2, <1>3, <1>4, <1>5, <1>6, <1>7, <1>8, <1>9, <1>10, <1>11, <1>12, <1>13, <1>14
           DEF Next, Ids

\* The inductive invariant holds in every state of every behavior.
THEOREM Invariant == Spec => []IInv
    BY InitInv, NextInv, PTL DEF Spec

\* Types: each variable keeps the shape of what it stands for.
THEOREM TypeCorrect == Spec => []TypeOK
    <1>1. IInv => TypeOK
        BY DEF IInv
    <1>2. QED
        BY <1>1, Invariant, PTL

\* The search before the create, the claim and the generations together keep every
\* tag to one ticket, whatever answers and commits are lost.
THEOREM NoDuplicates == Spec => []NoDuplicateTicket
    <1>1. IInv => NoDuplicateTicket
        BY DEF IInv, StoreInv
    <1>2. QED
        BY <1>1, Invariant, PTL

\* A tracked row always names the ticket that carries its tag.
THEOREM RowsName == Spec => []RowsNameTheirTickets
    <1>1. IInv => RowsNameTheirTickets
        BY DEF IInv, StoreInv
    <1>2. QED
        BY <1>1, Invariant, PTL

\* decide opens a second ticket for an action only when the first is closed, as far
\* back as the run's look at Autotask: no two are open unless a person reopened one.
THEOREM OneOpen == Spec => []OneOpenTicket
    <1>1. IInv => OneOpenTicket
        BY DEF IInv, StoreInv
    <1>2. QED
        BY <1>1, Invariant, PTL

\* Whoever saves settings or finishes a dry run meanwhile, a live run works with the
\* settings of the newest good dry run.
THEOREM LiveAfterDryRun == Spec => []LiveOnlyAfterDryRun
    <1>1. IInv => LiveOnlyAfterDryRun
        BY DEF IInv, RunInv
    <1>2. QED
        BY <1>1, Invariant, PTL

\* What an open row lists as told, its ticket was told, notes and commits lost or not.
THEOREM RowsTold == Spec => []RowWasSaid
    <1>1. IInv => RowWasSaid
        BY DEF IInv, StoreInv
    <1>2. QED
        BY <1>1, Invariant, PTL

\* Only SetStatus changes a ticket while a completion is in hand.
THEOREM CompletedLast == Spec => CompletedAfterFinalNote
    <1>1. IInv /\ [Next]_vars
          => [pc = "complete" /\ pc' # pc /\ tickets' # tickets
                => AutoOn /\ found[op.group] = {} /\ {} \in tickets[op.row.ticket].said]_vars
        BY DEF IInv, RunInv, PlanInv, LastWord
    <1>2. QED
        BY <1>1, Invariant, PTL DEF Spec, CompletedAfterFinalNote

=============================================================================
