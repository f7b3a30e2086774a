------------------------------ MODULE Forwarder ------------------------------
(***************************************************************************)
(* internal/forward/forward.go: the queue between the goroutines that      *)
(* raise alerts and the one that ships them to the operator's own log      *)
(* platform.  Send never blocks: a full queue loses its oldest record.     *)
(* The worker takes a batch off the queue and offers it to every           *)
(* destination in turn; what a destination does not take is not kept.      *)
(*                                                                         *)
(* Records are the numbers 1, 2, ... in the order they were accepted.      *)
(***************************************************************************)
EXTENDS Integers, Sequences, SequencesExt

CONSTANTS
    Destinations,   \* a sequence, in the order they are configured
    Flaky,          \* those that may refuse a batch
    Heeding,        \* those whose Send gives up when its context is cancelled
    Capacity,       \* f.capacity (4096)
    BatchSize,      \* records in a delivery (256)
    MaxRecords      \* bound: records sent

Dests == Range(Destinations)

\* Without a destination New starts no worker, and Send returns at once.
ASSUME DestinationsAssumption ==
    /\ Destinations # <<>>
    /\ Destinations \in Seq(Dests) /\ IsInjective(Destinations)
    /\ Flaky \subseteq Dests /\ Heeding \subseteq Dests
ASSUME SizesAssumption == Capacity \in Nat \ {0} /\ BatchSize \in Nat \ {0}

VARIABLES
    queue,      \* f.queue
    accepted,   \* f.accepted
    dropped,    \* f.dropped
    notify,     \* f.notify holds a token
    telling,    \* senders that have queued a record and not yet put the token
    closer,     \* Close: "open", "closed" (the flag), "stopped" (the context), "done"
    worker,     \* run and flush
    sent,       \* what each destination took, in order
    failed      \* how many records each did not take

fvars == <<queue, accepted, dropped, notify, telling, closer, worker, sent, failed>>

Waiting == [pc |-> "wait", batch |-> <<>>, todo |-> <<>>, last |-> FALSE]
Cancelled == closer \in {"stopped", "done"}

-------------------------------------------------------------------------------
(* The senders.                                                            *)

Queued(full, r) == Append(IF full THEN Tail(queue) ELSE queue, r)

Send ==
    IF closer # "open"
    THEN UNCHANGED fvars
    ELSE LET full == Len(queue) >= Capacity IN
         /\ queue' = Queued(full, accepted + 1)
         /\ dropped' = IF full THEN dropped + 1 ELSE dropped
         /\ accepted' = accepted + 1
         /\ telling' = telling + 1
         /\ UNCHANGED <<notify, closer, worker, sent, failed>>

\* Over a channel without room for one, a token reaches only a worker in its select.
TellUnbuffered ==
    /\ telling > 0
    /\ telling' = telling - 1
    /\ notify' = (notify \/ worker.pc = "wait")
    /\ UNCHANGED <<queue, accepted, dropped, closer, worker, sent, failed>>

\* The channel holds one token; a second is not needed and not waited for.
Tell ==
    /\ telling > 0
    /\ telling' = telling - 1
    /\ notify' = TRUE
    /\ UNCHANGED <<queue, accepted, dropped, closer, worker, sent, failed>>

-------------------------------------------------------------------------------
(* The worker.                                                             *)

\* The ticker: it finds what a token would have announced.
Tick ==
    /\ worker.pc = "wait"
    /\ worker' = [Waiting EXCEPT !.pc = "flush"]
    /\ UNCHANGED <<queue, accepted, dropped, notify, telling, closer, sent, failed>>

Wake ==
    /\ worker.pc = "wait" /\ notify
    /\ notify' = FALSE
    /\ worker' = [Waiting EXCEPT !.pc = "flush"]
    /\ UNCHANGED <<queue, accepted, dropped, telling, closer, sent, failed>>

\* The context is done: one more flush, under a context of its own.  A token or a
\* tick that is ready as well may be served first.
LastFlush ==
    /\ worker.pc = "wait" /\ Cancelled
    /\ worker' = [Waiting EXCEPT !.pc = "flush", !.last = TRUE]
    /\ UNCHANGED <<queue, accepted, dropped, notify, telling, closer, sent, failed>>

Take ==
    /\ worker.pc = "flush" /\ queue # <<>>
    /\ LET n == IF Len(queue) > BatchSize THEN BatchSize ELSE Len(queue) IN
       /\ worker' = [worker EXCEPT !.pc = "send", !.todo = Destinations,
                                   !.batch = SubSeq(queue, 1, n)]
       /\ queue' = SubSeq(queue, n + 1, Len(queue))
    /\ UNCHANGED <<accepted, dropped, notify, telling, closer, sent, failed>>

Flushed ==
    /\ worker.pc = "flush" /\ queue = <<>>
    /\ worker' = [Waiting EXCEPT !.pc = IF worker.last THEN "ended" ELSE "loop"]
    /\ UNCHANGED <<queue, accepted, dropped, notify, telling, closer, sent, failed>>

\* From the empty queue back to the select: a record may come in between.
Loop ==
    /\ worker.pc = "loop"
    /\ worker' = Waiting
    /\ UNCHANGED <<queue, accepted, dropped, notify, telling, closer, sent, failed>>

\* The rest of a batch that one destination refused is not offered to the next.
Undelivered ==
    worker' = [worker EXCEPT !.pc = "flush", !.batch = <<>>, !.todo = <<>>]

Served ==
    worker' = IF Len(worker.todo) = 1
              THEN [worker EXCEPT !.pc = "flush", !.batch = <<>>, !.todo = <<>>]
              ELSE [worker EXCEPT !.todo = Tail(@)]

Deliver ==
    /\ worker.pc = "send"
    /\ LET d == Head(worker.todo) IN
       /\ d \in Heeding => worker.last \/ ~Cancelled
       /\ sent' = [sent EXCEPT ![d] = @ \o worker.batch]
    /\ Served
    /\ UNCHANGED <<queue, accepted, dropped, notify, telling, closer, failed>>

\* Refused, or given up because the context was cancelled: the batch is not kept.
Fail ==
    /\ worker.pc = "send"
    /\ LET d == Head(worker.todo) IN
       /\ d \in Flaky \/ (d \in Heeding /\ Cancelled /\ ~worker.last)
       /\ failed' = [failed EXCEPT ![d] = @ + Len(worker.batch)]
    /\ Served
    /\ UNCHANGED <<queue, accepted, dropped, notify, telling, closer, sent>>

-------------------------------------------------------------------------------
(* Close.                                                                  *)

CloseFlag ==
    /\ closer = "open"
    /\ closer' = "closed"
    /\ UNCHANGED <<queue, accepted, dropped, notify, telling, worker, sent, failed>>

Stop ==
    /\ closer = "closed"
    /\ closer' = "stopped"
    /\ UNCHANGED <<queue, accepted, dropped, notify, telling, worker, sent, failed>>

Closed ==
    /\ closer = "stopped" /\ worker.pc = "ended"
    /\ closer' = "done"
    /\ UNCHANGED <<queue, accepted, dropped, notify, telling, worker, sent, failed>>

-------------------------------------------------------------------------------
FInit ==
    /\ queue = <<>>
    /\ accepted = 0 /\ dropped = 0
    /\ notify = FALSE /\ telling = 0
    /\ closer = "open"
    /\ worker = Waiting
    /\ sent = [d \in Dests |-> <<>>]
    /\ failed = [d \in Dests |-> 0]

Work == Loop \/ Wake \/ LastFlush \/ Take \/ Flushed \/ Deliver \/ Fail
Close == CloseFlag \/ Stop \/ Closed

FNext ==
    \/ accepted < MaxRecords /\ Send
    \/ Tell \/ Tick \/ Work \/ Close

FSpec == FInit /\ [][FNext]_fvars

\* Goroutines go on, and Close, once called, as well; no tick is counted on.  Of the
\* cases that are ready a select takes one at random, so that the end of the context
\* is not passed over forever.
FFair == WF_fvars(Tell) /\ WF_fvars(Work) /\ SF_fvars(LastFlush) /\ WF_fvars(Stop \/ Closed)

FFairSpec == FSpec /\ FFair

-------------------------------------------------------------------------------
FTypeOK ==
    /\ queue \in Seq(1 .. accepted) /\ Len(queue) <= Capacity
    /\ accepted \in Nat /\ dropped \in 0 .. accepted
    /\ notify \in BOOLEAN /\ telling \in Nat
    /\ closer \in {"open", "closed", "stopped", "done"}
    /\ worker \in [pc : {"loop", "wait", "flush", "send", "ended"}, batch : Seq(1 .. accepted),
                   todo : Seq(Dests), last : BOOLEAN]
    /\ (worker.pc = "send") <=> (worker.todo # <<>>)
    /\ sent \in [Dests -> Seq(1 .. accepted)]
    /\ failed \in [Dests -> Nat]

Owed(d) == IF d \in Range(worker.todo) THEN Len(worker.batch) ELSE 0

\* The counters Status reports add up for every destination, at every moment: what
\* was accepted was dropped, is queued, is in the worker's hands, or was offered to
\* this destination and taken or refused (Send, flush, record).
Accounted ==
    \A d \in Dests :
        accepted = dropped + Len(queue) + Owed(d) + Len(sent[d]) + failed[d]

\* A full queue gives up its oldest record, never a newer one: what is queued is
\* the newest, in order, and whatever the worker holds is older (Send).
NewestKept ==
    /\ \A i \in DOMAIN queue : queue[i] = accepted - Len(queue) + i
    /\ \A i \in DOMAIN worker.batch : worker.batch[i] <= accepted - Len(queue)

\* A destination sees records in the order they were raised, none of them twice
\* (flush).
InOrder ==
    \A d \in Dests : \A i, j \in DOMAIN sent[d] : i < j => sent[d][i] < sent[d][j]

\* When Close returns nothing is left behind that was never offered (Close, run).
NothingLeftBehind == closer = "done" => queue = <<>> /\ worker.batch = <<>>

\* Every record is accounted for at every destination, and a destination sees each at
\* most once and in the order they were raised; a full queue gives up the oldest; and
\* Close leaves none behind: whatever a destination refused and however the batches
\* were cut (Send, flush, record, Close).
EachOnceInOrder == Accounted /\ InOrder /\ NewestKept /\ NothingLeftBehind

\* No record stays in the queue: a token is there whenever the worker might miss
\* one; and Close returns (Send, run, Close).
EveryRecordLeaves ==
    /\ \A n \in 1 .. MaxRecords :
         []<>(accepted >= n => accepted - Len(queue) - Len(worker.batch) >= n)
    /\ []<>(closer \in {"open", "done"})

===============================================================================
