---------------------------- MODULE OutboundProofs ----------------------------
(***************************************************************************)
(* Proofs about what leaves the building.                                  *)
(*                                                                         *)
(* The forwarder (Forwarder) accounts for every record and hands each to a *)
(* destination once and in order, for any destinations, whatever each of   *)
(* them refuses, any capacity and any size of a batch.                     *)
(*                                                                         *)
(* What the anchors table says is so (Anchoring), and no comparison raises *)
(* the alarm over a chain that only grew, for any targets, any requests    *)
(* beside the timer and any failures and restarts.                         *)
(***************************************************************************)
EXTENDS Outbound, SequenceTheorems, WellFoundedInduction, TLAPS

Increasing(s) == \A i, j \in DOMAIN s : i < j => s[i] < s[j]

\* A batch is offered to each destination once; the worker has one only while it delivers.
TodoInv ==
    /\ IsInjective(worker.todo)
    /\ worker.pc # "send" => worker.batch = <<>>

\* Every destination took older records than those in the worker's hands, if it is yet
\* to be offered them, and these are older than those in the queue.
OrderInv ==
    /\ NewestKept
    /\ Increasing(worker.batch)
    /\ \A d \in Dests : Increasing(sent[d])
    /\ \A d \in Dests : \A i \in DOMAIN sent[d] : sent[d][i] <= accepted - Len(queue)
    /\ \A d \in Range(worker.todo) :
          \A i \in DOMAIN sent[d], j \in DOMAIN worker.batch : sent[d][i] < worker.batch[j]

\* The last flush comes after Close, when nothing is queued any more; the worker ends
\* with it and Close returns after that.
CloseInv ==
    /\ worker.last => Cancelled
    /\ worker.pc = "ended" => Cancelled /\ queue = <<>>
    /\ closer = "done" => worker.pc = "ended"

IInv == FTypeOK /\ TodoInv /\ Accounted /\ OrderInv /\ CloseInv

-----------------------------------------------------------------------------
(* Sequences.                                                              *)

Pcs == {"loop", "wait", "flush", "send", "ended"}
Workers(n) == [pc : Pcs, batch : Seq(1 .. n), todo : Seq(Dests), last : BOOLEAN]

\* What was among the first n records is among the first m of them.
LEMMA MoreRecords ==
    ASSUME NEW n \in Nat, NEW m \in Nat, n <= m, NEW s \in Seq(1 .. n)
    PROVE s \in Seq(1 .. m)
<1>1. 1 .. n \subseteq 1 .. m
    OBVIOUS
<1> QED
    BY <1>1, SeqMonotonic

\* Records joined to older ones: still in order, and no others.
LEMMA Joined ==
    ASSUME NEW n \in Nat, NEW s \in Seq(1 .. n), NEW t \in Seq(1 .. n), Increasing(s), Increasing(t),
           \A i \in DOMAIN s, j \in DOMAIN t : s[i] < t[j]
    PROVE /\ Increasing(s \o t)
          /\ \A i \in DOMAIN (s \o t) : \/ \E k \in DOMAIN s : (s \o t)[i] = s[k]
                                      \/ \E k \in DOMAIN t : (s \o t)[i] = t[k]
<1>1. PICK a \in Nat, b \in Nat : a = Len(s) /\ b = Len(t)
    OBVIOUS
<1>2. DOMAIN s = 1 .. a /\ DOMAIN t = 1 .. b
    BY <1>1
<1> DEFINE u == s \o t
<1>3. Len(u) = a + b /\ DOMAIN u = 1 .. a + b
    BY <1>1
<1>4. ASSUME NEW i \in 1 .. a PROVE u[i] = s[i] /\ i \in DOMAIN s
    BY <1>1, <1>2
<1>5. ASSUME NEW i \in 1 .. a + b, i > a PROVE u[i] = t[i - a] /\ i - a \in DOMAIN t
    <2>1. \A k \in 1 .. Len(s) + Len(t) : u[k] = IF k <= Len(s) THEN s[k] ELSE t[k - Len(s)]
        BY ConcatProperties
    <2>2. i - a \in 1 .. b
        BY <1>5
    <2> QED
        BY <1>1, <1>2, <1>5, <2>1, <2>2
<1> HIDE DEF u
<1>6. ASSUME NEW i \in DOMAIN u, NEW j \in DOMAIN u, i < j PROVE u[i] < u[j]
    <2>1. i \in 1 .. a + b /\ j \in 1 .. a + b
        BY <1>3
    <2>2. CASE j <= a
        <3>1. i \in 1 .. a /\ j \in 1 .. a
            BY <1>6, <2>1, <2>2
        <3> QED
            BY <1>4, <1>6, <3>1 DEF Increasing
    <2>3. CASE i > a
        <3>1. i > a /\ j > a /\ i - a < j - a
            BY <1>6, <2>1, <2>3
        <3>2. u[i] = t[i - a] /\ i - a \in DOMAIN t /\ u[j] = t[j - a] /\ j - a \in DOMAIN t
            BY <1>5, <2>1, <3>1
        <3> QED
            BY <3>1, <3>2 DEF Increasing
    <2>4. CASE i <= a /\ j > a
        <3>1. u[i] = s[i] /\ i \in DOMAIN s
            BY <1>4, <2>1, <2>4
        <3>2. u[j] = t[j - a] /\ j - a \in DOMAIN t
            BY <1>5, <2>1, <2>4
        <3> QED
            BY <3>1, <3>2
    <2> QED
        BY <2>1, <2>2, <2>3, <2>4
<1>7. ASSUME NEW i \in DOMAIN u
      PROVE (\E k \in DOMAIN s : u[i] = s[k]) \/ (\E k \in DOMAIN t : u[i] = t[k])
    <2>1. i \in 1 .. a + b /\ (i <= a => i \in 1 .. a)
        BY <1>3
    <2>2. CASE i <= a
        BY <1>4, <2>1, <2>2
    <2>3. CASE i > a
        BY <1>5, <2>1, <2>3
    <2> QED
        BY <2>1, <2>2, <2>3
<1> QED
    BY <1>6, <1>7 DEF Increasing, u

\* The first destination left, and the others.
LEMMA TodoTail ==
    ASSUME NEW s \in Seq(Dests), s # <<>>, IsInjective(s)
    PROVE /\ Head(s) \in Dests /\ Head(s) \in Range(s)
          /\ Tail(s) \in Seq(Dests) /\ IsInjective(Tail(s))
          /\ Range(Tail(s)) = Range(s) \ {Head(s)}
          /\ Len(s) \in Nat \ {0} /\ (Tail(s) = <<>> <=> Len(s) = 1)
<1>1. /\ Len(s) \in Nat \ {0} /\ DOMAIN s = 1 .. Len(s) /\ Head(s) = s[1] /\ Tail(s) \in Seq(Dests)
      /\ Len(Tail(s)) = Len(s) - 1 /\ DOMAIN Tail(s) = 1 .. Len(s) - 1
      /\ \A i \in 1 .. Len(s) - 1 : Tail(s)[i] = s[i + 1]
    OBVIOUS
<1>2. IsInjective(Tail(s))
    BY <1>1 DEF IsInjective
<1>3. Head(s) \in Dests /\ Head(s) \in Range(s)
    BY <1>1 DEF Range
<1>4. ASSUME NEW d \in Range(Tail(s)) PROVE d \in Range(s) \ {Head(s)}
    <2>1. PICK i \in 1 .. Len(s) - 1 : d = Tail(s)[i]
        BY <1>1 DEF Range
    <2>2. d = s[i + 1] /\ i + 1 \in DOMAIN s /\ 1 \in DOMAIN s /\ i + 1 # 1
        BY <1>1, <2>1
    <2> QED
        BY <1>1, <2>2 DEF Range, IsInjective
<1>5. ASSUME NEW d \in Range(s), d # Head(s) PROVE d \in Range(Tail(s))
    <2>1. PICK i \in DOMAIN s : d = s[i]
        BY DEF Range
    <2>2. i - 1 \in DOMAIN Tail(s) /\ Tail(s)[i - 1] = d
        BY <1>1, <1>5, <2>1
    <2> QED
        BY <2>2 DEF Range
<1>6. Tail(s) = <<>> <=> Len(Tail(s)) = 0
    <2>1. Tail(s) # <<>> => Len(Tail(s)) # 0
        BY <1>1, EmptySeq
    <2> QED
        BY <2>1, EmptySeq
<1> QED
    BY <1>1, <1>2, <1>3, <1>4, <1>5, <1>6

\* All destinations are to be offered a batch.
LEMMA AllDests == Destinations \in Seq(Dests) /\ Destinations # <<>> /\ IsInjective(Destinations) /\ Range(Destinations) = Dests
BY DestinationsAssumption DEF Dests

-----------------------------------------------------------------------------
(* What the steps of the worker do.                                        *)

\* The batch the worker takes: the oldest records, and the rest stays.
LEMMA TakeDoes ==
    ASSUME FTypeOK, TodoInv, NewestKept, Take
    PROVE \E n \in 1 .. Len(queue) :
            /\ Len(queue) \in Nat
            /\ worker' \in Workers(accepted) /\ worker'.pc = "send" /\ worker'.todo = Destinations
            /\ worker'.last = worker.last
            /\ Len(worker'.batch) = n /\ DOMAIN worker'.batch = 1 .. n
            /\ \A i \in 1 .. n : worker'.batch[i] = accepted - Len(queue) + i
            /\ queue' \in Seq(1 .. accepted) /\ Len(queue') = Len(queue) - n /\ DOMAIN queue' = 1 .. Len(queue) - n
            /\ \A i \in 1 .. Len(queue) - n : queue'[i] = accepted - Len(queue) + n + i
<1> DEFINE n == IF Len(queue) > BatchSize THEN BatchSize ELSE Len(queue)
<1>1. queue \in Seq(1 .. accepted) /\ Len(queue) \in Nat /\ queue # <<>> /\ accepted \in Nat /\ worker \in Workers(accepted)
    BY DEF FTypeOK, Take, Workers, Pcs
<1>2. n \in 1 .. Len(queue)
    BY <1>1, SizesAssumption
<1>3. /\ worker' = [worker EXCEPT !.pc = "send", !.todo = Destinations, !.batch = SubSeq(queue, 1, n)]
      /\ queue' = SubSeq(queue, n + 1, Len(queue))
    BY DEF Take
<1>4. \A i \in 1 .. Len(queue) : queue[i] = accepted - Len(queue) + i
    BY <1>1 DEF NewestKept
<1> HIDE DEF n
<1>5. /\ SubSeq(queue, 1, n) \in Seq(1 .. accepted) /\ Len(SubSeq(queue, 1, n)) = n
      /\ DOMAIN SubSeq(queue, 1, n) = 1 .. n
      /\ \A i \in 1 .. n : SubSeq(queue, 1, n)[i] = queue[i]
    BY <1>1, <1>2
<1>6. /\ queue' \in Seq(1 .. accepted) /\ Len(queue') = Len(queue) - n /\ DOMAIN queue' = 1 .. Len(queue) - n
      /\ \A i \in 1 .. Len(queue) - n : queue'[i] = queue[n + i]
    <2>1. \A i \in n + 1 .. Len(queue) : queue[i] \in 1 .. accepted
        BY <1>1, <1>2
    <2>2. n + 1 \in Int /\ Len(queue) \in Int /\ (n + 1 <= Len(queue) \/ Len(queue) - n = 0)
        BY <1>1, <1>2
    <2>3. /\ queue' \in Seq(1 .. accepted)
          /\ Len(queue') = IF n + 1 <= Len(queue) THEN Len(queue) - (n + 1) + 1 ELSE 0
          /\ \A i \in 1 .. Len(queue) - (n + 1) + 1 : queue'[i] = queue[n + 1 + i - 1]
        BY <1>3, <2>1, <2>2, SubSeqProperties
    <2>4. Len(queue') = Len(queue) - n
        BY <1>1, <1>2, <2>2, <2>3
    <2>5. DOMAIN queue' = 1 .. Len(queue')
        BY <2>3
    <2>6. ASSUME NEW i \in 1 .. Len(queue) - n PROVE queue'[i] = queue[n + i]
        <3>1. Len(queue) - (n + 1) + 1 = Len(queue) - n /\ n + 1 + i - 1 = n + i
            BY <1>1, <1>2
        <3> QED
            BY <2>3, <3>1
    <2> QED
        BY <2>3, <2>4, <2>5, <2>6
<1>7. worker' \in Workers(accepted)
    BY <1>1, <1>3, <1>5, AllDests DEF Workers, Pcs
<1>8. worker'.pc = "send" /\ worker'.todo = Destinations /\ worker'.last = worker.last /\ worker'.batch = SubSeq(queue, 1, n)
    BY <1>1, <1>3 DEF Workers
<1>9. \A i \in 1 .. n : worker'.batch[i] = accepted - Len(queue) + i
    <2>1. ASSUME NEW i \in 1 .. n PROVE worker'.batch[i] = accepted - Len(queue) + i
        <3>1. i \in 1 .. Len(queue)
            BY <1>1, <1>2
        <3>2. worker'.batch[i] = queue[i]
            BY <1>5, <1>8
        <3> QED
            BY <1>4, <3>1, <3>2
    <2> QED
        BY <2>1
<1>10. \A i \in 1 .. Len(queue) - n : queue'[i] = accepted - Len(queue) + n + i
    <2>1. ASSUME NEW i \in 1 .. Len(queue) - n PROVE queue'[i] = accepted - Len(queue) + n + i
        <3>1. n + i \in 1 .. Len(queue) /\ n \in Int /\ i \in Int /\ Len(queue) \in Int
            BY <1>1, <1>2
        <3>2. queue'[i] = queue[n + i]
            BY <1>6
        <3>3. queue[n + i] = accepted - Len(queue) + (n + i)
            BY <1>4, <3>1
        <3> QED
            BY <1>1, <3>1, <3>2, <3>3
    <2> QED
        BY <2>1
<1> QED
    BY <1>1, <1>2, <1>5, <1>6, <1>7, <1>8, <1>9, <1>10

\* One destination is served: it is taken off, and with the last one the batch.
LEMMA ServedDoes ==
    ASSUME FTypeOK, TodoInv, worker.pc = "send", Served
    PROVE /\ worker' \in Workers(accepted) /\ worker'.last = worker.last
          /\ Head(worker.todo) \in Dests /\ Head(worker.todo) \in Range(worker.todo)
          /\ Range(worker'.todo) = Range(worker.todo) \ {Head(worker.todo)}
          /\ IsInjective(worker'.todo)
          /\ \/ worker'.pc = "flush" /\ worker'.todo = <<>> /\ worker'.batch = <<>>
             \/ worker'.pc = "send" /\ worker'.todo # <<>> /\ worker'.batch = worker.batch
<1> DEFINE todo == worker.todo
<1>1. worker \in Workers(accepted) /\ todo \in Seq(Dests) /\ todo # <<>> /\ IsInjective(todo)
    BY DEF FTypeOK, TodoInv, Workers, Pcs
<1>2. /\ Head(todo) \in Dests /\ Head(todo) \in Range(todo)
      /\ Tail(todo) \in Seq(Dests) /\ IsInjective(Tail(todo))
      /\ Range(Tail(todo)) = Range(todo) \ {Head(todo)}
      /\ Len(todo) \in Nat \ {0} /\ (Tail(todo) = <<>> <=> Len(todo) = 1)
    BY <1>1, TodoTail
<1>3. CASE Len(todo) = 1
    <2>1. worker' = [worker EXCEPT !.pc = "flush", !.batch = <<>>, !.todo = <<>>]
        BY <1>3 DEF Served
    <2>2. worker' \in Workers(accepted) /\ worker'.last = worker.last
          /\ worker'.pc = "flush" /\ worker'.batch = <<>> /\ worker'.todo = <<>>
        BY <1>1, <2>1, EmptySeq DEF Workers, Pcs
    <2>3. Tail(todo) = <<>>
        BY <1>2, <1>3
    <2> QED
        BY <1>2, <2>2, <2>3
<1>4. CASE Len(todo) # 1
    <2>1. worker' = [worker EXCEPT !.todo = Tail(todo)]
        BY <1>4 DEF Served
    <2>2. worker' \in Workers(accepted) /\ worker'.last = worker.last
          /\ worker'.pc = "send" /\ worker'.batch = worker.batch /\ worker'.todo = Tail(todo)
        BY <1>1, <1>2, <2>1 DEF Workers, Pcs
    <2>3. Tail(todo) # <<>>
        BY <1>2, <1>4
    <2> QED
        BY <1>2, <2>2, <2>3
<1> QED
    BY <1>3, <1>4

\* The worker goes from one place to another with no batch in its hands.
LEMMA IdleMoves ==
    ASSUME FTypeOK, Tick \/ Wake \/ LastFlush \/ Flushed \/ Loop
    PROVE /\ worker' \in Workers(accepted) /\ worker'.batch = <<>> /\ worker'.todo = <<>>
          /\ worker.todo = <<>> /\ worker.pc # "send" /\ worker'.pc # "send"
          /\ worker'.last => Cancelled
          /\ worker'.pc = "ended" => worker.last /\ queue = <<>>
          /\ UNCHANGED <<queue, accepted, dropped, closer, sent, failed>>
<1>1. Waiting \in Workers(accepted) /\ worker \in Workers(accepted)
    BY EmptySeq DEF FTypeOK, Waiting, Workers, Pcs
<1>2. CASE Tick \/ Wake
    <2>1. worker' = [Waiting EXCEPT !.pc = "flush"]
        BY <1>2 DEF Tick, Wake
    <2>2. worker' \in Workers(accepted) /\ worker'.pc = "flush" /\ worker'.batch = <<>> /\ worker'.todo = <<>>
          /\ ~worker'.last
        BY <1>1, <2>1 DEF Waiting, Workers, Pcs
    <2> QED
        BY <1>2, <2>2 DEF FTypeOK, Tick, Wake
<1>3. CASE Loop
    BY <1>1, <1>3 DEF FTypeOK, Loop, Waiting
<1>4. CASE LastFlush
    BY <1>1, <1>4 DEF FTypeOK, LastFlush, Waiting, Workers, Pcs
<1>5. CASE Flushed
    BY <1>1, <1>5 DEF FTypeOK, Flushed, Waiting, Workers, Pcs
<1> QED
    BY <1>2, <1>4, <1>5, <1>3

\* What a record that is accepted does to the queue.
LEMMA SendDoes ==
    ASSUME FTypeOK, NewestKept, closer = "open", Send
    PROVE /\ accepted' = accepted + 1 /\ UNCHANGED <<worker, closer, sent, failed>>
          /\ queue' \in Seq(1 .. accepted') /\ Len(queue') \in Nat /\ Len(queue') <= Capacity
          /\ accepted' - Len(queue') >= accepted - Len(queue)
          /\ dropped' \in Nat /\ dropped' + Len(queue') = dropped + Len(queue) + 1
          /\ dropped' \in {dropped, dropped + 1}
          /\ \A i \in DOMAIN queue' : queue'[i] = accepted' - Len(queue') + i
<1> DEFINE full == Len(queue) >= Capacity
           kept == IF full THEN Tail(queue) ELSE queue
<1>1. /\ queue \in Seq(1 .. accepted) /\ Len(queue) \in Nat /\ Len(queue) <= Capacity
      /\ accepted \in Nat /\ dropped \in Nat /\ Capacity \in Nat \ {0}
    BY SizesAssumption DEF FTypeOK
<1>2. /\ queue' = Append(kept, accepted + 1) /\ accepted' = accepted + 1
      /\ dropped' = IF full THEN dropped + 1 ELSE dropped
      /\ UNCHANGED <<worker, closer, sent, failed>>
    BY DEF Send, Queued
<1>3. \A i \in 1 .. Len(queue) : queue[i] = accepted - Len(queue) + i
    BY <1>1 DEF NewestKept
<1>4. /\ kept \in Seq(1 .. accepted) /\ Len(kept) = IF full THEN Len(queue) - 1 ELSE Len(queue)
      /\ Len(kept) \in Nat
      /\ \A i \in 1 .. Len(kept) : kept[i] = accepted - Len(kept) + i
    <2>1. CASE full
        <3>1. queue # <<>>
            BY <1>1, <2>1
        <3>2. Tail(queue) \in Seq(1 .. accepted) /\ Len(Tail(queue)) = Len(queue) - 1
              /\ \A i \in 1 .. Len(queue) - 1 : Tail(queue)[i] = queue[i + 1]
            BY <1>1, <3>1
        <3> QED
            BY <1>1, <1>3, <2>1, <3>2
    <2>2. CASE ~full
        BY <1>1, <1>3, <2>2
    <2> QED
        BY <2>1, <2>2
<1>5. kept \in Seq(1 .. accepted + 1)
    BY <1>1, <1>4, MoreRecords
<1>6. \/ Len(kept) = Len(queue) - 1 /\ Len(queue) = Capacity /\ dropped' = dropped + 1
      \/ Len(kept) = Len(queue) /\ Len(queue) < Capacity /\ dropped' = dropped
    BY <1>1, <1>2, <1>4
<1>7. Len(kept) \in Nat /\ Len(queue) \in Nat /\ accepted \in Nat /\ dropped \in Nat /\ Capacity \in Nat
    BY <1>1, <1>4
<1>8. queue' = Append(kept, accepted + 1) /\ accepted' = accepted + 1
    BY <1>2
<1> HIDE DEF kept, full
<1>9. /\ queue' \in Seq(1 .. accepted + 1) /\ Len(queue') = Len(kept) + 1
      /\ DOMAIN queue' = 1 .. Len(kept) + 1
      /\ \A i \in 1 .. Len(kept) : queue'[i] = kept[i]
      /\ queue'[Len(kept) + 1] = accepted + 1
    BY <1>5, <1>7, <1>8
<1>10. ASSUME NEW i \in DOMAIN queue' PROVE queue'[i] = accepted' - Len(queue') + i
    <2>1. Len(kept) \in Nat /\ accepted \in Nat /\ accepted' - Len(queue') = accepted - Len(kept)
        BY <1>7, <1>8, <1>9
    <2>2. CASE i = Len(kept) + 1
        BY <1>9, <2>1, <2>2
    <2>3. CASE i \in 1 .. Len(kept)
        BY <1>4, <1>9, <2>1, <2>3
    <2> QED
        BY <1>9, <2>1, <2>2, <2>3
<1>11. Len(queue') \in Nat /\ Len(queue') <= Capacity /\ accepted' - Len(queue') >= accepted - Len(queue)
    <2>1. Len(queue) <= Capacity
        BY <1>1
    <2> QED
        BY <1>6, <1>7, <1>8, <1>9, <2>1
<1>12. Len(queue') = Len(kept) + 1
    BY <1>9
<1>13. dropped' + Len(queue') = dropped + Len(queue) + 1 /\ dropped' \in Nat /\ dropped' \in {dropped, dropped + 1}
    <2>1. CASE Len(kept) = Len(queue) - 1 /\ dropped' = dropped + 1
        BY <1>7, <1>12, <2>1
    <2>2. CASE Len(kept) = Len(queue) /\ dropped' = dropped
        BY <1>7, <1>12, <2>2
    <2> QED
        BY <1>6, <2>1, <2>2
<1> QED
    BY <1>2, <1>9, <1>10, <1>11, <1>13

-----------------------------------------------------------------------------
(* Every step keeps the invariant.                                         *)

\* The steps that touch neither records nor the worker.
Quiet == Tell \/ CloseFlag \/ Stop \/ Closed \/ UNCHANGED fvars

LEMMA QuietDoes ==
    ASSUME Quiet
    PROVE UNCHANGED <<queue, accepted, dropped, worker, sent, failed>>
BY DEF Quiet, Tell, CloseFlag, Stop, Closed, fvars

IdleMove == Tick \/ Wake \/ LastFlush \/ Flushed \/ Loop

\* A step is one of these.
LEMMA Cases ==
    ASSUME [FNext]_fvars
    PROVE Quiet \/ IdleMove \/ Take \/ Deliver \/ Fail \/ (closer = "open" /\ Send)
BY DEF FNext, Work, Close, Quiet, IdleMove, Send

\* The types.
LEMMA TypeStep == IInv /\ [FNext]_fvars => FTypeOK'
<1> SUFFICES ASSUME IInv, [FNext]_fvars PROVE FTypeOK'
    OBVIOUS
<1>1. FTypeOK /\ TodoInv /\ NewestKept /\ Accounted
    BY DEF IInv, OrderInv
<1>2. notify' \in BOOLEAN /\ telling' \in Nat /\ closer' \in {"open", "closed", "stopped", "done"}
    <2>1. notify \in BOOLEAN /\ telling \in Nat /\ closer \in {"open", "closed", "stopped", "done"}
        BY <1>1 DEF FTypeOK
    <2>2. CASE Quiet
        <3>1. CASE Tell
            BY <2>1, <3>1 DEF Tell
        <3>2. CASE CloseFlag \/ Stop \/ Closed
            BY <2>1, <3>2 DEF CloseFlag, Stop, Closed
        <3>3. CASE UNCHANGED fvars
            BY <2>1, <3>3 DEF fvars
        <3> QED
            BY <2>2, <3>1, <3>2, <3>3 DEF Quiet
    <2>3. CASE IdleMove \/ Take
        BY <2>1, <2>3 DEF IdleMove, Tick, Wake, LastFlush, Flushed, Loop, Take
    <2>4. CASE Deliver \/ Fail
        BY <2>1, <2>4 DEF Deliver, Fail
    <2>5. CASE closer = "open" /\ Send
        BY <2>1, <2>5 DEF Send
    <2> QED
        BY <2>2, <2>3, <2>4, <2>5, Cases
<1>3. CASE Quiet
    BY <1>1, <1>2, <1>3, QuietDoes DEF FTypeOK
<1>4. CASE IdleMove
    BY <1>1, <1>2, <1>4, IdleMoves DEF FTypeOK, IdleMove, Workers, Pcs
<1>5. CASE Take
    <2>1. UNCHANGED <<accepted, dropped, sent, failed>>
        BY <1>5 DEF Take
    <2>2. worker' \in Workers(accepted) /\ worker'.pc = "send" /\ worker'.todo = Destinations
          /\ queue' \in Seq(1 .. accepted) /\ Len(queue') <= Len(queue)
        BY <1>1, <1>5, TakeDoes
    <2>3. Len(queue') <= Capacity
        BY <1>1, <2>2, SizesAssumption DEF FTypeOK
    <2> QED
        BY <1>1, <1>2, <2>1, <2>2, <2>3, AllDests DEF FTypeOK, Workers, Pcs
<1>6. CASE Deliver
    <2>1. worker.pc = "send" /\ Served /\ sent' = [sent EXCEPT ![Head(worker.todo)] = @ \o worker.batch]
          /\ UNCHANGED <<queue, accepted, dropped, failed>>
        BY <1>6 DEF Deliver
    <2>2. worker' \in Workers(accepted) /\ (worker'.pc = "send" <=> worker'.todo # <<>>) /\ Head(worker.todo) \in Dests
        BY <1>1, <2>1, ServedDoes
    <2>3. sent' \in [Dests -> Seq(1 .. accepted)]
        BY <1>1, <2>1, <2>2 DEF FTypeOK
    <2> QED
        BY <1>1, <1>2, <2>1, <2>2, <2>3 DEF FTypeOK, Workers, Pcs
<1>7. CASE Fail
    <2>1. worker.pc = "send" /\ Served /\ failed' = [failed EXCEPT ![Head(worker.todo)] = @ + Len(worker.batch)]
          /\ UNCHANGED <<queue, accepted, dropped, sent>>
        BY <1>7 DEF Fail
    <2>2. worker' \in Workers(accepted) /\ (worker'.pc = "send" <=> worker'.todo # <<>>)
        BY <1>1, <2>1, ServedDoes
    <2>3. failed' \in [Dests -> Nat]
        BY <1>1, <2>1 DEF FTypeOK
    <2> QED
        BY <1>1, <1>2, <2>1, <2>2, <2>3 DEF FTypeOK, Workers, Pcs
<1>8. CASE closer = "open" /\ Send
    <2>1. /\ accepted' = accepted + 1 /\ UNCHANGED <<worker, sent, failed>>
          /\ queue' \in Seq(1 .. accepted') /\ Len(queue') <= Capacity
          /\ dropped' \in {dropped, dropped + 1}
        BY <1>1, <1>8, SendDoes
    <2>2. accepted \in Nat /\ accepted' \in Nat /\ dropped' \in 0 .. accepted'
        BY <1>1, <2>1 DEF FTypeOK
    <2>3. worker.batch \in Seq(1 .. accepted') /\ \A d \in Dests : sent[d] \in Seq(1 .. accepted')
        BY <1>1, <2>1, <2>2, MoreRecords DEF FTypeOK
    <2> QED
        BY <1>1, <1>2, <2>1, <2>2, <2>3 DEF FTypeOK
<1> QED
    BY <1>3, <1>4, <1>5, <1>6, <1>7, <1>8, Cases

\* A batch is offered to each destination once.
LEMMA TodoStep == IInv /\ [FNext]_fvars => TodoInv'
<1> SUFFICES ASSUME IInv, [FNext]_fvars PROVE TodoInv'
    OBVIOUS
<1>1. FTypeOK /\ TodoInv /\ NewestKept
    BY DEF IInv, OrderInv
<1>2. CASE worker' = worker
    BY <1>1, <1>2 DEF TodoInv
<1>3. CASE IdleMove
    BY <1>1, <1>3, IdleMoves DEF TodoInv, IdleMove, IsInjective
<1>4. CASE Take
    BY <1>1, <1>4, TakeDoes, AllDests DEF TodoInv
<1>5. CASE Deliver \/ Fail
    BY <1>1, <1>5, ServedDoes DEF Deliver, Fail, TodoInv
<1> QED
    BY <1>1, <1>2, <1>3, <1>4, <1>5, Cases, QuietDoes, SendDoes

\* What was accepted is dropped, queued, in the worker's hands, taken or refused.
LEMMA AccountedStep == IInv /\ [FNext]_fvars => Accounted'
<1> SUFFICES ASSUME IInv, [FNext]_fvars, NEW d \in Dests
             PROVE accepted' = dropped' + Len(queue') + Owed(d)' + Len(sent'[d]) + failed'[d]
    BY DEF Accounted
<1>1. /\ FTypeOK /\ TodoInv /\ NewestKept
      /\ sent[d] \in Seq(1 .. accepted) /\ worker.batch \in Seq(1 .. accepted)
      /\ sent \in [Dests -> Seq(1 .. accepted)] /\ failed \in [Dests -> Nat]
    BY DEF IInv, OrderInv, FTypeOK
    \* The numbers before the step.
<1>2. PICK a \in Nat, q \in Nat, o \in Nat, s \in Nat, f \in Nat, acc \in Nat, n \in Nat :
        /\ acc = a + q + o + s + f
        /\ accepted = acc /\ dropped = a /\ Len(queue) = q /\ Owed(d) = o /\ Len(sent[d]) = s /\ failed[d] = f
        /\ Len(worker.batch) = n
    <2>1. dropped \in Nat /\ accepted \in Nat /\ failed[d] \in Nat /\ queue \in Seq(1 .. accepted)
        BY DEF IInv, FTypeOK
    <2>2. Len(queue) \in Nat /\ Len(sent[d]) \in Nat /\ Len(worker.batch) \in Nat /\ Owed(d) \in Nat
        BY <1>1, <2>1 DEF Owed
    <2> QED
        BY <2>1, <2>2, Zenon DEF IInv, Accounted
<1>3. CASE Quiet
    BY <1>3, <1>2, QuietDoes DEF Owed
<1>4. CASE IdleMove
    <2>1. /\ worker.todo = <<>> /\ worker'.todo = <<>>
          /\ UNCHANGED <<queue, accepted, dropped, sent, failed>>
        BY <1>1, <1>4, IdleMoves DEF IdleMove
    <2>2. Owed(d)' = 0 /\ Owed(d) = 0
        BY <2>1 DEF Owed, Range
    <2> QED
        BY <1>2, <2>1, <2>2
<1>5. CASE Take
    <2>1. PICK k \in Nat :
            k <= q /\ worker'.todo = Destinations /\ Len(worker'.batch) = k /\ Len(queue') = q - k
        BY <1>1, <1>5, <1>2, TakeDoes
    <2>2. worker.todo = <<>>
        BY <1>1, <1>5 DEF Take, FTypeOK
    <2>3. o = 0
        BY <1>2, <2>2 DEF Owed, Range
    <2>4. Owed(d)' = k
        BY <2>1, AllDests DEF Owed
    <2>5. accepted' = acc /\ dropped' = a /\ Len(sent'[d]) = s /\ failed'[d] = f
        BY <1>5, <1>2 DEF Take
    <2> QED
        BY <1>2, <2>1, <2>3, <2>4, <2>5
<1>6. CASE Deliver \/ Fail
    <2> DEFINE h == Head(worker.todo)
    <2>1. worker.pc = "send" /\ Served /\ UNCHANGED <<queue, accepted, dropped>>
        BY <1>6 DEF Deliver, Fail
    <2>2. /\ h \in Dests /\ h \in Range(worker.todo)
          /\ Range(worker'.todo) = Range(worker.todo) \ {h}
          /\ worker'.todo = <<>> \/ worker'.batch = worker.batch
        BY <1>1, <2>1, ServedDoes
    <2>3. accepted' = acc /\ dropped' = a /\ Len(queue') = q
        BY <1>2, <2>1
    <2>4. CASE d = h
        <3>1. o = n /\ Owed(d)' = 0
            BY <1>2, <2>2, <2>4 DEF Owed
        <3>2. CASE Deliver
            <4>1. sent'[d] = sent[d] \o worker.batch /\ failed'[d] = f
                BY <1>1, <1>2, <2>4, <3>2 DEF Deliver
            <4>2. Len(sent'[d]) = s + n
                BY <1>1, <1>2, <4>1
            <4> QED
                BY <1>2, <2>3, <3>1, <4>1, <4>2
        <3>3. CASE Fail
            <4>1. Len(sent'[d]) = s /\ failed'[d] = f + n
                BY <1>1, <1>2, <2>4, <3>3 DEF Fail
            <4> QED
                BY <1>2, <2>3, <3>1, <4>1
        <3> QED
            BY <1>6, <3>2, <3>3
    <2>5. CASE d # h
        <3>1. d \in Range(worker'.todo) <=> d \in Range(worker.todo)
            BY <2>2, <2>5
        <3>2. worker'.todo = <<>> => d \notin Range(worker'.todo)
            BY DEF Range
        <3>3. Owed(d)' = o
            BY <1>2, <2>2, <3>1, <3>2 DEF Owed
        <3>4. Len(sent'[d]) = s /\ failed'[d] = f
            BY <1>1, <1>6, <1>2, <2>5 DEF Deliver, Fail
        <3> QED
            BY <1>2, <2>3, <3>3, <3>4
    <2> QED
        BY <2>4, <2>5
<1>7. CASE closer = "open" /\ Send
    <2>1. PICK a2 \in Nat, q2 \in Nat : dropped' = a2 /\ Len(queue') = q2 /\ a2 + q2 = a + q + 1
        BY <1>1, <1>7, <1>2, SendDoes
    <2>2. accepted' = acc + 1 /\ UNCHANGED <<worker, sent, failed>>
        BY <1>1, <1>7, <1>2, SendDoes
    <2>3. Owed(d)' = o /\ Len(sent'[d]) = s /\ failed'[d] = f
        BY <1>2, <2>2 DEF Owed
    <2>4. acc + 1 = a2 + q2 + o + s + f
        BY <1>2, <2>1
    <2> QED
        BY <2>1, <2>2, <2>3, <2>4
<1> QED
    BY <1>3, <1>4, <1>5, <1>6, <1>7, Cases

\* The order of the records.
LEMMA OrderStep == IInv /\ [FNext]_fvars => OrderInv'
<1> SUFFICES ASSUME IInv, [FNext]_fvars PROVE OrderInv'
    OBVIOUS
<1>1. FTypeOK /\ TodoInv /\ NewestKept /\ OrderInv
    BY DEF IInv, OrderInv
<1>2. CASE Quiet
    BY <1>1, <1>2, QuietDoes DEF OrderInv, NewestKept
<1>3. CASE IdleMove
    <2>1. worker'.batch = <<>> /\ worker'.todo = <<>> /\ UNCHANGED <<queue, accepted, sent>>
        BY <1>1, <1>3, IdleMoves DEF IdleMove
    <2> QED
        BY <1>1, <2>1 DEF OrderInv, NewestKept, Increasing, Range
<1>4. CASE Take
    <2>1. PICK n \in 1 .. Len(queue) :
            /\ Len(queue) \in Nat
            /\ Len(worker'.batch) = n /\ DOMAIN worker'.batch = 1 .. n
            /\ \A i \in 1 .. n : worker'.batch[i] = accepted - Len(queue) + i
            /\ Len(queue') = Len(queue) - n /\ DOMAIN queue' = 1 .. Len(queue) - n
            /\ \A i \in 1 .. Len(queue) - n : queue'[i] = accepted - Len(queue) + n + i
        BY <1>1, <1>4, TakeDoes
    <2>2. accepted \in Nat /\ accepted' = accepted /\ sent' = sent
        BY <1>1, <1>4 DEF Take, FTypeOK
    <2>3. NewestKept'
        BY <2>1, <2>2 DEF NewestKept
    <2>4. Increasing(worker'.batch)
        BY <2>1, <2>2 DEF Increasing
    <2>5. ASSUME NEW d \in Dests, NEW i \in DOMAIN sent[d]
          PROVE /\ sent[d][i] <= accepted - Len(queue')
                /\ \A j \in 1 .. n : sent[d][i] < worker'.batch[j]
        <3>1. sent[d] \in Seq(1 .. accepted)
            BY <1>1 DEF FTypeOK
        <3>2. sent[d][i] \in Nat
            BY <2>2, <3>1
        <3>3. sent[d][i] <= accepted - Len(queue)
            BY <1>1 DEF OrderInv
        <3> QED
            BY <2>1, <2>2, <3>2, <3>3
    <2>6. Range(worker'.todo) = Dests
        BY <1>1, <1>4, TakeDoes, AllDests
    <2> QED
        BY <1>1, <2>1, <2>2, <2>3, <2>4, <2>5, <2>6 DEF OrderInv
<1>5. CASE Deliver \/ Fail
    <2> DEFINE h == Head(worker.todo)
    <2>1. worker.pc = "send" /\ Served /\ UNCHANGED <<queue, accepted>>
        BY <1>5 DEF Deliver, Fail
    <2>2. /\ h \in Range(worker.todo) /\ h \in Dests
          /\ Range(worker'.todo) = Range(worker.todo) \ {h}
          /\ \/ worker'.batch = <<>> /\ worker'.todo = <<>>
             \/ worker'.batch = worker.batch
        BY <1>1, <2>1, ServedDoes
    <2>3. NewestKept' /\ Increasing(worker'.batch)
        BY <1>1, <2>1, <2>2 DEF NewestKept, OrderInv, Increasing
    <2>4. ASSUME NEW d \in Dests, d # h \/ Fail PROVE sent'[d] = sent[d]
        BY <1>1, <1>5, <2>4 DEF Deliver, Fail, FTypeOK
    <2>5. CASE Fail
        <3>1. ASSUME NEW d \in Range(worker'.todo), NEW i \in DOMAIN sent[d], NEW j \in DOMAIN worker'.batch
              PROVE sent[d][i] < worker'.batch[j]
            BY <1>1, <2>2, <3>1 DEF OrderInv, Range
        <3> QED
            BY <1>1, <2>1, <2>3, <2>5, <3>1 DEF OrderInv, Fail
    <2>6. CASE Deliver
        <3>1. /\ sent[h] \in Seq(1 .. accepted) /\ worker.batch \in Seq(1 .. accepted) /\ accepted \in Nat
              /\ sent \in [Dests -> Seq(1 .. accepted)]
            BY <1>1, <2>2 DEF FTypeOK
        <3>2. sent'[h] = sent[h] \o worker.batch
            BY <2>2, <2>6, <3>1 DEF Deliver
        <3>3. /\ Increasing(sent'[h])
              /\ \A i \in DOMAIN sent'[h] : sent'[h][i] <= accepted - Len(queue)
            <4>1. /\ Increasing(sent[h] \o worker.batch)
                  /\ \A i \in DOMAIN (sent[h] \o worker.batch) :
                        \/ \E k \in DOMAIN sent[h] : (sent[h] \o worker.batch)[i] = sent[h][k]
                        \/ \E k \in DOMAIN worker.batch : (sent[h] \o worker.batch)[i] = worker.batch[k]
                <5>1. /\ Increasing(sent[h]) /\ Increasing(worker.batch)
                      /\ \A i \in DOMAIN sent[h], j \in DOMAIN worker.batch : sent[h][i] < worker.batch[j]
                    BY <1>1, <2>2 DEF OrderInv
                <5> HIDE DEF h
                <5> QED
                    BY <3>1, <5>1, Joined
            <4>2. /\ \A k \in DOMAIN sent[h] : sent[h][k] <= accepted - Len(queue)
                  /\ \A k \in DOMAIN worker.batch : worker.batch[k] <= accepted - Len(queue)
                BY <1>1, <2>2 DEF OrderInv, NewestKept
            <4> HIDE DEF h
            <4> QED
                BY <3>2, <4>1, <4>2
        <3>4. ASSUME NEW d \in Range(worker'.todo), NEW i \in DOMAIN sent'[d], NEW j \in DOMAIN worker'.batch
              PROVE sent'[d][i] < worker'.batch[j]
            <4>1. d \in Range(worker.todo) /\ d # h /\ worker'.batch = worker.batch
                <5>1. d \in Range(worker.todo) /\ d # h
                    BY <2>2, <3>4
                <5>2. worker'.todo # <<>>
                    BY <3>4 DEF Range
                <5> QED
                    BY <2>2, <5>1, <5>2
            <4>2. d \in Dests
                BY <1>1, <4>1 DEF FTypeOK, Range
            <4> QED
                BY <1>1, <2>4, <4>1, <4>2 DEF OrderInv
        <3>5. ASSUME NEW d \in Dests
              PROVE Increasing(sent'[d]) /\ \A i \in DOMAIN sent'[d] : sent'[d][i] <= accepted - Len(queue)
            <4>1. CASE d = h
                BY <3>3, <4>1
            <4>2. CASE d # h
                BY <1>1, <2>4, <4>2 DEF OrderInv
            <4> QED
                BY <4>1, <4>2
        <3> QED
            BY <2>1, <2>3, <3>4, <3>5 DEF OrderInv
    <2> QED
        BY <1>5, <2>5, <2>6
<1>6. CASE closer = "open" /\ Send
    <2>1. /\ accepted' = accepted + 1 /\ UNCHANGED <<worker, sent>>
          /\ accepted' - Len(queue') >= accepted - Len(queue) /\ Len(queue') \in Nat
          /\ \A i \in DOMAIN queue' : queue'[i] = accepted' - Len(queue') + i
        BY <1>1, <1>6, SendDoes
    <2>2. accepted \in Nat /\ Len(queue) \in Nat
        BY <1>1 DEF FTypeOK
    <2>3. ASSUME NEW r \in Nat, r <= accepted - Len(queue) PROVE r <= accepted' - Len(queue')
        BY <2>1, <2>2, <2>3
    <2>4. \A i \in DOMAIN worker.batch : worker.batch[i] \in Nat
        BY <1>1 DEF FTypeOK
    <2>5. \A d \in Dests : \A i \in DOMAIN sent[d] : sent[d][i] \in Nat
        BY <1>1 DEF FTypeOK
    <2>6. NewestKept'
        BY <1>1, <2>1, <2>3, <2>4 DEF NewestKept
    <2>7. \A d \in Dests : \A i \in DOMAIN sent[d] : sent[d][i] <= accepted' - Len(queue')
        BY <1>1, <2>3, <2>5 DEF OrderInv
    <2> QED
        BY <1>1, <2>1, <2>6, <2>7 DEF OrderInv
<1> QED
    BY <1>2, <1>3, <1>4, <1>5, <1>6, Cases

\* The worker ends after Close, with an empty queue, and Close returns after that.
LEMMA CloseStep == IInv /\ [FNext]_fvars => CloseInv'
<1> SUFFICES ASSUME IInv, [FNext]_fvars PROVE CloseInv'
    OBVIOUS
<1>1. FTypeOK /\ TodoInv /\ NewestKept /\ CloseInv
    BY DEF IInv, OrderInv
<1>2. CASE Quiet
    <2>1. UNCHANGED <<queue, worker>>
        BY <1>2, QuietDoes
    <2>2. /\ Cancelled => Cancelled'
          /\ closer' = "done" => closer = "done" \/ worker.pc = "ended"
        BY <1>2 DEF Quiet, Tell, CloseFlag, Stop, Closed, fvars, Cancelled
    <2> QED
        BY <1>1, <2>1, <2>2 DEF CloseInv
<1>3. CASE IdleMove
    <2>1. /\ worker.pc # "ended" /\ UNCHANGED <<queue, closer>>
          /\ worker'.last => Cancelled
          /\ worker'.pc = "ended" => worker.last /\ queue = <<>>
        BY <1>1, <1>3, IdleMoves, Zenon DEF IdleMove, Tick, Wake, LastFlush, Flushed, Loop
    <2> QED
        BY <1>1, <2>1 DEF CloseInv, Cancelled
<1>4. CASE Take
    <2>1. worker.pc = "flush" /\ worker'.pc = "send" /\ worker'.last = worker.last /\ closer' = closer
        BY <1>1, <1>4, TakeDoes DEF Take
    <2> QED
        BY <1>1, <2>1 DEF CloseInv, Cancelled
<1>5. CASE Deliver \/ Fail
    <2>1. worker.pc = "send" /\ Served /\ UNCHANGED <<queue, closer>>
        BY <1>5 DEF Deliver, Fail
    <2>2. worker'.pc # "ended" /\ worker'.last = worker.last
        BY <1>1, <2>1, ServedDoes
    <2> QED
        BY <1>1, <2>1, <2>2 DEF CloseInv, Cancelled
<1>6. CASE closer = "open" /\ Send
    <2>1. UNCHANGED <<worker, closer>> /\ ~Cancelled
        BY <1>1, <1>6, SendDoes DEF Cancelled
    <2> QED
        BY <1>1, <1>6, <2>1 DEF CloseInv, Cancelled
<1> QED
    BY <1>2, <1>3, <1>4, <1>5, <1>6, Cases

-----------------------------------------------------------------------------
\* Nothing was sent.
LEMMA InitHolds == FInit => IInv
<1> SUFFICES ASSUME FInit PROVE IInv
    OBVIOUS
<1>1. FTypeOK
    <2>1. \A S : <<>> \in Seq(S) /\ Len(<<>>) = 0
        BY EmptySeq
    <2>2. Waiting \in Workers(accepted)
        BY <2>1 DEF Waiting, Workers, Pcs
    <2>3. queue \in Seq(1 .. accepted) /\ Len(queue) <= Capacity
        BY <2>1, SizesAssumption DEF FInit
    <2>4. /\ accepted = 0 /\ dropped = 0 /\ notify = FALSE /\ telling = 0
          /\ closer \in {"open", "closed", "stopped", "done"}
        BY DEF FInit
    <2>5. sent \in [Dests -> Seq(1 .. accepted)] /\ failed \in [Dests -> Nat]
        BY <2>1 DEF FInit
    <2>6. (worker.pc = "send") <=> (worker.todo # <<>>)
        BY DEF FInit, Waiting
    <2>7. worker \in Workers(accepted)
        BY <2>2 DEF FInit
    <2>8. accepted \in Nat /\ dropped \in 0 .. accepted /\ telling \in Nat
        BY <2>4
    <2> QED
        BY <2>3, <2>4, <2>5, <2>6, <2>7, <2>8 DEF FTypeOK, Workers, Pcs
<1>2. TodoInv /\ OrderInv /\ CloseInv
    BY DEF FInit, TodoInv, OrderInv, CloseInv, NewestKept, Increasing, IsInjective, Waiting, Range
<1>3. Accounted
    BY DEF FInit, Accounted, Owed, Range, Waiting
<1> QED
    BY <1>1, <1>2, <1>3 DEF IInv

\* Every step keeps the records in order and accounted for.
THEOREM Invariance == FSpec => []IInv
<1>1. IInv /\ [FNext]_fvars => IInv'
    BY TypeStep, TodoStep, AccountedStep, OrderStep, CloseStep DEF IInv
<1> QED
    BY InitHolds, <1>1, PTL DEF FSpec

\* Every variable of the forwarder keeps its shape: the queue never grows over its
\* capacity, and only records that were accepted are anywhere (Send, flush).
THEOREM TypeCorrect == FSpec => []FTypeOK
BY Invariance, PTL DEF IInv

\* Send, flush, record, Close: every record is accounted for at every destination,
\* which sees each at most once and in the order they were raised; a full queue gives
\* up the oldest; and when Close returns none is left that was never offered.
THEOREM OnceInOrder == FSpec => []EachOnceInOrder
<1>1. IInv => EachOnceInOrder
    BY DEF IInv, OrderInv, TodoInv, CloseInv, EachOnceInOrder, InOrder, Increasing, NothingLeftBehind
<1> QED
    BY <1>1, Invariance, PTL

-----------------------------------------------------------------------------
(***************************************************************************)
(* Anchoring.                                                              *)
(***************************************************************************)

Hashes == {"first", "rebuilt", "none"}
Checkpoints == [seq : Nat, hash : Hashes]
Rows == [seq : Nat, hash : Hashes, target : Chain!TargetSet, ok : BOOLEAN]
PublisherJobs == [pc : {"idle", "latest", "publish"}, cp : Checkpoints, records : Seq(Rows)]
Verifiers ==
    [pc : {"idle", "listed"}, rows : SUBSET Rows, all : SUBSET Rows,
     verdict : {"none", "rebuilt", "all failed", "gaps", "all match"}]

\* The shape of the chain, of the tables and of the processes.
AnchoringTypeOK ==
    /\ chain \in Seq(Hashes)
    /\ checkpoints \subseteq Checkpoints
    /\ anchors \in Seq(Rows)
    /\ held \in [Chain!TargetSet -> SUBSET checkpoints]
    /\ job \in [Publishers -> PublisherJobs]
    /\ verifier \in Verifiers
    /\ rebuilt \in Nat

Of(a) == [seq |-> a.seq, hash |-> a.hash]
\* What a row says is so when the targets hold h.
Real(h, a) == a.ok => Of(a) \in h[a.target]
\* And what a publisher noted, which sends a checkpoint that was signed.
Good(h, signed, j) ==
    /\ \A i \in DOMAIN j.records : Real(h, j.records[i])
    /\ j.pc = "publish" => j.cp \in signed

\* What a row says is so from the moment its publisher notes it; a publisher sends a
\* checkpoint that was signed.
RealInv ==
    /\ \A i \in DOMAIN anchors : Real(held, anchors[i])
    /\ \A p \in Publishers : Good(held, checkpoints, job[p])

\* Rows that were read say published only of checkpoints that were signed; until the
\* chain is rebuilt these are on it.
AlarmInv ==
    /\ \A a \in verifier.rows : a.ok => Of(a) \in checkpoints
    /\ rebuilt = 0 => \A c \in checkpoints : Chain!Matches(c)
    /\ verifier.verdict = "rebuilt" => rebuilt # 0

\* Checkpoints were signed up to some sequence number.
BoundInv == \E n \in Nat : \A c \in checkpoints : c.seq <= n

AnchoringIInv == AnchoringTypeOK /\ BoundInv /\ RealInv /\ AlarmInv

-----------------------------------------------------------------------------
\* Nothing was signed.
LEMMA AnchoringInitHolds == Chain!Init => AnchoringIInv
<1> SUFFICES ASSUME Chain!Init PROVE AnchoringIInv
    OBVIOUS
<1>1. \A S : <<>> \in Seq(S)
    BY EmptySeq
<1>2. Chain!Idle \in PublisherJobs /\ Chain!NoVerifier \in Verifiers
    BY <1>1 DEF Chain!Idle, Chain!NoVerifier, PublisherJobs, Verifiers, Checkpoints,
       Hashes
<1>3. AnchoringTypeOK
    BY <1>1, <1>2 DEF Chain!Init, AnchoringTypeOK
<1>4. BoundInv /\ RealInv /\ AlarmInv
    BY DEF Chain!Init, BoundInv, RealInv, AlarmInv, Good, Chain!Idle, Chain!NoVerifier
<1> QED
    BY <1>3, <1>4 DEF AnchoringIInv

\* A publisher sends its checkpoint to one more target and notes what became of it.
LEMMA PublishDoes ==
    ASSUME Chain!WellFormed, AnchoringTypeOK, NEW p \in Publishers, Chain!Publish(p)
    PROVE \E t \in Chain!TargetSet, answer \in Chain!Answers :
            /\ job[p].pc = "publish" /\ job[p] \in PublisherJobs
            /\ held' = IF answer = "refused" THEN held ELSE [held EXCEPT ![t] = @ \cup {job[p].cp}]
            /\ job' = [job EXCEPT ![p].records = Append(@, Chain!Record(job[p].cp, t, answer))]
            /\ Chain!Record(job[p].cp, t, answer) \in Rows
<1>1. job[p] \in PublisherJobs /\ job[p].records \in Seq(Rows) /\ job[p].cp \in Checkpoints
    BY DEF AnchoringTypeOK, PublisherJobs
<1>2. Len(job[p].records) + 1 \in 1 .. Len(Targets)
    BY <1>1 DEF Chain!Publish, Chain!WellFormed
<1> DEFINE t == Targets[Len(job[p].records) + 1]
<1>3. t \in Chain!TargetSet
    BY <1>2 DEF Chain!WellFormed
<1>4. PICK answer \in Chain!Answers :
        /\ job[p].pc = "publish"
        /\ held' = IF answer = "refused" THEN held ELSE [held EXCEPT ![t] = @ \cup {job[p].cp}]
        /\ job' = [job EXCEPT ![p].records = Append(@, Chain!Record(job[p].cp, t, answer))]
    BY DEF Chain!Publish
<1>5. Chain!Record(job[p].cp, t, answer) \in Rows
    BY <1>1, <1>3 DEF Chain!Record, Rows, Checkpoints
<1> QED
    BY <1>1, <1>3, <1>4, <1>5

\* A step leaves what was signed and what a target holds.
LEMMA Grows ==
    ASSUME Chain!WellFormed, AnchoringTypeOK, [Chain!Next]_(Chain!vars)
    PROVE checkpoints \subseteq checkpoints' /\ \A t \in Chain!TargetSet : held[t] \subseteq held'[t]
<1>1. CASE held' = held
    <2>1. checkpoints \subseteq checkpoints'
        BY <1>1 DEF Chain!Next, Chain!vars, Chain!AppendEntry, Chain!Sign,
           Chain!Rebuild, Chain!AnchorNow, Chain!Anchor, Chain!Latest, Chain!Publish,
           Chain!RecordAnchors, Chain!Restart, Chain!ListAnchors, Chain!Compare
    <2> QED
        BY <1>1, <2>1
<1>2. CASE held' # held
    <2>1. PICK p \in Publishers : Chain!Publish(p)
        BY <1>2 DEF Chain!Next, Chain!vars, Chain!AppendEntry, Chain!Sign,
           Chain!Rebuild, Chain!AnchorNow, Chain!Anchor, Chain!Latest,
           Chain!RecordAnchors, Chain!Restart, Chain!ListAnchors, Chain!Compare
    <2>2. checkpoints' = checkpoints
        BY <2>1 DEF Chain!Publish
    <2>3. \E t \in Chain!TargetSet : \E c : held' = [held EXCEPT ![t] = @ \cup {c}] \/ held' = held
        BY <2>1, PublishDoes
    <2> QED
        BY <2>2, <2>3 DEF AnchoringTypeOK
<1> QED
    BY <1>1, <1>2

\* The steps, sorted by what they touch.
LEMMA AnchoringCases ==
    ASSUME [Chain!Next]_(Chain!vars)
    PROVE \/ UNCHANGED Chain!vars
          \/ Chain!AppendEntry \/ Chain!Sign \/ Chain!Restart \/ Chain!ListAnchors \/ Chain!Compare
          \/ \E k \in DOMAIN chain : Chain!Rebuild(k)
          \/ \E p \in Publishers : Chain!AnchorNow(p) \/ Chain!Latest(p)
          \/ \E p \in Publishers : Chain!Publish(p)
          \/ \E p \in Publishers : Chain!RecordAnchors(p)
BY Zenon DEF Chain!Next, Chain!Anchor

\* Of natural numbers there is a least.
LEMMA LeastNatural ==
    ASSUME NEW T, T \subseteq Nat, T # {}
    PROVE \E x \in T : \A y \in T : x <= y
<1>1. PICK x \in T : \A y \in T : ~(<<y, x>> \in OpToRel(<, Nat))
    BY NatLessThanWellFounded, WFMin
<1>2. ASSUME NEW y \in T PROVE x <= y
    <2>1. ~(y < x)
        BY <1>1 DEF OpToRel
    <2> QED
        BY <2>1
<1> QED
    BY <1>2

\* Of checkpoints up to some sequence number there is a newest.
LEMMA NewestIsOne ==
    ASSUME NEW S, S # {}, S \subseteq Checkpoints, NEW n \in Nat, \A c \in S : c.seq <= n
    PROVE Chain!Newest(S) \in S
<1> DEFINE T == {n - c.seq : c \in S}
<1>1. \A c \in S : c.seq \in Nat
    BY DEF Checkpoints
<1>2. T \subseteq Nat /\ T # {}
    BY <1>1
<1>3. PICK x \in T : \A y \in T : x <= y
    BY <1>2, LeastNatural
<1>4. PICK c \in S : x = n - c.seq
    OBVIOUS
<1>5. ASSUME NEW d \in S PROVE d.seq <= c.seq
    <2>1. x <= n - d.seq
        BY <1>3
    <2> QED
        BY <1>1, <1>4, <2>1
<1> QED
    BY <1>5 DEF Chain!Newest

\* What the publisher takes up is a checkpoint without an anchor.
LEMMA LatestDoes ==
    ASSUME AnchoringTypeOK, BoundInv, NEW p \in Publishers, Chain!Latest(p)
    PROVE \/ job' = [job EXCEPT ![p] = Chain!Idle]
          \/ \E c \in checkpoints :
                job' = [job EXCEPT ![p] = [job[p] EXCEPT !.pc = "publish", !.cp = c]]
<1>1. CASE Chain!Unanchored = {}
    BY <1>1 DEF Chain!Latest
<1>2. CASE Chain!Unanchored # {}
    <2>1. Chain!Unanchored \subseteq checkpoints /\ checkpoints \subseteq Checkpoints
        BY DEF Chain!Unanchored, AnchoringTypeOK
    <2>2. PICK n \in Nat : \A c \in checkpoints : c.seq <= n
        BY DEF BoundInv
    <2>3. Chain!Newest(Chain!Unanchored) \in Chain!Unanchored
        BY <1>2, <2>1, <2>2, NewestIsOne
    <2>4. job' = [job EXCEPT ![p] = [job[p] EXCEPT !.pc = "publish", !.cp = Chain!Newest(Chain!Unanchored)]]
        BY <1>2 DEF Chain!Latest
    <2> QED
        BY <2>1, <2>3, <2>4
<1> QED
    BY <1>1, <1>2

\* The checkpoint the timer signs is of the tip of the chain.
LEMMA SignDoes ==
    ASSUME AnchoringTypeOK, Chain!Sign
    PROVE \E c \in Checkpoints :
            /\ checkpoints' = checkpoints \cup {c}
            /\ c.seq = Len(chain) /\ Chain!Matches(c)
<1>1. chain \in Seq(Hashes) /\ Len(chain) \in Nat /\ Len(chain) > 0
    BY DEF AnchoringTypeOK, Chain!Sign
<1>2. Chain!Last(chain) = chain[Len(chain)] /\ Len(chain) \in DOMAIN chain /\ chain[Len(chain)] \in Hashes
    BY <1>1 DEF Chain!Last
<1> DEFINE c == [seq |-> Len(chain), hash |-> Chain!Last(chain)]
<1>3. c \in Checkpoints /\ c.seq = Len(chain) /\ Chain!Matches(c)
    BY <1>1, <1>2 DEF Checkpoints, Chain!Matches
<1>4. checkpoints' = checkpoints \cup {c}
    BY DEF Chain!Sign
<1> QED
    BY <1>3, <1>4

\* The first records of a publisher are added to the table.
LEMMA RecordsDo ==
    ASSUME AnchoringTypeOK, NEW p \in Publishers, Chain!RecordAnchors(p)
    PROVE /\ anchors' \in Seq(Rows) /\ job' = [job EXCEPT ![p] = Chain!Idle]
          /\ \A i \in DOMAIN anchors' :
                \/ \E k \in DOMAIN anchors : anchors'[i] = anchors[k]
                \/ \E k \in DOMAIN job[p].records : anchors'[i] = job[p].records[k]
<1>1. PICK n \in 0 .. Len(Targets) : anchors' = anchors \o SubSeq(job[p].records, 1, n)
    BY DEF Chain!RecordAnchors
<1>2. job[p].records \in Seq(Rows) /\ anchors \in Seq(Rows) /\ Len(job[p].records) = Len(Targets)
    BY DEF AnchoringTypeOK, PublisherJobs, Chain!RecordAnchors
<1> DEFINE new == SubSeq(job[p].records, 1, n)
<1>3. n \in Nat /\ n <= Len(job[p].records) /\ Len(job[p].records) \in Nat
    BY <1>2
<1>4. new \in Seq(Rows) /\ Len(new) = n /\ \A i \in 1 .. n : new[i] = job[p].records[i]
    BY <1>2, <1>3
<1> HIDE DEF new
<1>5. anchors' \in Seq(Rows) /\ Len(anchors') = Len(anchors) + n
      /\ \A i \in 1 .. Len(anchors) + n :
            anchors'[i] = IF i <= Len(anchors) THEN anchors[i] ELSE new[i - Len(anchors)]
    BY <1>1, <1>2, <1>4, ConcatProperties DEF new
<1>6. ASSUME NEW i \in DOMAIN anchors'
      PROVE \/ \E k \in DOMAIN anchors : anchors'[i] = anchors[k]
            \/ \E k \in DOMAIN job[p].records : anchors'[i] = job[p].records[k]
    <2>1. i \in 1 .. Len(anchors) + n /\ Len(anchors) \in Nat
        BY <1>2, <1>5
    <2>2. CASE i <= Len(anchors)
        <3>1. i \in DOMAIN anchors /\ anchors'[i] = anchors[i]
            BY <1>2, <1>5, <2>1, <2>2
        <3> QED
            BY <3>1
    <2>3. CASE i > Len(anchors)
        <3>1. i - Len(anchors) \in 1 .. n /\ i - Len(anchors) \in DOMAIN job[p].records
            BY <1>2, <1>3, <2>1, <2>3
        <3>2. anchors'[i] = job[p].records[i - Len(anchors)]
            BY <1>4, <1>5, <2>1, <2>3, <3>1
        <3> QED
            BY <3>1, <3>2
    <2> QED
        BY <2>1, <2>2, <2>3
<1>7. job' = [job EXCEPT ![p] = Chain!Idle]
    BY DEF Chain!RecordAnchors
<1> QED
    BY <1>5, <1>6, <1>7

\* Rows that are listed are rows of the table.
LEMMA ListDoes ==
    ASSUME AnchoringTypeOK, Chain!ListAnchors
    PROVE /\ verifier' \in Verifiers /\ verifier'.verdict = "none"
          /\ \A a \in verifier'.rows : \E i \in DOMAIN anchors : a = anchors[i]
<1>1. anchors \in Seq(Rows) /\ \A i \in DOMAIN anchors : anchors[i] \in Rows
    BY DEF AnchoringTypeOK
<1>2. {anchors[i] : i \in Chain!Listed} \subseteq Rows /\ Chain!ToSet(anchors) \subseteq Rows
    BY <1>1 DEF Chain!Listed, Chain!ToSet
<1>3. verifier' = [pc |-> "listed", rows |-> {anchors[i] : i \in Chain!Listed}, all |-> Chain!ToSet(anchors),
                   verdict |-> "none"]
    BY DEF Chain!ListAnchors
<1> QED
    BY <1>2, <1>3 DEF Verifiers, Chain!Listed

\* The chain after an append, or after it was rebuilt.
LEMMA ChainTyped ==
    ASSUME AnchoringTypeOK, Chain!AppendEntry \/ \E k \in DOMAIN chain : Chain!Rebuild(k)
    PROVE chain' \in Seq(Hashes) /\ rebuilt' \in Nat
<1>1. chain \in Seq(Hashes) /\ rebuilt \in Nat /\ Len(chain) \in Nat /\ DOMAIN chain = 1 .. Len(chain)
      /\ \A i \in DOMAIN chain : chain[i] \in Hashes
    BY DEF AnchoringTypeOK
<1>2. CASE Chain!AppendEntry
    <2>1. chain' = Append(chain, IF rebuilt = 0 THEN "first" ELSE "rebuilt") /\ rebuilt' = rebuilt
        BY <1>2 DEF Chain!AppendEntry
    <2>2. (IF rebuilt = 0 THEN "first" ELSE "rebuilt") \in Hashes
        BY DEF Hashes
    <2> QED
        BY <1>1, <2>1, <2>2
<1>3. CASE \E k \in DOMAIN chain : Chain!Rebuild(k)
    <2>1. PICK k \in DOMAIN chain : Chain!Rebuild(k)
        BY <1>3
    <2>2. PICK n \in (k - 1) .. Len(chain) :
            rebuilt' = k /\ chain' = [i \in 1 .. n |-> IF i < k THEN chain[i] ELSE "rebuilt"]
        BY <2>1 DEF Chain!Rebuild
    <2>3. n \in Nat /\ n <= Len(chain) /\ k \in Nat
        BY <1>1, <2>2
    <2>4. \A i \in 1 .. n : (IF i < k THEN chain[i] ELSE "rebuilt") \in Hashes
        BY <1>1, <2>3 DEF Hashes
    <2>5. chain' \in [1 .. n -> Hashes]
        BY <2>2, <2>4
    <2> QED
        BY <2>2, <2>3, <2>5
<1> QED
    BY <1>2, <1>3

\* What a publisher is at, after each of its steps.
LEMMA JobTyped ==
    ASSUME NEW p \in Publishers, job \in [Publishers -> PublisherJobs], checkpoints \subseteq Checkpoints
    PROVE /\ Chain!Idle \in PublisherJobs
          /\ [job EXCEPT ![p] = Chain!Idle] \in [Publishers -> PublisherJobs]
          /\ [job EXCEPT ![p].pc = "latest"] \in [Publishers -> PublisherJobs]
          /\ \A c \in checkpoints :
                [job EXCEPT ![p] = [job[p] EXCEPT !.pc = "publish", !.cp = c]] \in [Publishers -> PublisherJobs]
          /\ \A r \in Rows : [job EXCEPT ![p].records = Append(@, r)] \in [Publishers -> PublisherJobs]
<1>1. Chain!Idle \in PublisherJobs
    <2>1. <<>> \in Seq(Rows)
        BY EmptySeq
    <2> QED
        BY <2>1 DEF Chain!Idle, PublisherJobs, Checkpoints, Hashes
<1>2. job[p] \in PublisherJobs
    OBVIOUS
<1>3. [job[p] EXCEPT !.pc = "latest"] \in PublisherJobs
    BY <1>2 DEF PublisherJobs
<1>4. ASSUME NEW c \in checkpoints PROVE [job[p] EXCEPT !.pc = "publish", !.cp = c] \in PublisherJobs
    BY <1>2 DEF PublisherJobs
<1>5. ASSUME NEW r \in Rows PROVE [job[p] EXCEPT !.records = Append(@, r)] \in PublisherJobs
    <2>1. Append(job[p].records, r) \in Seq(Rows)
        BY <1>2 DEF PublisherJobs
    <2> QED
        BY <1>2, <2>1 DEF PublisherJobs
<1> QED
    BY <1>1, <1>2, <1>3, <1>4, <1>5

\* The types survive every step.
LEMMA AnchoringTypeStep == Chain!WellFormed /\ AnchoringIInv /\ [Chain!Next]_(Chain!vars) => AnchoringTypeOK'
<1> SUFFICES ASSUME Chain!WellFormed, AnchoringIInv, [Chain!Next]_(Chain!vars) PROVE AnchoringTypeOK'
    OBVIOUS
<1>1. AnchoringTypeOK /\ BoundInv
    BY DEF AnchoringIInv
<1>2. /\ chain \in Seq(Hashes) /\ checkpoints \subseteq Checkpoints /\ anchors \in Seq(Rows)
      /\ held \in [Chain!TargetSet -> SUBSET checkpoints] /\ job \in [Publishers -> PublisherJobs]
      /\ verifier \in Verifiers /\ rebuilt \in Nat
    BY <1>1 DEF AnchoringTypeOK
<1>3. CASE UNCHANGED Chain!vars
    BY <1>2, <1>3 DEF AnchoringTypeOK, Chain!vars
<1>4. CASE Chain!AppendEntry \/ \E k \in DOMAIN chain : Chain!Rebuild(k)
    <2>1. UNCHANGED <<checkpoints, anchors, held, job, verifier>>
        BY <1>4 DEF Chain!AppendEntry, Chain!Rebuild
    <2> QED
        BY <1>1, <1>2, <1>4, <2>1, ChainTyped DEF AnchoringTypeOK
<1>5. CASE Chain!Sign
    <2>1. checkpoints \subseteq checkpoints' /\ checkpoints' \subseteq Checkpoints
        BY <1>1, <1>2, <1>5, SignDoes
    <2>2. job' = [job EXCEPT ![Timer].pc = "latest"] /\ UNCHANGED <<chain, anchors, held, verifier, rebuilt>>
        BY <1>5 DEF Chain!Sign
    <2>3. job' \in [Publishers -> PublisherJobs]
        <3>1. CASE Timer \in Publishers
            BY <1>2, <2>2, <3>1, JobTyped
        <3>2. CASE Timer \notin Publishers
            BY <1>2, <2>2, <3>2
        <3> QED
            BY <3>1, <3>2
    <2>4. held' \in [Chain!TargetSet -> SUBSET checkpoints']
        BY <1>2, <2>1, <2>2
    <2> QED
        BY <1>2, <2>1, <2>2, <2>3, <2>4 DEF AnchoringTypeOK
<1>6. CASE Chain!Restart
    <2>1. job' \in [Publishers -> PublisherJobs] /\ verifier' \in Verifiers
        <3>1. <<>> \in Seq(Rows)
            BY EmptySeq
        <3>2. Chain!Idle \in PublisherJobs /\ Chain!NoVerifier \in Verifiers
            BY <3>1 DEF Chain!Idle, PublisherJobs, Checkpoints, Hashes,
               Chain!NoVerifier, Verifiers
        <3> QED
            BY <1>6, <3>2 DEF Chain!Restart
    <2>2. UNCHANGED <<chain, checkpoints, anchors, held, rebuilt>>
        BY <1>6 DEF Chain!Restart
    <2> QED
        BY <1>2, <2>1, <2>2 DEF AnchoringTypeOK
<1>7. CASE Chain!ListAnchors
    <2>1. UNCHANGED <<chain, checkpoints, anchors, held, job, rebuilt>>
        BY <1>7 DEF Chain!ListAnchors
    <2> QED
        BY <1>1, <1>2, <1>7, <2>1, ListDoes DEF AnchoringTypeOK
<1>8. CASE Chain!Compare
    <2>1. UNCHANGED <<chain, checkpoints, anchors, held, job, rebuilt>>
        BY <1>8 DEF Chain!Compare
    <2>2. verifier' \in Verifiers
        BY <1>8 DEF Chain!Compare, Chain!NoVerifier, Verifiers, Chain!Summarise
    <2> QED
        BY <1>2, <2>1, <2>2 DEF AnchoringTypeOK
<1>9. ASSUME NEW p \in Publishers, Chain!AnchorNow(p) \/ Chain!Latest(p) PROVE AnchoringTypeOK'
    <2>1. UNCHANGED <<chain, checkpoints, anchors, held, verifier, rebuilt>>
        BY <1>9 DEF Chain!AnchorNow, Chain!Latest
    <2>2. job' \in [Publishers -> PublisherJobs]
        <3>1. CASE Chain!AnchorNow(p)
            BY <1>2, <3>1, JobTyped DEF Chain!AnchorNow
        <3>2. CASE Chain!Latest(p)
            <4>1. \/ job' = [job EXCEPT ![p] = Chain!Idle]
                  \/ \E c \in checkpoints :
                        job' = [job EXCEPT ![p] = [job[p] EXCEPT !.pc = "publish", !.cp = c]]
                BY <1>1, <3>2, LatestDoes
            <4>2. CASE job' = [job EXCEPT ![p] = Chain!Idle]
                BY <1>2, <4>2, JobTyped
            <4>3. ASSUME NEW c \in checkpoints,
                         job' = [job EXCEPT ![p] = [job[p] EXCEPT !.pc = "publish", !.cp = c]]
                  PROVE job' \in [Publishers -> PublisherJobs]
                BY <1>2, <4>3, JobTyped
            <4> QED
                BY <4>1, <4>2, <4>3
        <3> QED
            BY <1>9, <3>1, <3>2
    <2> QED
        BY <1>2, <2>1, <2>2 DEF AnchoringTypeOK
<1>10. ASSUME NEW p \in Publishers, Chain!Publish(p) PROVE AnchoringTypeOK'
    <2>1. UNCHANGED <<chain, checkpoints, anchors, verifier, rebuilt>>
        BY <1>10 DEF Chain!Publish
    <2>2. PICK t \in Chain!TargetSet, answer \in Chain!Answers :
            /\ job[p].pc = "publish"
            /\ held' = IF answer = "refused" THEN held ELSE [held EXCEPT ![t] = @ \cup {job[p].cp}]
            /\ job' = [job EXCEPT ![p].records = Append(@, Chain!Record(job[p].cp, t, answer))]
            /\ Chain!Record(job[p].cp, t, answer) \in Rows
        BY <1>1, <1>10, PublishDoes
    <2>3. job' \in [Publishers -> PublisherJobs]
        BY <1>2, <2>2, JobTyped
    <2>4. job[p].cp \in checkpoints
        BY <2>2 DEF AnchoringIInv, RealInv, Good
    <2>5. held' \in [Chain!TargetSet -> SUBSET checkpoints]
        BY <1>2, <2>2, <2>4
    <2> QED
        BY <1>2, <2>1, <2>3, <2>5 DEF AnchoringTypeOK
<1>11. ASSUME NEW p \in Publishers, Chain!RecordAnchors(p) PROVE AnchoringTypeOK'
    <2>1. UNCHANGED <<chain, checkpoints, held, verifier, rebuilt>>
        BY <1>11 DEF Chain!RecordAnchors
    <2>2. anchors' \in Seq(Rows) /\ job' \in [Publishers -> PublisherJobs]
        BY <1>1, <1>2, <1>11, RecordsDo, JobTyped
    <2> QED
        BY <1>2, <2>1, <2>2 DEF AnchoringTypeOK
<1> QED
    BY <1>3, <1>4, <1>5, <1>6, <1>7, <1>8, <1>9, <1>10, <1>11, AnchoringCases

\* Sequence numbers stay bounded: a new checkpoint is of the tip.
LEMMA BoundStep == AnchoringIInv /\ [Chain!Next]_(Chain!vars) => BoundInv'
<1> SUFFICES ASSUME AnchoringIInv, [Chain!Next]_(Chain!vars) PROVE BoundInv'
    OBVIOUS
<1>1. AnchoringTypeOK /\ checkpoints \subseteq Checkpoints
    BY DEF AnchoringIInv, AnchoringTypeOK
<1>2. PICK n \in Nat : \A c \in checkpoints : c.seq <= n
    BY DEF AnchoringIInv, BoundInv
<1>3. CASE Chain!Sign
    <2>1. Len(chain) \in Nat
        BY <1>1 DEF AnchoringTypeOK
    <2>2. PICK c \in Checkpoints : checkpoints' = checkpoints \cup {c} /\ c.seq = Len(chain)
        BY <1>1, <1>3, SignDoes
    <2>3. \A d \in checkpoints : d.seq \in Nat
        BY <1>1 DEF Checkpoints
    <2>4. \A d \in checkpoints' : d.seq <= n + Len(chain)
        BY <1>2, <2>1, <2>2, <2>3
    <2>5. n + Len(chain) \in Nat
        BY <2>1
    <2> QED
        BY <2>4, <2>5 DEF BoundInv
<1>4. CASE ~Chain!Sign
    <2>1. checkpoints' = checkpoints
        BY <1>4, AnchoringCases DEF Chain!vars, Chain!AppendEntry, Chain!Rebuild,
           Chain!AnchorNow, Chain!Latest, Chain!Publish, Chain!RecordAnchors,
           Chain!Restart, Chain!ListAnchors, Chain!Compare
    <2> QED
        BY <1>2, <2>1 DEF BoundInv
<1> QED
    BY <1>3, <1>4

\* Rows and records stay true: a target keeps what it holds.
LEMMA RealStep == Chain!WellFormed /\ AnchoringIInv /\ [Chain!Next]_(Chain!vars) => RealInv'
<1> SUFFICES ASSUME Chain!WellFormed, AnchoringIInv, [Chain!Next]_(Chain!vars) PROVE RealInv'
    OBVIOUS
<1>1. AnchoringTypeOK /\ BoundInv /\ RealInv
    BY DEF AnchoringIInv
<1>2. /\ anchors \in Seq(Rows) /\ job \in [Publishers -> PublisherJobs]
      /\ held \in [Chain!TargetSet -> SUBSET checkpoints]
    BY <1>1 DEF AnchoringTypeOK
<1>3. checkpoints \subseteq checkpoints' /\ \A t \in Chain!TargetSet : held[t] \subseteq held'[t]
    BY <1>1, Grows
<1>4. ASSUME NEW a \in Rows, Real(held, a) PROVE Real(held', a)
    BY <1>3, <1>4 DEF Real, Rows
<1>5. ASSUME NEW i \in DOMAIN anchors PROVE anchors[i] \in Rows /\ Real(held, anchors[i])
    BY <1>1, <1>2 DEF RealInv
<1>6. ASSUME NEW p \in Publishers
      PROVE /\ job[p] \in PublisherJobs /\ job[p].records \in Seq(Rows)
            /\ \A i \in DOMAIN job[p].records : job[p].records[i] \in Rows /\ Real(held, job[p].records[i])
            /\ job[p].pc = "publish" => job[p].cp \in checkpoints
    BY <1>1, <1>2 DEF RealInv, PublisherJobs, Good
<1>7. Good(held', checkpoints', Chain!Idle)
    BY DEF Good, Chain!Idle
<1>8. ASSUME NEW p \in Publishers
      PROVE /\ Good(held', checkpoints', job[p])
            /\ Good(held', checkpoints', [job[p] EXCEPT !.pc = "latest"])
            /\ \A c \in checkpoints : Good(held', checkpoints', [job[p] EXCEPT !.pc = "publish", !.cp = c])
    <2>1. \A i \in DOMAIN job[p].records : Real(held', job[p].records[i])
        BY <1>4, <1>6
    <2>2. Good(held', checkpoints', job[p])
        BY <1>3, <1>6, <2>1 DEF Good
    <2>3. Good(held', checkpoints', [job[p] EXCEPT !.pc = "latest"])
        BY <1>6, <2>1 DEF PublisherJobs, Good
    <2>4. ASSUME NEW c \in checkpoints PROVE Good(held', checkpoints', [job[p] EXCEPT !.pc = "publish", !.cp = c])
        BY <1>3, <1>6, <2>1 DEF PublisherJobs, Good
    <2> QED
        BY <2>2, <2>3, <2>4
<1>9. SUFFICES /\ \A i \in DOMAIN anchors' : Real(held', anchors'[i])
               /\ \A p \in Publishers : Good(held', checkpoints', job'[p])
    BY <1>9 DEF RealInv
<1>10. CASE UNCHANGED <<anchors, job>>
    BY <1>4, <1>5, <1>8, <1>10
<1>11. CASE Chain!Sign \/ Chain!Restart
    <2>1. anchors' = anchors
        BY <1>11 DEF Chain!Sign, Chain!Restart
    <2>2. job' = [job EXCEPT ![Timer].pc = "latest"] \/ job' = [p \in Publishers |-> Chain!Idle]
        BY <1>11 DEF Chain!Sign, Chain!Restart
    <2>3. ASSUME NEW p \in Publishers
          PROVE job'[p] \in {Chain!Idle, job[p], [job[p] EXCEPT !.pc = "latest"]}
        BY <1>2, <2>2
    <2> QED
        BY <1>4, <1>5, <1>7, <1>8, <2>1, <2>3
<1>12. ASSUME NEW q \in Publishers, Chain!AnchorNow(q) \/ Chain!Latest(q)
       PROVE (\A i \in DOMAIN anchors' : Real(held', anchors'[i])) /\ \A p \in Publishers : Good(held', checkpoints', job'[p])
    <2>1. anchors' = anchors
        BY <1>12 DEF Chain!AnchorNow, Chain!Latest
    <2>2. \/ job' = [job EXCEPT ![q].pc = "latest"] \/ job' = [job EXCEPT ![q] = Chain!Idle]
          \/ \E c \in checkpoints : job' = [job EXCEPT ![q] = [job[q] EXCEPT !.pc = "publish", !.cp = c]]
        BY <1>1, <1>12, LatestDoes DEF Chain!AnchorNow
    <2>3. ASSUME NEW p \in Publishers
          PROVE \/ job'[p] \in {Chain!Idle, job[p], [job[p] EXCEPT !.pc = "latest"]}
                \/ \E c \in checkpoints : job'[p] = [job[p] EXCEPT !.pc = "publish", !.cp = c]
        BY <1>2, <2>2
    <2>4. \A i \in DOMAIN anchors' : Real(held', anchors'[i])
        BY <1>4, <1>5, <2>1
    <2>5. ASSUME NEW p \in Publishers PROVE Good(held', checkpoints', job'[p])
        <3>1. CASE job'[p] = Chain!Idle
            BY <1>7, <3>1
        <3>2. CASE job'[p] = job[p]
            BY <1>8, <3>2
        <3>3. CASE job'[p] = [job[p] EXCEPT !.pc = "latest"]
            BY <1>8, <3>3
        <3>4. ASSUME NEW c \in checkpoints, job'[p] = [job[p] EXCEPT !.pc = "publish", !.cp = c]
              PROVE Good(held', checkpoints', job'[p])
            BY <1>8, <3>4
        <3> QED
            BY <2>3, <3>1, <3>2, <3>3, <3>4
    <2> QED
        BY <2>4, <2>5
<1>13. ASSUME NEW q \in Publishers, Chain!Publish(q)
       PROVE (\A i \in DOMAIN anchors' : Real(held', anchors'[i])) /\ \A p \in Publishers : Good(held', checkpoints', job'[p])
    <2>1. anchors' = anchors /\ checkpoints' = checkpoints
        BY <1>13 DEF Chain!Publish
    <2>2. PICK t \in Chain!TargetSet, answer \in Chain!Answers :
            /\ job[q].pc = "publish"
            /\ held' = IF answer = "refused" THEN held ELSE [held EXCEPT ![t] = @ \cup {job[q].cp}]
            /\ job' = [job EXCEPT ![q].records = Append(@, Chain!Record(job[q].cp, t, answer))]
            /\ Chain!Record(job[q].cp, t, answer) \in Rows
        BY <1>1, <1>13, PublishDoes
    <2> DEFINE r == Chain!Record(job[q].cp, t, answer)
    <2>3. Real(held', r)
        <3>1. r.ok => answer = "held"
            BY DEF Chain!Record
        <3>2. Of(r) = job[q].cp /\ r.target = t
            BY <1>6 DEF Chain!Record, Of, PublisherJobs, Checkpoints
        <3>3. answer = "held" => job[q].cp \in held'[t]
            BY <1>2, <2>2
        <3> QED
            BY <3>1, <3>2, <3>3 DEF Real, Of
    <2>4. Good(held', checkpoints', job'[q])
        <3>1. job'[q] = [job[q] EXCEPT !.records = Append(@, r)]
            BY <1>2, <2>2
        <3>2. job'[q].records = Append(job[q].records, r) /\ job'[q].cp = job[q].cp
            BY <1>6, <3>1 DEF PublisherJobs
        <3> HIDE DEF r
        <3>3. \A i \in DOMAIN Append(job[q].records, r) :
                Append(job[q].records, r)[i] = r \/ (\E k \in DOMAIN job[q].records :
                    Append(job[q].records, r)[i] = job[q].records[k])
            BY <1>6, <2>2
        <3>4. \A i \in DOMAIN job'[q].records : Real(held', job'[q].records[i])
            BY <1>4, <1>6, <2>3, <3>2, <3>3
        <3>5. job'[q].cp \in checkpoints'
            BY <1>6, <2>1, <2>2, <3>2
        <3> QED
            BY <3>4, <3>5 DEF Good
    <2>5. \A p \in Publishers : p # q => job'[p] = job[p]
        BY <1>2, <2>2
    <2> QED
        BY <1>4, <1>5, <1>8, <2>1, <2>4, <2>5
<1>14. ASSUME NEW q \in Publishers, Chain!RecordAnchors(q)
       PROVE (\A i \in DOMAIN anchors' : Real(held', anchors'[i])) /\ \A p \in Publishers : Good(held', checkpoints', job'[p])
    <2>1. /\ job' = [job EXCEPT ![q] = Chain!Idle]
          /\ \A i \in DOMAIN anchors' :
                \/ \E k \in DOMAIN anchors : anchors'[i] = anchors[k]
                \/ \E k \in DOMAIN job[q].records : anchors'[i] = job[q].records[k]
        BY <1>1, <1>14, RecordsDo
    <2>2. \A i \in DOMAIN anchors' : Real(held', anchors'[i])
        BY <1>4, <1>5, <1>6, <2>1
    <2>3. \A p \in Publishers : job'[p] \in {Chain!Idle, job[p]}
        BY <1>2, <2>1
    <2> QED
        BY <1>7, <1>8, <2>2, <2>3
<1>15. Chain!AppendEntry \/ (\E k \in DOMAIN chain : Chain!Rebuild(k)) \/ Chain!ListAnchors \/ Chain!Compare \/ UNCHANGED Chain!vars
       => UNCHANGED <<anchors, job>>
    BY DEF Chain!AppendEntry, Chain!Rebuild, Chain!ListAnchors, Chain!Compare,
       Chain!vars
<1> QED
    BY <1>10, <1>11, <1>12, <1>13, <1>14, <1>15, AnchoringCases

\* Until the chain is rebuilt, what was signed is on it.
LEMMA AlarmStep == AnchoringIInv /\ [Chain!Next]_(Chain!vars) => AlarmInv'
<1> SUFFICES ASSUME AnchoringIInv, [Chain!Next]_(Chain!vars) PROVE AlarmInv'
    OBVIOUS
<1>1. AnchoringTypeOK /\ BoundInv /\ RealInv /\ AlarmInv
    BY DEF AnchoringIInv
<1>2. CASE UNCHANGED <<chain, checkpoints, verifier, rebuilt>>
    BY <1>1, <1>2 DEF AlarmInv, Chain!Matches
<1>3. CASE Chain!AppendEntry
    <2>1. /\ UNCHANGED <<checkpoints, verifier, rebuilt>>
          /\ chain \in Seq(Hashes) /\ \E e : chain' = Append(chain, e)
        BY <1>1, <1>3 DEF Chain!AppendEntry, AnchoringTypeOK
    <2>2. \A i \in DOMAIN chain : i \in DOMAIN chain' /\ chain'[i] = chain[i]
        BY <2>1
    <2> QED
        BY <1>1, <2>1, <2>2 DEF AlarmInv, Chain!Matches
<1>4. CASE Chain!Sign
    <2>1. UNCHANGED <<chain, verifier, rebuilt>>
        BY <1>4 DEF Chain!Sign
    <2>2. PICK c : checkpoints' = checkpoints \cup {c} /\ Chain!Matches(c)
        BY <1>1, <1>4, SignDoes
    <2> QED
        BY <1>1, <2>1, <2>2 DEF AlarmInv, Chain!Matches
<1>5. ASSUME NEW k \in DOMAIN chain, Chain!Rebuild(k) PROVE AlarmInv'
    <2>1. rebuilt' # 0 /\ UNCHANGED <<checkpoints, verifier>>
        BY <1>1, <1>5 DEF Chain!Rebuild, AnchoringTypeOK
    <2> QED
        BY <1>1, <2>1 DEF AlarmInv
<1>6. CASE Chain!Restart
    BY <1>1, <1>6 DEF Chain!Restart, AlarmInv, Chain!NoVerifier, Chain!Matches
<1>7. CASE Chain!ListAnchors
    <2>1. UNCHANGED <<chain, checkpoints, rebuilt>>
        BY <1>7 DEF Chain!ListAnchors
    <2>2. verifier'.verdict = "none" /\ \A a \in verifier'.rows : \E i \in DOMAIN anchors : a = anchors[i]
        BY <1>1, <1>7, ListDoes
    <2>3. ASSUME NEW a \in verifier'.rows, a.ok PROVE Of(a) \in checkpoints
        <3>1. PICK i \in DOMAIN anchors : a = anchors[i]
            BY <2>2
        <3>2. anchors \in Seq(Rows) /\ held \in [Chain!TargetSet -> SUBSET checkpoints]
            BY <1>1 DEF AnchoringTypeOK
        <3>3. a \in Rows
            BY <3>1, <3>2
        <3>4. a.target \in Chain!TargetSet
            BY <3>3 DEF Rows
        <3> QED
            BY <1>1, <2>3, <3>1, <3>2, <3>4 DEF RealInv, Real
    <2> QED
        BY <1>1, <2>1, <2>2, <2>3 DEF AlarmInv, Chain!Matches
<1>8. CASE Chain!Compare
    <2>1. UNCHANGED <<chain, checkpoints, rebuilt>>
        BY <1>8 DEF Chain!Compare
    <2>2. verifier'.rows = {} /\ verifier'.verdict = Chain!Summarise(verifier.rows)
        BY <1>8 DEF Chain!Compare, Chain!NoVerifier
    <2>3. ASSUME rebuilt = 0 PROVE \A a \in verifier.rows : a.ok => Chain!Matches(a)
        BY <1>1, <2>3 DEF AlarmInv, Of, Chain!Matches
    <2>4. verifier'.verdict = "rebuilt" => rebuilt # 0
        BY <2>2, <2>3 DEF Chain!Summarise
    <2> QED
        BY <1>1, <2>1, <2>2, <2>4 DEF AlarmInv, Chain!Matches
<1>9. ASSUME NEW p \in Publishers, Chain!AnchorNow(p) \/ Chain!Latest(p) \/ Chain!Publish(p) \/ Chain!RecordAnchors(p)
      PROVE UNCHANGED <<chain, checkpoints, verifier, rebuilt>>
    BY <1>9 DEF Chain!AnchorNow, Chain!Latest, Chain!Publish, Chain!RecordAnchors
<1> QED
    BY <1>2, <1>3, <1>4, <1>5, <1>6, <1>7, <1>8, <1>9, AnchoringCases DEF Chain!vars

-----------------------------------------------------------------------------
\* Every step keeps the rows true and the alarm silent.
LEMMA AnchoringInvariance ==
    Chain!WellFormed => (Chain!Init /\ [][Chain!Next]_(Chain!vars) => []AnchoringIInv)
<1> SUFFICES ASSUME Chain!WellFormed PROVE Chain!Init /\ [][Chain!Next]_(Chain!vars) => []AnchoringIInv
    OBVIOUS
<1>1. AnchoringIInv /\ [Chain!Next]_(Chain!vars) => AnchoringIInv'
    BY AnchoringTypeStep, BoundStep, RealStep, AlarmStep DEF AnchoringIInv
<1>2. Chain!Init => AnchoringIInv
    BY AnchoringInitHolds
<1> QED
    BY <1>1, <1>2, PTL

\* Publish, RecordAnchors, VerifyAgainst: a row that says published is of a checkpoint
\* its target holds, no target holds anything that was never signed, and as long as
\* nobody rebuilt the chain everything held matches it and no comparison raises the
\* alarm.
THEOREM AnchorsReal == Chain!WellFormed => (OutboundSpec => []AnchorsAreReal)
<1> SUFFICES ASSUME Chain!WellFormed PROVE OutboundSpec => []AnchorsAreReal
    OBVIOUS
<1>1. AnchoringIInv => AnchorsAreReal
    BY DEF AnchoringIInv, AnchoringTypeOK, RealInv, Real, Of, AlarmInv,
       Chain!AnchorsAreReal, AnchorsAreReal
<1>2. OutboundInit => Chain!Init
    BY DEF OutboundInit
<1>3. [OutboundNext]_all => [Chain!Next]_(Chain!vars)
    BY DEF OutboundNext, all, chained, Chain!vars
<1>4. Chain!Init /\ [][Chain!Next]_(Chain!vars) => []AnchoringIInv
    BY AnchoringInvariance
<1> QED
    BY <1>1, <1>2, <1>3, <1>4, PTL DEF OutboundSpec

\* Forwarding behaves beside anchoring as it does alone.
THEOREM SideBySide == OutboundSpec => FSpec
<1>1. OutboundInit => FInit
    BY DEF OutboundInit
<1>2. [OutboundNext]_all => [FNext]_fvars
    BY DEF OutboundNext, all
<1> QED
    BY <1>1, <1>2, PTL DEF OutboundSpec, FSpec

=============================================================================
