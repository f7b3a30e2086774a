------------------------------ MODULE ApiCalls ------------------------------
(***************************************************************************)
(* One call of a client of somebody else's API: Microsoft Graph            *)
(* (m365/graph), the Admin SDK and Gmail (gws/google), Datto RMM           *)
(* (rmm/datto) and Autotask (autotask/client).  A call may be a paged      *)
(* read, or a change.  Each client has its own rules on what it tries      *)
(* again, how often, and what its error then says.                         *)
(*                                                                         *)
(* A wait is left out, except that some are too long to be made.  Datto's  *)
(* pacing, and the mutex under which Autotask's requests go out one by     *)
(* one, concern callers that run together; the callers here do not.        *)
(***************************************************************************)
EXTENDS Naturals, Sequences

CONSTANTS
    Calls,          \* the calls made: [client, kind, pages], see Kinds
    MaxAttempts,    \* [client -> attempts of one request]: 4, 5 and 3 (not for Datto)
    Retries,        \* Datto: retries of a 429, and of a server error (2)
    MaxPages,       \* pages a read follows (1000; 400 for Datto)
    Budget          \* requests a client sends in its life

\* A read of pages, each followed by "next" (a link or a token), by a link to
\* another host ("foreign"), or by none ("end"); a change that must not be repeated
\* ("create": a ticket, a note); and one that may ("update": a ticket's status).
Kinds == {"read", "create", "update"}
Clients == {"graph", "google", "datto", "autotask"}
Links == {"next", "foreign", "end"}

\* A read has a page at least, and the last is the one no page follows; only Autotask
\* is sent what must not be repeated.
WellFormed ==
    /\ Calls \subseteq [client : Clients, kind : Kinds, pages : Seq(Links)]
    /\ \A c \in Calls : c.kind = "create" => c.client = "autotask"
    /\ \A c \in Calls : c.kind = "read" =>
          /\ c.pages # <<>>
          /\ \A i \in DOMAIN c.pages : c.pages[i] = "next" <=> i # Len(c.pages)

VARIABLES
    call,       \* the call under way
    token,      \* a bearer token is cached
    sized,      \* Datto: the page size is known
    try,        \* what the request at hand has been through
    sent,       \* requests counted against the budget
    got,        \* pages handed to the caller, in order
    carriedOut, \* how often the service made the change
    result      \* "open", "done", or the error the caller gets

vars == <<call, token, sized, try, sent, got, carriedOut, result>>

First == [attempt |-> 1, renewed |-> FALSE, throttled |-> 0, broken |-> 0]

Error(kind, ambiguous) == [kind |-> kind, ambiguous |-> ambiguous]
Done == [kind |-> "done", ambiguous |-> FALSE]
Open == [kind |-> "open", ambiguous |-> FALSE]

-----------------------------------------------------------------------------
(* What may come back.  "lost": no answer; "garbled": a 200 that is not    *)
(* the documented JSON; "503" stands for 429-like server answers that may  *)
(* name a wait; "403rate" and "403daily" are Google's quotas; "rule" is    *)
(* the 500 with a list of errors by which Autotask refuses.                *)

Answers == {"ok", "garbled", "lost", "401", "403", "403rate", "403daily", "404", "429", "503", "500", "rule"}

\* The kind of error each client makes of an answer.
Kind(answer) ==
    CASE answer = "lost" -> "network"
      [] answer = "garbled" -> "bad_response"
      [] answer = "429" -> "throttled"
      [] answer \in {"503", "500"} -> "server"
GraphKind(answer) ==
    CASE answer = "401" -> "unauthorized"
      [] answer \in {"403", "403rate", "403daily"} -> "forbidden"
      [] answer = "404" -> "not_found"
      [] answer = "rule" -> "server"
      [] OTHER -> Kind(answer)
GoogleKind(answer) == IF answer \in {"403rate", "403daily"} THEN "throttled" ELSE GraphKind(answer)
DattoKind(answer) == IF answer = "401" THEN "auth" ELSE GraphKind(answer)
AutotaskKind(answer) ==
    CASE answer \in {"401", "403"} -> "auth"
      [] answer \in {"404", "rule"} -> "rejected"
      [] OTHER -> GraphKind(answer)
KindOf(client, answer) ==
    CASE client = "graph" -> GraphKind(answer)
      [] client = "google" -> GoogleKind(answer)
      [] client = "datto" -> DattoKind(answer)
      [] client = "autotask" -> AutotaskKind(answer)

Repeatable == call.kind # "create"
LastAttempt(client) == try.attempt >= MaxAttempts[client]

\* Whether the client asks again after an answer, in each client's loop.
GraphRetries(answer, long) ==
    /\ ~LastAttempt("graph")
    /\ \/ answer \in {"lost", "500", "rule"}
       \/ answer \in {"429", "503"} /\ ~long

GoogleRetries(answer, long) ==
    /\ ~LastAttempt("google")
    /\ \/ answer = "lost"
       \/ answer \in {"429", "403rate", "503", "500", "rule"} /\ ~long

DattoRetries(answer, long) ==
    \/ answer = "429" /\ try.throttled < Retries
    \/ answer \in {"503", "500", "rule"} /\ try.broken < Retries

\* A creation is tried again like anything else.
AutotaskRetriesAll(answer, long) ==
    /\ ~LastAttempt("autotask")
    /\ answer \in {"lost", "503", "500"} \/ (answer = "429" /\ ~long)

AutotaskRetries(answer, long) ==
    /\ ~LastAttempt("autotask")
    /\ \/ answer \in {"lost", "503", "500"} /\ Repeatable
       \/ answer = "429" /\ ~long

Again(answer, long) ==
    CASE call.client = "graph" -> GraphRetries(answer, long)
      [] call.client = "google" -> GoogleRetries(answer, long)
      [] call.client = "datto" -> DattoRetries(answer, long)
      [] call.client = "autotask" -> AutotaskRetries(answer, long)

\* A refused token is replaced as often as it is refused.
RenewsAlways(answer) == answer = "401" /\ call.client # "autotask"

\* A refused token is replaced once for a request, at no cost of an attempt.
Renews(answer) == answer = "401" /\ call.client # "autotask" /\ ~try.renewed

Tried(answer) ==
    [try EXCEPT !.attempt = @ + 1,
                !.throttled = @ + (IF answer = "429" THEN 1 ELSE 0),
                !.broken = @ + (IF answer \in {"503", "500", "rule"} THEN 1 ELSE 0)]

\* The error says that the change may have been made all the same.
Ambiguous(answer) == ~Repeatable /\ answer \in {"lost", "503", "500"}

-----------------------------------------------------------------------------
Init ==
    /\ call \in Calls
    /\ token \in BOOLEAN
    /\ sized \in BOOLEAN
    /\ try = First /\ sent = 0 /\ got = <<>> /\ carriedOut = 0
    /\ result = Open

\* The budget of the client is checked before every request; Datto has none.
Spent == sent >= Budget /\ call.client # "datto"
OutOfBudget ==
    /\ result = Open /\ Spent
    /\ result' = Error("budget", FALSE)
    /\ UNCHANGED <<call, token, sized, try, sent, got, carriedOut>>

NeedsToken == call.client # "autotask" /\ ~token
\* bearer, authenticate: a token is fetched when none is cached, and that may fail.
FetchToken ==
    /\ result = Open /\ ~Spent /\ NeedsToken
    /\ \/ token' = TRUE /\ UNCHANGED result
       \/ /\ \E kind \in {"credentials", "throttled", "server", "network", "bad_response"} :
                 result' = Error(kind, FALSE)
          /\ UNCHANGED token
    /\ UNCHANGED <<call, sized, try, sent, got, carriedOut>>

\* Datto asks for the largest page size first; only some errors stop the read.
NeedsSize == call.client = "datto" /\ call.kind = "read" /\ ~sized
StopsSizing(kind) == kind \in {"auth", "forbidden", "throttled"}

\* A page has come: the caller gets it, and the link to the next is judged.
Page ==
    LET n == Len(got) + 1
        link == call.pages[n]
    IN /\ got' = Append(got, n)
       /\ try' = First
       /\ result' = CASE link = "end" -> Done
                      [] link = "foreign" -> Error("bad_response", FALSE)
                      [] link = "next" -> IF n >= MaxPages THEN Error("bad_response", FALSE) ELSE Open

\* What an answer that is not an error gives the caller.
Take(answer) ==
    IF NeedsSize THEN sized' = TRUE /\ try' = First /\ UNCHANGED <<got, result>>
    ELSE /\ UNCHANGED sized
         /\ IF call.kind = "read" THEN Page
            ELSE result' = Done /\ UNCHANGED <<got, try>>

Fail(answer) ==
    IF NeedsSize /\ ~StopsSizing(KindOf(call.client, answer))
    THEN sized' = TRUE /\ try' = First /\ UNCHANGED <<got, result>>
    ELSE /\ result' = Error(KindOf(call.client, answer), Ambiguous(answer))
         /\ UNCHANGED <<sized, try, got>>

\* A change is made by a request that is understood, whatever becomes of the answer;
\* a refusal makes none.
MayCarryOut(answer) ==
    IF call.kind = "read" THEN {0}
    ELSE IF answer \in {"ok", "garbled"} THEN {1}
    ELSE IF answer \in {"lost", "503", "500"} THEN {0, 1}
    ELSE {0}

\* One request and its answer.  Datto's token is dropped, the others' replaced.
Request ==
    /\ result = Open /\ ~Spent /\ ~NeedsToken
    /\ sent' = IF call.client = "datto" THEN sent ELSE sent + 1
    /\ \E answer \in Answers, long \in BOOLEAN :
        /\ \E n \in MayCarryOut(answer) : carriedOut' = carriedOut + n
        /\ IF answer = "ok" THEN Take(answer) /\ UNCHANGED token
           ELSE IF Renews(answer)
           THEN /\ token' = FALSE /\ try' = [try EXCEPT !.renewed = TRUE]
                /\ UNCHANGED <<sized, got, result>>
           ELSE IF Again(answer, long)
           THEN try' = Tried(answer) /\ UNCHANGED <<token, sized, got, result>>
           ELSE Fail(answer) /\ UNCHANGED token
    /\ UNCHANGED call

Next == OutOfBudget \/ FetchToken \/ Request
Fairness == WF_vars(Next)
Spec == Init /\ [][Next]_vars /\ Fairness

-----------------------------------------------------------------------------
(* What a caller may rely on.                                              *)

\* A read that succeeds has given every page, once and in order.
ReadsAreWhole ==
    call.kind = "read" =>
        /\ got = [i \in 1..Len(got) |-> i]
        /\ result = Done => Len(got) = Len(call.pages)

\* A ticket or a note is created at most once by a call, and an error that does not
\* call itself ambiguous is one after which it does not exist; a garbled answer is
\* the exception the code makes (a bad_response, client.go:266).
ChangesAreKnown ==
    call.kind = "create" =>
        /\ carriedOut <= 1
        /\ result = Done => carriedOut = 1
        /\ carriedOut = 1 => result.ambiguous \/ result.kind \in {"done", "bad_response"}

\* m365/graph, gws/google, rmm/datto, autotask/client: a paged read gives all of it
\* or an error, and a change is made once or said to be uncertain, through every
\* retry, renewed token and page.
CallsKeepTheirWord == ReadsAreWhole /\ ChangesAreKnown

\* Whatever the service answers, every call ends: what is tried again is counted.
EveryCallEnds == []<>(result # Open)
=============================================================================
