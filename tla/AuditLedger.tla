---------------------------- MODULE AuditLedger ----------------------------
(***************************************************************************)
(* What the audit ledger promises, without transactions, locks or hashes:  *)
(* a list of events that only ever grows at its end, and a set of lengths  *)
(* that have been attested by a signed checkpoint.                         *)
(***************************************************************************)
EXTENDS Naturals, Sequences

CONSTANTS Events

VARIABLES
    ledger,     \* the recorded events, oldest first
    attested    \* the lengths a checkpoint has been signed for

vars == <<ledger, attested>>

Init == ledger = << >> /\ attested = {}

\* An event is recorded once, after everything recorded before it.
Record(e) ==
    /\ \A i \in 1..Len(ledger) : ledger[i] # e
    /\ ledger' = Append(ledger, e)
    /\ UNCHANGED attested

\* A checkpoint attests the whole ledger of that moment.
Attest ==
    /\ ledger # << >>
    /\ attested' = attested \cup {Len(ledger)}
    /\ UNCHANGED ledger

Next == (\E e \in Events : Record(e)) \/ Attest

Spec == Init /\ [][Next]_vars
=============================================================================
