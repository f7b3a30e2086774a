-------------------------------- MODULE Console --------------------------------
(***************************************************************************)
(* What the console shows and who gets to see it: what applies to a host   *)
(* (Matcher), what becomes of it (Findings), and the accounts (Accounts),  *)
(* which share nothing here.  One of them works in a behaviour, the others *)
(* stay as they begin.                                                     *)
(***************************************************************************)
EXTENDS Findings, Sequences

CONSTANTS
    Packages, Ranges, Floors, MaxPackages, MaxRanges,               \* see Matcher
    Setups, Posts, SignIns, Names, Invites, Issuers, NoUser, NoInvite   \* see Accounts

VARIABLES
    working,    \* the part at work
    inventory, loaded, onPro, rebuild,
    users, disabled, invites, issuing, open, lock, spending, sessions, audit, request

M == INSTANCE Matcher WITH ranges <- loaded
matcher == <<inventory, loaded, onPro, rebuild>>

A == INSTANCE Accounts WITH job <- request
accounts == <<users, disabled, invites, issuing, open, lock, spending, sessions, audit, request>>

all == <<vars, working, matcher, accounts>>

ConsoleInit ==
    /\ working \in {"matcher", "findings", "accounts"}
    /\ Init /\ (working # "findings" => host = CHOOSE h \in Inventories : TRUE)
    /\ M!Init /\ (working # "matcher" => ~onPro /\ ~rebuild)
    /\ A!Init /\ (working # "accounts" => open)

ConsoleNext ==
    /\ UNCHANGED working
    /\ \/ working = "findings" /\ Next /\ UNCHANGED <<matcher, accounts>>
       \/ working = "matcher" /\ M!Next /\ UNCHANGED <<vars, accounts>>
       \/ working = "accounts" /\ A!Next /\ UNCHANGED <<vars, matcher>>

ConsoleSpec == ConsoleInit /\ [][ConsoleNext]_all

\* What is checked of the matcher (Match) and of the accounts (first-run setup).
VerdictsHold == M!VerdictsHold
FirstAdminOnce == A!FirstAdminOnce
================================================================================
