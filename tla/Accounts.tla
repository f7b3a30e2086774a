------------------------------- MODULE Accounts -------------------------------
(***************************************************************************)
(* Accounts of the console: first-run setup, which makes the first         *)
(* administrator while its window is open or for a one-time invite, the    *)
(* making of accounts by an administrator or by single sign-on, sign-in,   *)
(* disabling, and sessions.                                                *)
(*                                                                         *)
(* Passwords and second factors are left out: whoever signs in knows his.  *)
(* Every identity the identity provider vouches for is in a mapped group.  *)
(***************************************************************************)
EXTENDS Naturals, FiniteSets

CONSTANTS
    Setups,         \* requests to first-run setup
    Posts,          \* requests to make an account with the shared token
    SignIns,        \* sign-ins, local or single
    Names,          \* usernames
    Invites,        \* setup links bootstrap-admin may print
    Issuers,        \* bootstrap-admin, run by as many at a time
    NoUser, NoInvite, Nobody

VARIABLES
    users,      \* the accounts: [name -> how it was made, "none" where there is none]
    disabled,   \* the disabled ones
    invites,    \* setup_invites: unissued, unused, used or revoked
    issuing,    \* where each bootstrap-admin is, and the links its UPDATE is about
    open,       \* the setup window is open
    lock,       \* the first-user advisory lock
    spending,   \* the invite whose row an uncommitted transaction has marked used
    sessions,   \* user_sessions: whose they are
    audit,      \* entries first_admin_created: the name, and the invite if any
    job

vars == <<users, disabled, invites, issuing, open, lock, spending, sessions, audit, job>>

Jobs == Setups \cup Posts \cup SignIns
Idle == [pc |-> "idle", name |-> NoUser, via |-> NoInvite]
NotIssuing == [pc |-> "idle", revoking |-> {}]

Exists(n) == users[n].made # "none"
NoUsers == \A n \in Names : ~Exists(n)
New(made, via) == [made |-> made, via |-> via]

Init ==
    /\ users = [n \in Names |-> New("none", NoInvite)]
    /\ disabled = {} /\ sessions = {} /\ audit = {}
    /\ invites = [i \in Invites |-> "unissued"]
    /\ issuing = [b \in Issuers |-> NotIssuing]
    /\ open \in BOOLEAN
    /\ lock = Nobody /\ spending = NoInvite
    /\ job = [p \in Jobs |-> Idle]

At(p, pc) == job[p].pc = pc
Goto(p, pc) == job' = [job EXCEPT ![p].pc = pc]
End(p) == job' = [job EXCEPT ![p] = Idle]

\* Rows of setup_invites some transaction has written and not committed: whoever
\* would write them waits.
Locked(i) == i = spending \/ \E b \in Issuers : issuing[b].pc = "revoked" /\ i \in issuing[b].revoking

-----------------------------------------------------------------------------
(* bootstrap-admin, a program of its own: IssueSetupInvite counts, then    *)
(* CreateSetupInvite revokes and inserts, without the first-user lock.     *)

\* Only while no account exists, ...
CountForLink(b) ==
    /\ issuing[b].pc = "idle" /\ NoUsers
    /\ issuing' = [issuing EXCEPT ![b].pc = "counted"]
    /\ UNCHANGED <<users, disabled, invites, open, lock, spending, sessions, audit, job>>

\* ... later, the links that are unused now are revoked; the statement waits while
\* somebody else is writing one of their rows, ...
RevokeUnused(b) ==
    /\ issuing[b].pc = "counted"
    /\ LET unused == {i \in Invites : invites[i] = "unused"} IN
       issuing' = [issuing EXCEPT ![b] = [pc |-> IF \E i \in unused : Locked(i) THEN "waiting" ELSE "revoked",
                                          revoking |-> unused]]
    /\ UNCHANGED <<users, disabled, invites, open, lock, spending, sessions, audit, job>>

\* ... then takes those of them that still are, and sees no link made meanwhile, ...
RevokeAfterWait(b) ==
    /\ issuing[b].pc = "waiting" /\ \A i \in issuing[b].revoking : ~Locked(i)
    /\ issuing' = [issuing EXCEPT ![b] = [pc |-> "revoked",
                                         revoking |-> {i \in @.revoking : invites[i] = "unused"}]]
    /\ UNCHANGED <<users, disabled, invites, open, lock, spending, sessions, audit, job>>

\* ... and with the new link committed.
CommitLink(b, i) ==
    /\ issuing[b].pc = "revoked" /\ invites[i] = "unissued"
    /\ invites' = [j \in Invites |-> IF j = i THEN "unused"
                                    ELSE IF j \in issuing[b].revoking THEN "revoked" ELSE invites[j]]
    /\ issuing' = [issuing EXCEPT ![b] = NotIssuing]
    /\ UNCHANGED <<users, disabled, open, lock, spending, sessions, audit, job>>

NoLink(b) ==
    /\ issuing[b].pc # "idle"
    /\ issuing' = [issuing EXCEPT ![b] = NotIssuing]
    /\ UNCHANGED <<users, disabled, invites, open, lock, spending, sessions, audit, job>>

-----------------------------------------------------------------------------
(* The server.                                                             *)

CloseWindow ==
    /\ open /\ open' = FALSE
    /\ UNCHANGED <<users, disabled, invites, issuing, lock, spending, sessions, audit, job>>

\* A restart reopens the window (unless it is set to zero); transactions under way are rolled back.
Restart ==
    /\ open' \in BOOLEAN /\ lock' = Nobody /\ spending' = NoInvite
    /\ job' = [p \in Jobs |-> Idle]
    /\ UNCHANGED <<users, disabled, invites, issuing, sessions, audit>>

-----------------------------------------------------------------------------
(* First-run setup.                                                        *)

\* setupStatus: an invite that may be used opens setup, else the window does.
SetupOpen(i) == NoUsers /\ (open \/ (i # NoInvite /\ invites[i] = "unused"))
ViaInvite(i) == IF i # NoInvite /\ invites[i] = "unused" THEN i ELSE NoInvite

SetupStatus(p) ==
    /\ At(p, "idle")
    /\ \E n \in Names, i \in Invites \cup {NoInvite} :
        /\ SetupOpen(i)
        /\ job' = [job EXCEPT ![p] = [pc |-> "first", name |-> n, via |-> ViaInvite(i)]]
    /\ UNCHANGED <<users, disabled, invites, issuing, open, lock, spending, sessions, audit>>

\* The count without the lock.
LockFirstUnlocked(p) ==
    /\ At(p, "first")
    /\ IF NoUsers THEN lock' = p /\ Goto(p, "counted") ELSE UNCHANGED lock /\ End(p)
    /\ UNCHANGED <<users, disabled, invites, issuing, open, spending, sessions, audit>>

\* CreateFirstUserWithInvite: the lock, the count, ...
LockFirst(p) ==
    /\ At(p, "first") /\ lock = Nobody
    /\ IF NoUsers THEN lock' = p /\ Goto(p, "counted") ELSE UNCHANGED lock /\ End(p)
    /\ UNCHANGED <<users, disabled, invites, issuing, open, spending, sessions, audit>>

\* ... the invite, which must still be unused, ...
Consume(p) ==
    /\ At(p, "counted") /\ (job[p].via # NoInvite => ~Locked(job[p].via))
    /\ LET i == job[p].via
       IN IF i = NoInvite \/ invites[i] = "unused"
          THEN lock' = lock /\ spending' = i /\ Goto(p, "consumed")
          ELSE lock' = Nobody /\ UNCHANGED spending /\ End(p)
    /\ UNCHANGED <<users, disabled, invites, issuing, open, sessions, audit>>

\* ... and the account; all of it, or (a taken name, a failure) nothing.
CommitFirst(p) ==
    /\ At(p, "consumed") /\ ~Exists(job[p].name)
    /\ users' = [users EXCEPT ![job[p].name] = New("setup", job[p].via)]
    /\ invites' = IF job[p].via = NoInvite THEN invites ELSE [invites EXCEPT ![job[p].via] = "used"]
    /\ lock' = Nobody /\ spending' = NoInvite /\ Goto(p, "created")
    /\ UNCHANGED <<disabled, issuing, open, sessions, audit>>

RollBack(p) ==
    /\ At(p, "counted") \/ At(p, "consumed")
    /\ lock' = Nobody /\ spending' = NoInvite /\ End(p)
    /\ UNCHANGED <<users, disabled, invites, issuing, open, sessions, audit>>

\* The new administrator is signed in and the creation recorded; a sign-in that
\* fails (the account may be disabled by now) ends the request before that.
Welcome(p) ==
    /\ At(p, "created")
    /\ LET n == job[p].name
       IN \/ /\ n \notin disabled
             /\ sessions' = sessions \cup {n}
             /\ audit' = audit \cup {[name |-> n, via |-> job[p].via]}
          \/ UNCHANGED <<sessions, audit>>
    /\ End(p)
    /\ UNCHANGED <<users, disabled, invites, issuing, open, lock, spending>>

-----------------------------------------------------------------------------
(* Other accounts, and sessions.                                           *)

\* HandleUsers: the administrator's request counts, then inserts, without the lock.
Post(p) ==
    /\ At(p, "idle")
    /\ \E n \in Names : ~Exists(n) /\ job' = [job EXCEPT ![p] = [@ EXCEPT !.pc = "post", !.name = n]]
    /\ UNCHANGED <<users, disabled, invites, issuing, open, lock, spending, sessions, audit>>

CreateUser(p) ==
    /\ At(p, "post")
    /\ users' = IF Exists(job[p].name) THEN users
                ELSE [users EXCEPT ![job[p].name] = New("post", NoInvite)]
    /\ End(p)
    /\ UNCHANGED <<disabled, invites, issuing, open, lock, spending, sessions, audit>>

\* Authenticate, SignInSSO: the account is read, or with single sign-on made, and
\* must not be disabled; the session is stored later.
Recognise(p) ==
    /\ At(p, "idle")
    /\ \E n \in Names :
        /\ n \notin disabled
        /\ \/ Exists(n)
           \/ ~Exists(n) /\ \A m \in Names : users[m].made # "sso"
        /\ job' = [job EXCEPT ![p] = [@ EXCEPT !.pc = IF Exists(n) THEN "known" ELSE "provision", !.name = n]]
    /\ UNCHANGED <<users, disabled, invites, issuing, open, lock, spending, sessions, audit>>

StoreSession(p) ==
    /\ At(p, "known") \/ (At(p, "provision") /\ ~Exists(job[p].name))
    /\ users' = IF At(p, "known") THEN users ELSE [users EXCEPT ![job[p].name] = New("sso", NoInvite)]
    /\ sessions' = sessions \cup {job[p].name}
    /\ End(p)
    /\ UNCHANGED <<disabled, invites, issuing, open, lock, spending, audit>>

NotProvisioned(p) ==
    /\ At(p, "provision") /\ Exists(job[p].name) /\ End(p)
    /\ UNCHANGED <<users, disabled, invites, issuing, open, lock, spending, sessions, audit>>

\* SetUserDisabled: the sessions go with it.
Disable(n) ==
    /\ Exists(n) /\ n \notin disabled
    /\ disabled' = disabled \cup {n} /\ sessions' = sessions \ {n}
    /\ UNCHANGED <<users, invites, issuing, open, lock, spending, audit, job>>

Enable(n) ==
    /\ n \in disabled /\ disabled' = disabled \ {n}
    /\ UNCHANGED <<users, invites, issuing, open, lock, spending, sessions, audit, job>>

\* DeleteSession, and an expired session at its next use.
SessionEnds(n) ==
    /\ n \in sessions /\ sessions' = sessions \ {n}
    /\ UNCHANGED <<users, disabled, invites, issuing, open, lock, spending, audit, job>>

-----------------------------------------------------------------------------
Next ==
    \/ CloseWindow \/ Restart
    \/ \E b \in Issuers : CountForLink(b) \/ RevokeUnused(b) \/ RevokeAfterWait(b) \/ NoLink(b)
    \/ \E b \in Issuers, i \in Invites : CommitLink(b, i)
    \/ \E p \in Setups :
        \/ SetupStatus(p) \/ LockFirst(p) \/ Consume(p) \/ CommitFirst(p) \/ RollBack(p) \/ Welcome(p)
    \/ \E p \in Posts : Post(p) \/ CreateUser(p)
    \/ \E p \in SignIns : Recognise(p) \/ StoreSession(p) \/ NotProvisioned(p)
    \/ \E n \in Names : Disable(n) \/ Enable(n) \/ SessionEnds(n)

Spec == Init /\ [][Next]_vars

\* What is asked of the constants: the values that stand for nothing are none of the others.
WellFormed == NoInvite \notin Invites /\ Nobody \notin Jobs

-----------------------------------------------------------------------------
\* resolveActor, LookupSession: who a session stands for.
Resolves(n) == n \in sessions /\ Exists(n) /\ n \notin disabled

BySetup == {n \in Names : users[n].made = "setup"}

\* First-run setup makes one account, however many pages are submitted and however
\* many links there are: bootstrap-admin run twice at once leaves two that can be used,
\* and one may be printed after the account was made.  A link is spent exactly by the
\* account it made, so that a failed creation leaves it usable; the ledger's
\* first_admin_created names that account and how it came to be.
FirstAdminOnce ==
    /\ Cardinality(BySetup) <= 1
    /\ \A i \in Invites : invites[i] = "used" <=> \E n \in BySetup : users[n].via = i
    /\ \A e \in audit : e.name \in BySetup /\ users[e.name].via = e.via
===============================================================================
