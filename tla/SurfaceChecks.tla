--------------------------- MODULE SurfaceChecks ---------------------------
(***************************************************************************)
(* The checks of one surface scan, in the order ScanAsset runs them, on    *)
(* what DNS and the asset's own hosts answer.  `world` is the truth, and   *)
(* `silent` the questions that get no answer: a timeout, SERVFAIL, a       *)
(* connection that times out, a spent query budget.  Each check reads its  *)
(* answers and what earlier checks of the same scan learned (`learned`).   *)
(*                                                                         *)
(* The wording of findings, their evidence and the fixed severities are    *)
(* left out: a finding is its id, its subject and, where the check decides *)
(* it, its severity.                                                       *)
(***************************************************************************)
EXTENDS Naturals, FiniteSets, Sequences, SequencesExt

CONSTANTS
    Worlds,         \* what the internet may really say of the asset
    Silences,       \* sets of questions that may go unanswered together
    LookupLimit,    \* DNS-querying SPF terms a receiver allows (10)
    VoidLimit,      \* empty SPF lookups a receiver allows (2)
    DepthLimit,     \* how deep includes are followed (10)
    LookupCap,      \* terms counted before the walk stops following (40)
    MxCap           \* MX hosts that are looked at (10)

\* What the SPF records of a world include or redirect to is a domain of that world,
\* the record's own ("") or a macro ("%").
SpfClosed(w) ==
    /\ "d" \in DOMAIN w.spf /\ IsFiniteSet(DOMAIN w.spf)
    /\ \A n \in DOMAIN w.spf : \A terms \in w.spf[n] :
          /\ terms \in Seq(Range(terms))
          /\ \A t \in Range(terms) :
                t.mech \in {"include", "redirect"} => t.arg \in {"", "%"} \cup DOMAIN w.spf

\* Assets are of the kinds that can be declared.
WellFormed ==
    /\ DepthLimit \in Nat
    /\ \A w \in Worlds : w.kind \in {"domain", "hostname", "ip"} /\ SpfClosed(w)

VARIABLES
    world,      \* the asset as it is
    silent,     \* the questions that get no answer during this scan
    learned,    \* what the mx and dmarc checks found out, for later checks
    results     \* the results added so far, one per check

vars == <<world, silent, learned, results>>

Found(id, subject) == <<id, subject, "fixed">>
Rated(id, subject, severity) == <<id, subject, severity>>

Assessed(check, findings) == [check |-> check, assessed |-> TRUE, findings |-> findings]
NotAssessed(check, findings) == [check |-> check, assessed |-> FALSE, findings |-> findings]

When(condition, findings) == IF condition THEN findings ELSE {}

-----------------------------------------------------------------------------
(* Lookups.  A question is <<type, name>>; the statuses are ok, absent (no *)
(* data, or no such name) and fail.                                        *)

Lookup(w, s, question, there) ==
    IF question \in s THEN "fail" ELSE IF there THEN "ok" ELSE "absent"

\* A TXT lookup that fails.
NoTxt(s, name) == <<"TXT", name>> \in s

\* Both address families of a name: fail only if no address came and one failed.
Addrs(w, s, name) == Lookup(w, s, <<"A", name>>, name \notin w.addressless)

\* No mail, as far as the mx check could tell.
NoMail(l) == l.mxKnown /\ ~l.hasMail

-----------------------------------------------------------------------------
(* Mail.                                                                   *)

\* The hosts of the MX records, in order of preference (a null MX names none); those
\* past the cap are not looked at.
MxHosts(w) == SelectSeq(w.mx, LAMBDA h : h # "")
Hosts(w) == Range(MxHosts(w))
LookedAt(w) == {MxHosts(w)[i] : i \in {i \in DOMAIN MxHosts(w) : i <= MxCap}}
NullMx(w) == "" \in Range(w.mx)

\* What the mx check leaves for the others: nothing when its lookup failed.
MxLearns(w, s, l) ==
    IF <<"MX", "d">> \in s THEN l
    ELSE [l EXCEPT !.mx = Hosts(w), !.mxKnown = TRUE, !.hasMail = Hosts(w) # {} /\ ~NullMx(w)]

MxCheck(w, s, l) ==
    IF <<"MX", "d">> \in s THEN NotAssessed("mx", {})
    ELSE Assessed("mx",
        When(NullMx(w), {Found("mx.null", "d")})
        \cup When(w.mx = <<>>, {Found("mx.none", "d")})
        \cup {Found("mx.cname", h) : h \in
                {h \in LookedAt(w) : Lookup(w, s, <<"CNAME", h>>, h \in w.aliases) = "ok"}}
        \cup {Found("mx.no_address", h) : h \in {h \in LookedAt(w) : Addrs(w, s, h) = "absent"}})

PolicyRank == [none |-> 0, quarantine |-> 1, reject |-> 2]
ValidPolicy(p) == p \in DOMAIN PolicyRank

\* The DMARC records that govern the domain, and where they were found:
\* its own, or the organisational domain's when it has none.
DmarcSource(w, s) ==
    LET own == w.dmarc.d
        org == w.dmarc.org
    IN IF NoTxt(s, "_dmarc.d") THEN [read |-> FALSE]
       ELSE IF own # {} \/ ~w.subdomain THEN [read |-> TRUE, records |-> own, fallback |-> FALSE]
       ELSE IF NoTxt(s, "_dmarc.org") THEN [read |-> FALSE]
       ELSE [read |-> TRUE, records |-> org, fallback |-> org # {}]

\* A record without a valid p= counts as p=none if it asks for reports.
Policy(r) == IF ValidPolicy(r.p) THEN r.p ELSE IF r.p = "" /\ r.rua THEN "none" ELSE "invalid"

\* A subdomain without a record of its own is governed by sp, else by p.
Effective(r, fallback) == IF fallback /\ ValidPolicy(r.sp) THEN r.sp ELSE Policy(r)

DmarcJudges(r, fallback) ==
    LET p == Policy(r)
        effective == Effective(r, fallback)
    IN IF p = "invalid" THEN {Found("dmarc.invalid", "d")}
       ELSE When(effective = "none", {Found("dmarc.p_none", "d")})
            \cup When(~fallback /\ ValidPolicy(r.sp) /\ PolicyRank[r.sp] < PolicyRank[p],
                      {Found("dmarc.sp_weaker", "d")})
            \cup When(r.pct /\ PolicyRank[effective] >= 1, {Found("dmarc.pct", "d")})
            \cup When(~r.rua, {Found("dmarc.no_rua", "d")})

DmarcCheck(w, s, l) ==
    LET src == DmarcSource(w, s)
    IN IF ~src.read THEN NotAssessed("dmarc", {})
       ELSE Assessed("dmarc",
            IF src.records = {} THEN {Found("dmarc.missing", "d")}
            ELSE IF Cardinality(src.records) > 1 THEN {Found("dmarc.multiple", "d")}
            ELSE DmarcJudges(CHOOSE r \in src.records : TRUE, src.fallback))

\* known: the check completed; enforced: the one policy quarantines or rejects.
DmarcLearns(w, s, l) ==
    LET src == DmarcSource(w, s)
    IN IF ~src.read THEN l
       ELSE [l EXCEPT !.dmarcKnown = TRUE,
                      !.enforced = /\ Cardinality(src.records) = 1
                                   /\ \A r \in src.records :
                                        /\ Policy(r) # "invalid"
                                        /\ PolicyRank[Effective(r, src.fallback)] >= 1]

-----------------------------------------------------------------------------
(* SPF: one walk through the record and what it includes.                  *)

NoSpf == [lookups |-> 0, voids |-> 0, broken |-> {}, ptr |-> FALSE]

\* broken: what is wrong with the records, as findings
Problem(st, id, domain) == [st EXCEPT !.broken = @ \cup {Found(id, domain)}]
\* count(): every DNS-querying term, up to the cap (the one that reaches it counts)
Counted(st) == [st EXCEPT !.lookups = @ + 1]
\* An address, mx or exists term: an empty answer is void; one that does not come
\* is at most noted in the observation.
Resolved(st, answer) == IF answer = "absent" THEN [st EXCEPT !.voids = @ + 1] ELSE st

Target(t, domain) == IF t.arg = "" THEN domain ELSE t.arg
Querying == {"include", "a", "mx", "ptr", "exists"}
FirstAll(terms) == SelectInSeq(terms, LAMBDA t : t.mech = "all")
LastRedirect(terms) == SelectLastInSeq(terms, LAMBDA t : t.mech = "redirect")

\* What a term that is no include adds to the count.
PlainTerm(w, s, domain, t, st) ==
    LET name == Target(t, domain)
    IN CASE t.mech = "ptr" -> [st EXCEPT !.ptr = TRUE]
         [] t.arg = "%" -> st
         [] t.mech = "a" -> Resolved(st, Addrs(w, s, name))
         [] t.mech = "mx" -> Resolved(st, Lookup(w, s, <<"MX", name>>, name \notin w.mxless))
         [] t.mech = "exists" -> Resolved(st, Lookup(w, s, <<"A", name>>, name \notin w.addressless))
         [] OTHER -> st

SpfProblems == {"spf.syntax", "spf.loop", "spf.multiple", "spf.include_missing"}
SpfStates(w) ==
    [lookups : Nat, voids : Nat, broken : SUBSET {Found(id, n) : id \in SpfProblems, n \in DOMAIN w.spf},
     ptr : BOOLEAN]

\* A visit to a domain's record: the domains it was reached by, and the state until then.
\* It ends in a state, with the qualifier of the record's "all" ("" for none).
Visits(w) == [domain : DOMAIN w.spf, path : SUBSET DOMAIN w.spf, st : SpfStates(w)]
Ended(st, all, end) == [st |-> st, all |-> all, end |-> end]

\* An include or a redirect, already counted: the walk goes on at name.
Followed(walk, v, st, name) ==
    LET inner == walk[[domain |-> name, path |-> v.path \cup {v.domain}, st |-> st]]
    IN IF inner.end = "none" THEN [inner EXCEPT !.st = Problem(@, "spf.include_missing", name)]
       ELSE inner

SpfTerm(w, s, walk, v, st, t) ==
    IF t.mech \notin Querying THEN st
    ELSE IF st.lookups >= LookupCap /\ t.mech # "ptr" THEN Counted(st)
    ELSE IF t.mech = "include" /\ t.arg # "%"
         THEN Followed(walk, v, Counted(st), Target(t, v.domain)).st
    ELSE PlainTerm(w, s, v.domain, t, Counted(st))

\* The state after the terms of a record.
SpfTerms(w, s, walk, v, terms) ==
    LET bad == \E i \in DOMAIN terms : terms[i].bad
        after[n \in 0..Len(terms)] ==
            IF n = 0 THEN IF bad THEN Problem(v.st, "spf.syntax", v.domain) ELSE v.st
            ELSE SpfTerm(w, s, walk, v, after[n - 1], terms[n])
    IN after[Len(terms)]

SpfRecord(w, s, walk, v, terms) ==
    LET st == SpfTerms(w, s, walk, v, terms)
        all == FirstAll(terms)
        redirect == LastRedirect(terms)
    IN IF all # 0 \/ redirect = 0 \/ terms[redirect].arg = ""
       THEN Ended(st, IF all = 0 THEN "" ELSE terms[all].qual, "ok")
       ELSE IF st.lookups >= LookupCap \/ terms[redirect].arg = "%"
       THEN Ended(Counted(st), "", "ok")
       ELSE [Followed(walk, v, Counted(st), terms[redirect].arg) EXCEPT !.end = "ok"]

SpfVisit(w, s, walk, v) ==
    LET records == w.spf[v.domain]
    IN IF Cardinality(v.path) > DepthLimit
       THEN Ended(Problem(v.st, "spf.syntax", v.domain), "", "broken")
       ELSE IF v.domain \in v.path
       THEN Ended(Problem(v.st, "spf.loop", v.domain), "", "broken")
       ELSE IF NoTxt(s, v.domain) THEN Ended(v.st, "", "failed")
       ELSE IF records = {} THEN Ended(v.st, "", "none")
       ELSE IF Cardinality(records) > 1
       THEN Ended(Problem(v.st, "spf.multiple", v.domain), "", "broken")
       ELSE SpfRecord(w, s, walk, v, CHOOSE r \in records : TRUE)

\* Every visit there may be, each of which goes on with those below it.
SpfWalk(w, s) == LET walk[v \in Visits(w)] == SpfVisit(w, s, walk, v) IN walk

AllFindings(all, l) ==
    CASE all = "+" -> {Found("spf.plus_all", "d")}
      [] all = "?" -> {Found("spf.neutral_all", "d")}
      [] all = "~" -> When(~(l.dmarcKnown /\ l.enforced), {Found("spf.softfail", "d")})
      [] all = "-" -> {}
      [] all = "" -> {Found("spf.no_all", "d")}

SpfCheck(w, s, l) ==
    LET walk == SpfVisit(w, s, SpfWalk(w, s), [domain |-> "d", path |-> {}, st |-> NoSpf])
    IN CASE walk.end = "failed" -> NotAssessed("spf", {})
         [] walk.end = "none" -> Assessed("spf",
              {Rated("spf.missing", "d", IF ~l.mxKnown THEN "medium" ELSE IF NoMail(l) THEN "low" ELSE "high")})
         [] OTHER -> Assessed("spf",
              walk.st.broken
              \cup When(walk.st.lookups > LookupLimit, {Found("spf.too_many_lookups", "d")})
              \cup When(walk.st.voids > VoidLimit, {Found("spf.void_lookups", "d")})
              \cup When(walk.st.ptr, {Found("spf.ptr", "d")})
              \cup AllFindings(walk.all, l))

-----------------------------------------------------------------------------
(* DKIM, MTA-STS, TLS-RPT.                                                 *)

\* What a selector's key says; a selector without a key, or with a TXT record
\* that is none, says nothing of itself.
KeyFinding == [revoked |-> "dkim.revoked", unreadable |-> "dkim.key_invalid",
               short |-> "dkim.key_short", k1024 |-> "dkim.key_1024"]

\* Selectors that could not be read are passed over.
DkimCheckBlind(w, s, l) ==
    LET read == {x \in DOMAIN w.dkim : <<"TXT", x>> \notin s}
        hits == {x \in read : w.dkim[x] \notin {"absent", "other"}}
        findings == {Found("dkim.declared_missing", x) : x \in {x \in w.declared \cap read : w.dkim[x] = "absent"}}
                    \cup {Found(KeyFinding[w.dkim[x]], x) :
                            x \in {x \in hits : w.dkim[x] \in DOMAIN KeyFinding}}
    IN IF hits = {} THEN NotAssessed("dkim", findings) ELSE Assessed("dkim", findings)

DkimCheck(w, s, l) ==
    LET selectors == DOMAIN w.dkim
        unread == {x \in selectors : <<"TXT", x>> \in s}
        hits == {x \in selectors \ unread : w.dkim[x] \notin {"absent", "other"}}
        missing == {x \in w.declared \ unread : w.dkim[x] = "absent"}
        findings == {Found("dkim.declared_missing", x) : x \in missing}
                    \cup {Found(KeyFinding[w.dkim[x]], x) :
                            x \in {x \in hits : w.dkim[x] \in DOMAIN KeyFinding}}
    IN IF hits = {} \/ unread # {} THEN NotAssessed("dkim", findings) ELSE Assessed("dkim", findings)

\* Fetching the policy over HTTPS.  A host whose address cannot be looked up, or
\* that refuses, is a policy that cannot be fetched; one that does not answer is not.
Policy404 == {"refused", "badcert", "http404"}
StsFetch(w, s) ==
    IF Addrs(w, s, "mta-sts.d") # "ok" THEN "policy_unreachable"
    ELSE IF <<"HTTPS", "mta-sts.d">> \in s THEN "timeout"
    ELSE IF w.stsHost \in Policy404 THEN "policy_unreachable"
    ELSE IF w.stsHost = "garbled" THEN "policy_invalid"
    ELSE "policy"

StsPolicy(w, l) ==
    When(w.stsMode = "testing", {Found("mtasts.mode_testing", "d")})
    \cup When(w.stsMode = "none", {Found("mtasts.mode_none", "d")})
    \cup When(w.stsMode # "none", {Found("mtasts.mx_not_covered", h) : h \in l.mx \ w.stsMx})

MtaStsCheck(w, s, l) ==
    LET records == w.sts
        fetch == StsFetch(w, s)
    IN IF NoTxt(s, "_mta-sts.d") THEN NotAssessed("mta-sts", {})
       ELSE IF records = {} THEN Assessed("mta-sts", When(~NoMail(l), {Found("mtasts.missing", "d")}))
       ELSE IF Cardinality(records) > 1 \/ records = {"noid"}
       THEN Assessed("mta-sts", {Found("mtasts.invalid", "d")})
       ELSE IF fetch = "timeout" THEN NotAssessed("mta-sts", {})
       ELSE Assessed("mta-sts", IF fetch = "policy" THEN StsPolicy(w, l)
                                ELSE {Found("mtasts." \o fetch, "d")})

TlsRptCheck(w, s, l) ==
    IF NoTxt(s, "_smtp._tls.d") THEN NotAssessed("tls-rpt", {})
    ELSE Assessed("tls-rpt",
        When(w.rpt = "none" /\ ~NoMail(l), {Found("tlsrpt.missing", "d")})
        \cup When(w.rpt = "norua", {Found("tlsrpt.invalid", "d")}))

-----------------------------------------------------------------------------
(* DNS and TLS.                                                            *)

\* The SOA is asked of a validating resolver; one that fails is asked again with
\* checking disabled, and an answer then is taken for a broken chain.
DnssecCheck(w, s, l) ==
    LET ds == IF <<"DS", "d">> \in s THEN "fail" ELSE w.ds
        soa == IF <<"SOA", "d">> \in s \/ w.chain = "bogus" THEN "fail" ELSE w.chain
        unchecked == IF <<"SOA/CD", "d">> \in s \/ w.chain = "gone" THEN "fail" ELSE "ok"
    IN CASE ds = "unsigned" -> Assessed("dnssec", {Found("dnssec.unsigned", "d")})
         [] ds = "signed" /\ soa = "valid" -> Assessed("dnssec", {})
         [] ds = "signed" /\ soa = "fail" /\ unchecked = "ok" ->
              Assessed("dnssec", {Found("dnssec.broken", "d")})
         [] OTHER -> NotAssessed("dnssec", {})

\* Climbs from the name to the organisational domain: the first set decides.
CaaAt(w, s, name) == Lookup(w, s, <<"CAA", name>>, name \in w.caa)
CaaCheck(w, s, l) ==
    LET own == CaaAt(w, s, "d")
        found == IF own = "absent" /\ w.subdomain THEN CaaAt(w, s, "org") ELSE own
    IN IF found = "fail" THEN NotAssessed("caa", {})
       ELSE Assessed("caa", When(found = "absent", {Found("caa.missing", "d")}))

CnameCheck(w, s, l) ==
    IF <<"A", "d">> \in s THEN NotAssessed("cname", {})
    ELSE Assessed("cname", When(w.cname = "dangling", {Found("cname.dangling", "d")}))

\* A connection to port 443 of the host.
Connects(w, s) == Addrs(w, s, "d") = "ok" /\ <<"TCP", 443>> \notin s /\ w.https

CertFindings(cert) ==
    When(cert.left = "expired", {Found("tls.expired", "d")})
    \cup When(cert.left = "week", {Found("tls.expires_soon", "d")})
    \cup When(cert.left = "month", {Found("tls.expiring", "d")})
    \cup When(~cert.name, {Found("tls.hostname_mismatch", "d")})

TlsCertCheck(w, s, l) ==
    IF ~Connects(w, s) \/ <<"TLS", "any">> \in s THEN NotAssessed("tls-cert", {})
    ELSE IF ~w.roots THEN NotAssessed("tls-cert", CertFindings(w.cert))
    ELSE Assessed("tls-cert", CertFindings(w.cert)
           \cup When(~w.cert.chain /\ w.cert.left # "expired", {Found("tls.chain_invalid", "d")}))

TlsLegacyCheck(w, s, l) ==
    LET unclear == {v \in {"1.0", "1.1"} : <<"TLS", v>> \in s}
        findings == {Found("tls.legacy_protocol", v) : v \in w.legacy \ unclear}
    IN IF ~Connects(w, s) \/ w.fips THEN NotAssessed("tls-legacy", {})
       ELSE IF unclear # {} THEN NotAssessed("tls-legacy", findings)
       ELSE Assessed("tls-legacy", findings)

-----------------------------------------------------------------------------
(* Ports.                                                                  *)

\* A connect that fails for another reason than a refusal or a timeout (no route,
\* the scan's deadline) leaves the port in state "error".
PortState(w, s, port) == IF <<"TCP", port>> \in s THEN "error" ELSE w.ports[port]
PortSeverity(w, port) ==
    IF w.shared THEN "info"
    ELSE IF port \in {25, 110, 143} THEN (IF w.mailHost THEN "info" ELSE "low")
    ELSE "listed"

PortsCheck(w, s, l) ==
    LET ports == DOMAIN w.ports
        all(state) == \A p \in ports : PortState(w, s, p) = state
    IN IF all("error") \/ all("filtered") THEN NotAssessed("ports", {})
       ELSE Assessed("ports", {Rated("ports.open", p, PortSeverity(w, p)) :
                                 p \in {p \in ports : PortState(w, s, p) = "open"}})

-----------------------------------------------------------------------------
(* The scan.                                                               *)

\* The checks of a kind of asset, in the order of ScanAsset.
ChecksOf ==
    [domain |-> <<"mx", "dmarc", "spf", "dkim", "mta-sts", "tls-rpt", "dnssec", "caa", "cname",
                  "tls-cert", "tls-legacy">>,
     hostname |-> <<"cname", "tls-cert", "tls-legacy">>,
     ip |-> <<"ports">>]

Run(check, w, s, l) ==
    CASE check = "mx" -> MxCheck(w, s, l)
      [] check = "dmarc" -> DmarcCheck(w, s, l)
      [] check = "spf" -> SpfCheck(w, s, l)
      [] check = "dkim" -> DkimCheck(w, s, l)
      [] check = "mta-sts" -> MtaStsCheck(w, s, l)
      [] check = "tls-rpt" -> TlsRptCheck(w, s, l)
      [] check = "dnssec" -> DnssecCheck(w, s, l)
      [] check = "caa" -> CaaCheck(w, s, l)
      [] check = "cname" -> CnameCheck(w, s, l)
      [] check = "tls-cert" -> TlsCertCheck(w, s, l)
      [] check = "tls-legacy" -> TlsLegacyCheck(w, s, l)
      [] check = "ports" -> PortsCheck(w, s, l)

Nothing == [mx |-> {}, mxKnown |-> FALSE, hasMail |-> FALSE, dmarcKnown |-> FALSE, enforced |-> FALSE]

\* What the checks learn for those after them.
Learns(check, w, s, l) ==
    IF check = "mx" THEN MxLearns(w, s, l) ELSE IF check = "dmarc" THEN DmarcLearns(w, s, l) ELSE l

Init ==
    /\ world \in Worlds
    /\ silent \in Silences
    /\ learned = Nothing
    /\ results = <<>>

\* add(r.xCheck()): the next check of the asset's kind.
ScanAsset ==
    /\ Len(results) < Len(ChecksOf[world.kind])
    /\ LET check == ChecksOf[world.kind][Len(results) + 1]
       IN /\ results' = Append(results, Run(check, world, silent, learned))
          /\ learned' = Learns(check, world, silent, learned)
    /\ UNCHANGED <<world, silent>>

Next == ScanAsset
Spec == Init /\ [][Next]_vars

-----------------------------------------------------------------------------
(* What a check would say if every question were answered.                 *)
AllAnswered(check) ==
    Run(check, world, {}, DmarcLearns(world, {}, MxLearns(world, {}, Nothing)))

\* What SPF may ask about beyond the domain's own record.
SpfAsks ==
    LET names == (DOMAIN world.spf \cup world.addressless \cup world.mxless) \ {"d"}
    IN {<<type, n>> : type \in {"TXT", "A", "MX"}, n \in names}
       \cup {<<"A", "d">>}

\* Where the code concludes from an answer it did not get, knowingly (a severity or
\* a finding that depends on whether the domain has mail or enforces DMARC, a count
\* of lookups that may be low) or not (README, "Silence").
Presumes(check) ==
    \/ check \in {"spf", "mta-sts", "tls-rpt"} /\ ~learned.mxKnown
    \/ check = "spf" /\ (~learned.dmarcKnown \/ silent \cap SpfAsks # {})
    \/ check = "mx" /\ \E h \in LookedAt(world) : <<"A", h>> \in silent \/ <<"CNAME", h>> \in silent
    \/ check = "mta-sts" /\ <<"A", "mta-sts.d">> \in silent
    \/ check = "dnssec" /\ <<"SOA", "d">> \in silent
    \/ check = "ports" /\ \E p \in DOMAIN world.ports : <<"TCP", p>> \in silent

\* An assessed result says exactly what it would say had every question been
\* answered, so that what it resolves is gone and what it opens is there; apart
\* from Presumes, no check turns silence into a pass or a failure.
SilenceDecidesNothing ==
    \A i \in DOMAIN results :
        results[i].assessed /\ ~Presumes(results[i].check)
            => results[i] = AllAnswered(results[i].check)

\* dnshygiene.go:16-19 says that a bogus chain is told apart from an outage: the
\* code takes every failed SOA lookup for a refused one, a timeout included.
BrokenIsBogus ==
    \A i \in DOMAIN results : Found("dnssec.broken", "d") \in results[i].findings => world.chain = "bogus"
=============================================================================
