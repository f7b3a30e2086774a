---------------------------- MODULE MCSurfaceWorlds ----------------------------
(***************************************************************************)
(* Assets for the surface checks to look at, each wrong in a few ways, and *)
(* the questions that may go unanswered.  i1 and i2 are domains the SPF    *)
(* record of d refers to, h1, h2 and h3 its mail hosts, s1 a selector.     *)
(***************************************************************************)
EXTENDS Naturals

T(mech, qual, arg) == [mech |-> mech, qual |-> qual, arg |-> arg, bad |-> FALSE]
All(q) == T("all", q, "")
Include(n) == T("include", "+", n)
Good == [p |-> "reject", sp |-> "", pct |-> FALSE, rua |-> TRUE]

Healthy ==
    [kind |-> "domain", mx |-> <<"h1">>, aliases |-> {}, addressless |-> {}, mxless |-> {}, subdomain |-> FALSE,
     dmarc |-> [d |-> {Good}, org |-> {}],
     spf |-> [d |-> {<<Include("i1"), All("-")>>}, i1 |-> {<<T("a", "+", "i1"), All("?")>>}, i2 |-> {}],
     dkim |-> [s1 |-> "good", google |-> "absent"], declared |-> {"s1"},
     sts |-> {"id"}, stsHost |-> "up", stsMode |-> "enforce", stsMx |-> {"h1"}, rpt |-> "rua",
     ds |-> "signed", chain |-> "valid", caa |-> {"d"}, cname |-> "none",
     https |-> TRUE, roots |-> TRUE, fips |-> FALSE, legacy |-> {},
     cert |-> [left |-> "fine", name |-> TRUE, chain |-> TRUE],
     ports |-> [p \in {22, 25, 3389} |-> "closed"], shared |-> FALSE, mailHost |-> FALSE]

Spf(r) == [Healthy EXCEPT !.spf.d = {r}]
MCWorlds ==
    {Healthy,
     [Healthy EXCEPT !.mx = <<"">>], [Healthy EXCEPT !.mx = <<>>, !.spf.d = {}, !.sts = {}, !.rpt = "none"],
     [Healthy EXCEPT !.mx = <<"h2", "h1", "h3">>, !.aliases = {"h2"}, !.addressless = {"h1", "h3"}],
     [Healthy EXCEPT !.mx = <<"h3", "", "h2", "h1">>, !.aliases = {"h1"}, !.addressless = {"h1"}],
     [Healthy EXCEPT !.spf.d = {}, !.sts = {}, !.rpt = "none", !.dmarc.d = {}],
     [Healthy EXCEPT !.dmarc.d = {}, !.subdomain = TRUE, !.dmarc.org = {[Good EXCEPT !.sp = "none"]}, !.caa = {"org"}],
     [Healthy EXCEPT !.dmarc.d = {[Good EXCEPT !.p = "", !.sp = "none"]}, !.spf.d = {<<All("~")>>}],
     [Healthy EXCEPT !.dmarc.d = {[Good EXCEPT !.p = "bogus", !.rua = FALSE]}, !.caa = {}],
     [Healthy EXCEPT !.dmarc.d = {[Good EXCEPT !.sp = "quarantine", !.pct = TRUE, !.rua = FALSE], Good}],
     [Healthy EXCEPT !.dmarc.d = {[Good EXCEPT !.sp = "quarantine", !.pct = TRUE, !.rua = FALSE]}, !.spf.d = {<<All("~")>>}],
     [Healthy EXCEPT !.spf.d = {<<All("-")>>, <<All("+")>>}, !.spf.i1 = {}],
     Spf(<<Include("i1"), T("ptr", "+", ""), [All("+") EXCEPT !.bad = TRUE]>>),
     Spf(<<Include("i1"), Include("i1"), Include("i1"), All("?")>>),
     [Spf(<<Include("i1"), Include("i2")>>) EXCEPT !.spf.i1 = {<<Include("d")>>}],
     Spf(<<T("redirect", "", "i1")>>),
     [Spf(<<T("mx", "+", "i1"), T("exists", "+", "i2"), T("a", "+", ""), T("exists", "+", "%"), All("-")>>)
        EXCEPT !.addressless = {"i2", "d"}, !.mxless = {"i1"}],
     [Healthy EXCEPT !.dkim = [s1 |-> "absent", google |-> "other"], !.sts = {"noid"}, !.rpt = "norua"],
     [Healthy EXCEPT !.dkim = [s1 |-> "revoked", google |-> "short"], !.sts = {"id", "id2"}],
     [Healthy EXCEPT !.stsHost = "badcert", !.ds = "unsigned"],
     [Healthy EXCEPT !.stsHost = "garbled", !.chain = "bogus"],
     [Healthy EXCEPT !.stsMode = "testing", !.stsMx = {}, !.chain = "unjudged"],
     [Healthy EXCEPT !.stsMode = "none", !.chain = "gone", !.cname = "live"],
     [Healthy EXCEPT !.cname = "dangling", !.addressless = {"d", "mta-sts.d"}],
     [Healthy EXCEPT !.cert.left = "expired", !.cert.chain = FALSE, !.legacy = {"1.0"}],
     [Healthy EXCEPT !.kind = "hostname", !.cert.chain = FALSE, !.cert.name = FALSE, !.legacy = {"1.1"}, !.cert.left = "week"],
     [Healthy EXCEPT !.kind = "hostname", !.cert.left = "month", !.roots = FALSE, !.fips = TRUE],
     [Healthy EXCEPT !.kind = "hostname", !.https = FALSE],
     [Healthy EXCEPT !.kind = "ip"],
     [Healthy EXCEPT !.kind = "ip", !.ports = [p \in {22, 25, 3389} |-> "filtered"]],
     [Healthy EXCEPT !.kind = "ip", !.ports[25] = "open", !.ports[3389] = "open", !.mailHost = TRUE],
     [Healthy EXCEPT !.kind = "ip", !.ports[25] = "open", !.ports[22] = "filtered", !.shared = TRUE]}

MCQuestions ==
    {<<"MX", "d">>, <<"TXT", "d">>, <<"TXT", "i1">>, <<"TXT", "_dmarc.d">>, <<"TXT", "_dmarc.org">>,
     <<"TXT", "s1">>, <<"TXT", "google">>, <<"TXT", "_mta-sts.d">>, <<"TXT", "_smtp._tls.d">>,
     <<"HTTPS", "mta-sts.d">>, <<"A", "mta-sts.d">>, <<"A", "d">>, <<"A", "h1">>, <<"CNAME", "h2">>,
     <<"DS", "d">>, <<"SOA", "d">>, <<"SOA/CD", "d">>, <<"CAA", "d">>, <<"CAA", "org">>,
     <<"TCP", 443>>, <<"TCP", 22>>, <<"TCP", 3389>>, <<"TLS", "any">>, <<"TLS", "1.0">>}
MCSilences ==
    {{}} \cup {{q} : q \in MCQuestions}
    \cup {{q, r} : q \in MCQuestions, r \in {<<"SOA", "d">>, <<"MX", "d">>}}
================================================================================
