------------------------------- MODULE MCOutside -------------------------------
\* The other values of the constants are in the configuration.
EXTENDS Outside

CONSTANTS timer, osv, a, b, c, g, request, ta, tb, users, admin, device, kb, sa, sb

\* g is an OSV id for the CVE a; the catalogue lists KEV first.
MCSpecs == <<KEV, osv>>
MCCveOf == [id \in {a, b, c, g} |-> IF id = g THEN a ELSE id]

\* The second file of the range feed is truncated, its third has the OSV record.
MCPublished ==
    [f \in {KEV, osv} |-> IF f = KEV THEN <<{a}, {b}>> ELSE <<{a, b, c}, {b}, {g, a}>>]

MCGroupOf == [f \in {admin} |-> users]

\* A read of one page, of two, of a link to another host, and of one too many.
Pages == {<<"end">>, <<"next", "end">>, <<"next", "foreign">>, <<"next", "next", "next", "end">>}
MCCalls ==
    [client : {"graph", "datto"}, kind : {"read"}, pages : Pages]
    \cup [client : {"google", "autotask"}, kind : {"read"}, pages : {<<"next", "end">>}]
    \cup [client : {"autotask"}, kind : {"create", "update"}, pages : {<<>>}]
MCMaxAttempts == [graph |-> 4, google |-> 5, autotask |-> 3]

ASSUME Api!WellFormed

\* The sites are alike: the device may as well be at the first.  One call will do for
\* the parts that make none.
MCInit ==
    /\ OutsideInit
    /\ devices[device].site = sa
    /\ working # "api" => call.kind = "update" /\ token /\ sized
MCSpec == MCInit /\ [][OutsideNext]_all /\ OutsideFairness
===============================================================================
