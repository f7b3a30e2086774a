------------------------------- MODULE MCConsole -------------------------------
\* One advisory key and one repository; the owner at the setup page and somebody who
\* is there too, or makes an account with the shared token, or signs in; two names, and
\* two links that two bootstrap-admins print.
EXTENDS Console, TLC

CONSTANTS v1, r1, link1, link2, boot1, boot2

Symmetry == Permutations({link1, link2}) \cup Permutations({boot1, boot2})

Host(p, q, a) == [packages |-> [k \in {v1} |-> p], repos |-> [r \in {r1} |-> q], assessed |-> a]

\* All wrong; patched with the repository put right; patched and silent about it.
MCInventories ==
    {Host("vulnerable", "broken", TRUE), Host("patched", "healthy", TRUE),
     Host("patched", "broken", FALSE)}

\* Two binaries of one source, also seen without their source; epochs 0 and 1.
\* Names are numbers because the matcher orders them: 1 and 2 are binaries, 3 is
\* their source.
MCPackages ==
    {p \in [name : {1, 2}, source : {0, 3}, version : {<<0, 1>>, <<1, 1>>},
            sourceVersion : {<<0, 0>>, <<0, 1>>, <<0, 2>>}, revision : BOOLEAN] :
        /\ p.source = 0 => p.sourceVersion = <<0, 0>>
        /\ p.name = 2 => p.source = 3 /\ p.version = <<1, 1>>
        /\ p.revision <=> p.name = 2}

\* Ranges keyed on a binary, on the source, or on both; fixes with and without an
\* epoch; one that begins after the oldest version.
MCRanges ==
    {c \in [package : {0, 1}, source : {0, 3}, state : {"affected", "fixed", "will_not_fix", "not_affected", "under_investigation"},
            introduced : {<<0, 0>>, <<0, 2>>}, fixed : {<<0, 0>>, <<0, 2>>, <<1, 1>>, <<1, 2>>},
            pro : BOOLEAN, base : BOOLEAN] :
        /\ c.package # 0 \/ c.source # 0
        /\ c.state = "fixed" => c.fixed # <<0, 0>>
        /\ c.state = "affected" => c.fixed \in {<<0, 0>>, <<1, 2>>}
        /\ c.state \notin {"fixed", "affected"} => c.fixed = <<0, 0>>
        /\ c.state # "fixed" => ~c.pro /\ ~c.base
        /\ c.state = "under_investigation" => c.source = 3
        /\ c.introduced # <<0, 0>> => c.state = "fixed" /\ c.fixed = <<1, 2>> /\ ~c.pro
        /\ ~(c.pro /\ c.base)}

MCFloors == {<<0, 2>>}

ASSUME M!WellFormed
ASSUME A!WellFormed
================================================================================
