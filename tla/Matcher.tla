------------------------------- MODULE Matcher -------------------------------
(***************************************************************************)
(* The vulnerability matcher (internal/vuln/match.go, compare.go): which   *)
(* advisory ranges apply to an installed package, what they say together   *)
(* (judge), and how the verdicts on several packages of one family become  *)
(* one finding (addFinding).                                               *)
(*                                                                         *)
(* One advisory is followed; ranges of different advisories never meet.    *)
(* A version is a pair <<epoch, number>>, epoch 0 when none is written:    *)
(* the orderings of dpkg and rpm, below the epoch, are the order of        *)
(* numbers.  The loops go through the rows in the order in which the       *)
(* inventory and the query list them.                                      *)
(***************************************************************************)
EXTENDS Integers, Sequences, SequencesExt

CONSTANTS
    Packages,       \* packages an inventory may list, see Package
    Ranges,         \* ranges the feeds may hold, see Range
    Floors,         \* upstream floors of the same advisory, for every name
    MaxPackages,    \* bound: packages in an inventory
    MaxRanges       \* bound: ranges in the feeds

Version == Nat \X Nat
None == <<0, 0>>    \* a version that is not given
NoName == 0         \* a name that is not given

\* Package: [name, source, version, sourceVersion, revision].  The agent reports
\* the source version as dpkg and rpm write it, without the epoch of the binary.
\* Range: [package, source, state, introduced, fixed, pro, base]; pro marks the
\* ecosystem Ubuntu:Pro, base a range of the vendor a rebuild host follows.
RangeStates == {"affected", "fixed", "will_not_fix", "not_affected", "under_investigation"}

\* What the packages and ranges of a host and of the feeds look like.
WellFormed ==
    /\ Packages \subseteq [name : Nat, source : Nat, version : Version, sourceVersion : Version,
                            revision : BOOLEAN]
    /\ Ranges \subseteq [package : Nat, source : Nat, state : RangeStates, introduced : Version,
                          fixed : Version, pro : BOOLEAN, base : BOOLEAN]
    /\ Floors \subseteq Version
    /\ \A p \in Packages : p.name # NoName /\ p.version # None /\ p.sourceVersion[1] = 0
    /\ \A c \in Ranges :
          /\ c.package # NoName \/ c.source # NoName
          /\ c.state = "fixed" => c.fixed # None
    /\ MaxPackages \in Nat /\ MaxRanges \in Nat

VARIABLES
    inventory,  \* the packages of the host, in the order reported
    ranges,     \* the ranges of the advisory, in the order of the query
    onPro,      \* the host has an ESM build installed
    rebuild     \* the host runs a rebuild distribution: its base is consulted too

vars == <<inventory, ranges, onPro, rebuild>>

-----------------------------------------------------------------------------
\* Versions

\* v < w, epochs first: Compare(v, w) < 0.
Below(v, w) == v[1] < w[1] \/ (v[1] = w[1] /\ v[2] < w[2])
Reaches(v, w) == ~Below(v, w)

\* Mutant of InheritEpoch: the source version as reported.
InheritEpochNot(src, bin) == src

\* The source version, with the epoch of the binary built from it.
InheritEpoch(src, bin) ==
    IF src[1] # 0 \/ bin[1] = 0 THEN src ELSE <<bin[1], src[2]>>

\* The range names the package, directly or through its source package.
RangeAppliesTo(c, p) ==
    IF c.source # NoName
    THEN IF p.source # NoName THEN c.source = p.source
         ELSE p.name \in {c.source, c.package}
    ELSE c.package = p.name \/ (p.source # NoName /\ c.package = p.source)

\* The ranges Match attaches to a package: found under its source or its name,
\* under its name as a source when it reports none, and then only if they apply.
Attached(c, p) ==
    /\ \/ p.source # NoName /\ c.source = p.source
       \/ c.package = p.name
       \/ p.source = NoName /\ c.source = p.name
    /\ RangeAppliesTo(c, p)

\* The installed version a range is compared with.
VersionFor(c, p) ==
    IF c.source # NoName /\ p.source = c.source /\ p.sourceVersion # None
    THEN InheritEpoch(p.sourceVersion, p.version)
    ELSE p.version

-----------------------------------------------------------------------------
\* judge: one advisory, one package, all of its ranges

NoVerdict ==
    [fix |-> None, up |-> None, pro |-> FALSE, affected |-> FALSE,
     informative |-> FALSE, clean |-> FALSE, notAffected |-> FALSE]

Lower(best, v) == IF best = None \/ Below(v, best) THEN v ELSE best

\* A fix that ships only through Ubuntu Pro, on a host that does not use it.
OnlyPro(c) == c.pro /\ ~onPro /\ c.state = "fixed"

\* A fix of the vendor whose packages the host's distribution rebuilds.
FromBase(c) == rebuild /\ c.base

\* What one range adds to what is known so far.
Weigh(p, v, c) ==
    LET ver == VersionFor(c, p)
    IN  IF c.introduced # None /\ Below(ver, c.introduced) THEN v
        ELSE IF OnlyPro(c)
        THEN IF Below(ver, c.fixed) THEN [v EXCEPT !.pro = TRUE]
             ELSE [v EXCEPT !.clean = TRUE]
        ELSE CASE c.state = "not_affected" -> [v EXCEPT !.notAffected = TRUE]
               [] c.state \in {"fixed", "affected"} /\ c.fixed # None /\ Reaches(ver, c.fixed)
                    -> [v EXCEPT !.clean = TRUE]
               [] c.state = "fixed" /\ FromBase(c) /\ Below(ver, c.fixed)
                    -> [v EXCEPT !.up = Lower(@, c.fixed)]
               [] c.state = "fixed" /\ ~FromBase(c) /\ Below(ver, c.fixed)
                    -> [v EXCEPT !.fix = Lower(@, c.fixed)]
               [] c.state = "affected" /\ (c.fixed = None \/ Below(ver, c.fixed))
                    -> [v EXCEPT !.affected = TRUE]
               [] c.state \in {"will_not_fix", "under_investigation"}
                    -> [v EXCEPT !.informative = TRUE]

\* The kind of finding, "clean" or "not_affected", in judge's order of precedence.
KindOf(v) ==
    CASE v.notAffected -> "not_affected"
      [] v.clean /\ ~v.notAffected -> "clean"
      [] ~v.clean /\ ~v.notAffected ->
         CASE v.fix # None -> "finding"
           [] v.fix = None /\ v.up # None -> "awaiting_vendor"
           [] v.fix = None /\ v.up = None /\ (v.pro \/ v.affected) -> "unfixed"
           [] OTHER -> IF v.informative THEN "informational" ELSE "clean"

\* judge's loop: Heard(p, rows)[n] is what the first n rows say together of p.
Heard(p, rows) ==
    LET heard[n \in 0..Len(rows)] ==
            IF n = 0 THEN NoVerdict
            ELSE IF Attached(rows[n], p) THEN Weigh(p, heard[n - 1], rows[n])
            ELSE heard[n - 1]
    IN  heard

Judge(p, rows) ==
    LET v == Heard(p, rows)[Len(rows)]
    IN  [kind |-> KindOf(v), package |-> p.name,
         fixed |-> IF v.fix # None THEN v.fix ELSE v.up]

\* The distribution's feed mentions the package at all.
Mapped(p, rows) == \E i \in DOMAIN rows : Attached(rows[i], p)

\* Assess: a package the feed does not mention, against an upstream floor.  A
\* floor carries no distro revision; below it, a build with one cannot be judged.
Assess(p, floor) ==
    CASE Reaches(p.version, floor) -> "clean"
      [] Below(p.version, floor) /\ p.revision -> "unknown"
      [] OTHER -> "finding"

-----------------------------------------------------------------------------
\* Match: one finding per advisory and family

KindRank(k) ==
    CASE k = "finding" -> 0
      [] k = "awaiting_vendor" -> 2
      [] k = "unfixed" -> 3
      [] k = "informational" -> 4

FindingKinds == {"finding", "awaiting_vendor", "unfixed", "informational"}

FamilyOf(p) == IF p.source # NoName THEN p.source ELSE p.name

\* addFinding: prev is the finding kept so far for the family, f a new verdict.
AddFinding(prev, f) ==
    CASE f.kind \notin FindingKinds -> prev
      [] f.kind \in FindingKinds /\ prev.kind \notin FindingKinds -> f
      [] f.kind \in FindingKinds /\ prev.kind \in FindingKinds ->
         IF KindRank(f.kind) < KindRank(prev.kind) THEN f
         ELSE IF f.kind = prev.kind /\ f.package < prev.package THEN f
         ELSE prev

NoFinding == [kind |-> "clean", package |-> NoName, fixed |-> None]

\* What Match says of one package: the distro's ranges, or, for a package they
\* do not mention, the floors.  Of several floors above the package the first that
\* the query lists stays: a choice that depends on the floors alone.
VerdictOn(p, rows) ==
    IF Mapped(p, rows) THEN Judge(p, rows)
    ELSE LET over == {w \in Floors : Assess(p, w) = "finding"}
         IN  IF over = {} THEN [NoFinding EXCEPT !.package = p.name]
             ELSE [kind |-> "finding", package |-> p.name, fixed |-> CHOOSE w \in over : TRUE]

\* The loop over the packages: Kept(inv, rows, family)[n] is the finding kept for
\* the family after the first n packages.
Kept(inv, rows, family) ==
    LET kept[n \in 0..Len(inv)] ==
            IF n = 0 THEN NoFinding
            ELSE IF FamilyOf(inv[n]) = family THEN AddFinding(kept[n - 1], VerdictOn(inv[n], rows))
            ELSE kept[n - 1]
    IN  kept

Match(inv, rows, family) == Kept(inv, rows, family)[Len(inv)]

-----------------------------------------------------------------------------
\* The inputs: an inventory, then the rows of the feeds for it, in any order

Init ==
    /\ inventory = <<>> /\ ranges = <<>>
    /\ onPro \in BOOLEAN /\ rebuild \in BOOLEAN

ReportPackage ==
    /\ ranges = <<>> /\ Len(inventory) < MaxPackages
    /\ \E p \in Packages :
         \* a host has one version of a package installed under one name
         /\ \A i \in DOMAIN inventory : inventory[i].name # p.name
         /\ inventory' = Append(inventory, p)
    /\ UNCHANGED <<ranges, onPro, rebuild>>

LoadRange ==
    /\ inventory # <<>> /\ Len(ranges) < MaxRanges
    /\ \E c \in Ranges : ranges' = Append(ranges, c)
    /\ UNCHANGED <<inventory, onPro, rebuild>>

Next == ReportPackage \/ LoadRange

Spec == Init /\ [][Next]_vars

-----------------------------------------------------------------------------
\* Properties

Installed == {inventory[i] : i \in DOMAIN inventory}
Loaded == {ranges[i] : i \in DOMAIN ranges}

\* The version the host really has of what a range names: a source package has
\* the epoch of its binaries, whatever the report wrote.
TrueVersion(c, p) ==
    IF c.source # NoName /\ p.source = c.source /\ p.sourceVersion # None
    THEN <<p.version[1], p.sourceVersion[2]>>
    ELSE p.version

\* A package that has reached a version some feed calls fixed is never in the
\* list of what to act on, whatever other ranges say, in whatever order, and
\* although source versions are reported without their epoch (match.go: "the
\* point of this matcher is never to flag a patched host").
PatchedNeverFlagged ==
    \A p \in Installed :
        (\E c \in Loaded :
            /\ Attached(c, p) /\ c.state \in {"fixed", "affected"} /\ c.fixed # None
            /\ c.introduced = None \/ Reaches(TrueVersion(c, p), c.introduced)
            /\ Reaches(TrueVersion(c, p), c.fixed))
        => Judge(p, ranges).kind \in {"clean", "not_affected"}

\* p after an update to version v of what the range names: the package itself, or
\* everything built from its source, which carries the epoch to the binaries.
Updated(p, c, v) ==
    IF c.source # NoName /\ p.source = c.source /\ p.sourceVersion # None
    THEN [p EXCEPT !.version = <<v[1], @[2]>>, !.sourceVersion = <<0, v[2]>>]
    ELSE [p EXCEPT !.version = v]

\* A finding of kind "finding" can be acted on: some range of the host's own
\* distribution, installable on this host, releases the version it names; and
\* a package brought to that version is no finding any more (judge keeps the
\* lowest fix; ranges of Ubuntu Pro and of the rebuilt vendor are kept apart).
FixLeadsOut ==
    \A p \in Installed :
        LET f == Judge(p, ranges)
        IN  f.kind = "finding" =>
            \E c \in Loaded :
                /\ Attached(c, p) /\ c.state = "fixed" /\ c.fixed = f.fixed
                /\ c.pro => onPro
                /\ rebuild => ~c.base
                /\ Judge(Updated(p, c, f.fixed), ranges).kind \in {"clean", "not_affected"}

\* What is recorded for a family does not depend on the order of the inventory
\* nor on the order in which the query returned the distro's ranges (addFinding,
\* the loop of judge); floors keep their order.
OrderFree ==
    \A p \in Installed :
        LET f == Match(inventory, ranges, FamilyOf(p))
            g == Match(Reverse(inventory), Reverse(ranges), FamilyOf(p))
        IN  f.kind = g.kind /\ f.package = g.package /\ (f.kind = "finding" => f = g)

\* A patched host is never flagged, a finding can be acted on, and neither the order
\* of the inventory nor that of the rows matters (match.go, judge, addFinding).
VerdictsHold == PatchedNeverFlagged /\ FixLeadsOut /\ OrderFree
=============================================================================
