------------------------- MODULE MCPackageLifecycle -------------------------
(***************************************************************************)
(* Small packages for PackageLifecycle: charts web, db, mon, components   *)
(* app and ops, versions v1 and v2.                                        *)
(***************************************************************************)
EXTENDS PackageLifecycle

CONSTANTS web, db, mon, app, ops, v1, v2

Charts(ofA, ofB) == [c \in Component |-> IF c = app THEN ofA ELSE ofB]

Version(comps, ofA, ofB, manifests, cluster, init) ==
    [comps |-> comps, charts |-> Charts(ofA, ofB),
     manifests |-> [c \in Component |-> manifests], cluster |-> cluster, init |-> init]

\* Release names of their own, and one name in two namespaces.
DistinctNames == [c \in Chart |-> c]
SharedName    == [c \in Chart |-> IF c = mon THEN mon ELSE web]

\* v2 drops the manifest db of component app and reorders the components.
TwoComponents ==
    [p \in Pkg |-> IF p = v1
        THEN Version(<<app, ops>>, <<web, db>>, <<mon>>, {db}, {app, ops}, FALSE)
        ELSE Version(<<ops, app>>, <<web>>, <<mon>>, {}, {app, ops}, FALSE)]

\* The same, with v2 deployed as an init package.
TwoComponentsInit == [TwoComponents EXCEPT ![v2].init = TRUE]

\* In v2 component ops, which had a chart, only copies files.
ChartToFiles ==
    [p \in Pkg |-> IF p = v1
        THEN Version(<<app, ops>>, <<web, db>>, <<mon>>, {db}, {app, ops}, FALSE)
        ELSE Version(<<ops, app>>, <<web>>, <<>>, {}, {app}, FALSE)]
=============================================================================
