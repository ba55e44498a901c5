----------------------------- MODULE MCZarfInit -----------------------------
(***************************************************************************)
(* Instances of ZarfInit for TLC: two init packages whose seed images need *)
(* two and one config maps, and three node ports.                          *)
(***************************************************************************)
EXTENDS ZarfInit

CONSTANTS big, small

TwoPayloads == {big, small}
ChunksOf == [p \in TwoPayloads |-> IF p = big THEN 2 ELSE 1]
Ports == {30000, 30001, 31999}

Given(mode, port, inj, ext, extGit, git, payload) ==
    [mode |-> mode, port |-> port, inj |-> inj, ext |-> ext, extGit |-> extGit,
     git |-> git, payload |-> payload]

\* Both modes and packages, a registry port that the injector may have drawn,
\* an external registry and git server, and no flags at all.
FlagSets ==
    {Given("nodeport", 0, 0, FALSE, FALSE, FALSE, big),
     Given("proxy", 0, 0, FALSE, FALSE, TRUE, small),
     Given("", 30000, 0, FALSE, FALSE, TRUE, small),
     Given("", 0, 30001, FALSE, FALSE, FALSE, big),
     Given("", 0, 0, TRUE, TRUE, FALSE, big)}
=============================================================================
