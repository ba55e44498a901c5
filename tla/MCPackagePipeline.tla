-------------------------- MODULE MCPackagePipeline -------------------------
(***************************************************************************)
(* Packages, images and commands of PackagePipeline for TLC.               *)
(***************************************************************************)
EXTENDS PackagePipeline

\* i1 is named by a tag that moves from an image to a multi-platform index, i2
\* by the digest of an index; i3 comes in an archive.
MCKind == [i1 |-> <<"manifest", "index">>, i2 |-> <<"index", "index">>, i3 |-> <<"manifest", "manifest">>]
MCBlobs ==
    [i1 |-> << [w \in BOOLEAN |-> {"i1", "base"}],
               [w \in BOOLEAN |-> IF w THEN {"i1x", "i1amd", "i1arm"} ELSE {"i1amd"}] >>,
     i2 |-> [r \in 1..2 |-> [w \in BOOLEAN |-> IF w THEN {"i2", "i2amd", "base"} ELSE {"i2amd", "base"}]],
     i3 |-> [r \in 1..2 |-> [w \in BOOLEAN |-> {"i3", "base"}]]]

Comp(n, t, imgs, arch) == [name |-> n, tar |-> t, images |-> imgs, archives |-> arch]
V1 == [arch |-> "amd64", version |-> "v1", api |-> "v1alpha1", docs |-> TRUE, values |-> FALSE,
       comps |-> <<Comp("a", TRUE, {"i1"}, {}), Comp("b", TRUE, {"i2"}, {})>>]
V1arm == [arch |-> "arm64", version |-> "v1", api |-> "v1beta1", docs |-> FALSE, values |-> FALSE,
          comps |-> <<Comp("a", TRUE, {}, {})>>]
V2 == [arch |-> "amd64", version |-> "v2", api |-> "v1alpha1", docs |-> FALSE, values |-> TRUE,
       comps |-> <<Comp("a", FALSE, {"i1", "i2"}, {"i3"})>>]
\* V1 is built again from fewer components.
V1again == [arch |-> "amd64", version |-> "v1", api |-> "v1alpha1", docs |-> FALSE, values |-> FALSE,
            comps |-> <<Comp("a", TRUE, {}, {})>>]
\* Larger than the parts allow, and without a version.
Large == [arch |-> "amd64", version |-> "", api |-> "v1alpha1", docs |-> FALSE, values |-> FALSE,
          comps |-> <<Comp("a", TRUE, {}, {}), Comp("b", TRUE, {}, {}), Comp("c", TRUE, {}, {})>>]
FiveBuilds == <<V1, V1arm, V2, V1again, Large>>

Creation(b, k, o) == [build |-> b, key |-> k, out |-> o]
MCCreations ==
    {Creation(1, k, o) : k \in {"none", "k1"}, o \in {"archive", "split", "r1"}}
    \cup {Creation(1, "id1", "archive"), Creation(2, "none", "r1"), Creation(3, "none", "split"),
          Creation(4, "none", "split"), Creation(5, "none", "split")}

Load(s, t, v, k) == [select |-> s, types |-> t, strategy |-> v, key |-> k]
MCLoads ==
    {Load(s, t, "never", "none") : s \in {{"a"}, {"a", "b"}}, t \in {"all", "metadata", "noImages"}}
    \cup {Load({"a", "b"}, "metadata", v, k) : v \in {"ifPossible", "always"}, k \in {"none", "k1", "id1"}}

AllServed == {[i1 |-> 1, i2 |-> 1, i3 |-> 1], [i1 |-> 0, i2 |-> 1, i3 |-> 1]}
=============================================================================
