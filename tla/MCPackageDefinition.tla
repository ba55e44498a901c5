------------------------ MODULE MCPackageDefinition -------------------------
(***************************************************************************)
(* Documents for TLC: a package with every optional field unset, and all   *)
(* packages that differ from it in two aspects.                            *)
(***************************************************************************)
EXTENDS PackageDefinition

Do(cmd) == [cmd |-> cmd, wait |-> "none", ns |-> "", setVar |-> "", setVars |-> {}]
WaitFor(cond, ns) == [cmd |-> "", wait |-> cond, ns |-> ns, setVar |-> "", setVars |-> {}]
At(url, ref, version, path, local) ==
    [url |-> url, ref |-> ref, version |-> version, gitPath |-> path, local |-> local]

PlainComponent ==
    [name |-> "app", copied |-> "c", image |-> "image", required |-> "unset", import |-> "",
     health |-> <<>>, scripts |-> NoScripts, removed |-> FALSE,
     repo |-> [url |-> "git", ref |-> ""],
     chart |-> [at |-> At("", "", "", "", "path"), plain |-> <<>>, templated |-> <<>>,
                schema |-> "unset", ns |-> "a"],
     manifest |-> [template |-> "unset", ns |-> "a"],
     onCreate |-> <<>>, before |-> <<>>, after |-> <<>>, success |-> <<Do("done")>>]
PlainAlpha ==
    [api |-> "v1alpha1", kind |-> "ZarfPackageConfig", copied |-> "p", url |-> "", note |-> "",
     override |-> "unset", checksum |-> "", signed |-> "unset", provenance |-> {},
     requirements |-> {}, migrations |-> {}, component |-> PlainComponent]

Sources ==
    {At("http", "", "tag", "", ""), At("http", "tag", "tag", "", ""),
     At("http", "tag", "", "dir", ""), At("oci", "", "tag", "", ""),
     At("oci", "digest", "", "", ""), At("git", "refs/heads/branch", "", "dir", ""),
     At("git", "", "commit", "", ""), At("git", "tag", "tag", "dir", "")}

\* One aspect of a v1alpha1 package set to something else.
VaryAlpha(p) ==
    {[p EXCEPT !.kind = ""], [p EXCEPT !.kind = "ZarfInitConfig", !.component.name = "zarf-registry"],
     [p EXCEPT !.api = ""], [p EXCEPT !.url = "u"], [p EXCEPT !.note = "n"]} \cup
    {[p EXCEPT !.override = t] : t \in OptionalBool} \cup
    {[p EXCEPT !.component.name = "zarf-registry"], [p EXCEPT !.component.removed = TRUE],
     [p EXCEPT !.component.import = "other"]} \cup
    {[p EXCEPT !.component.required = t] : t \in OptionalBool} \cup
    {[p EXCEPT !.component.manifest.template = t] : t \in OptionalBool} \cup
    {[p EXCEPT !.component.chart.schema = t] : t \in OptionalBool} \cup
    {[p EXCEPT !.component.chart.at = s] : s \in Sources} \cup
    {[p EXCEPT !.component.repo.ref = r] : r \in {"tag", "commit", "refs/heads/branch"}} \cup
    {[p EXCEPT !.component.chart.plain = <<"p">>, !.component.chart.templated = <<"t">>],
     [p EXCEPT !.component.health = <<"health">>],
     [p EXCEPT !.component.chart.ns = "b"],
     [p EXCEPT !.component.scripts = [prepare |-> <<"s1">>, before |-> <<"s2">>, after |-> <<"s3">>]],
     [p EXCEPT !.component.after = <<Do("after"), WaitFor("", "a")>>],
     [p EXCEPT !.component.before = <<[Do("set") EXCEPT !.setVar = "V"]>>],
     [p EXCEPT !.component.success = <<WaitFor("", "a"), Do("done"), WaitFor("ready", "b")>>]}

\* And of a v1beta1 package.
PlainBeta == BetaFromGeneric(AlphaToGeneric(PlainAlpha))
BetaSources ==
    {[type |-> "helm", url |-> "http", urlRef |-> "", ref |-> "tag", path |-> ""],
     [type |-> "oci", url |-> "oci", urlRef |-> "", ref |-> "tag", path |-> ""],
     [type |-> "oci", url |-> "oci", urlRef |-> "", ref |-> "digest", path |-> ""]} \cup
    {[type |-> "git", url |-> "git", urlRef |-> "", ref |-> r, path |-> "dir"] :
        r \in {"none", "tag", "commit", "branch"}}
VaryBeta(p) ==
    {[p EXCEPT !.note = "n"], [p EXCEPT !.prevent = TRUE], [p EXCEPT !.component.optional = FALSE],
     [p EXCEPT !.component.service = "registry"], [p EXCEPT !.component.image.source = "daemon"],
     [p EXCEPT !.component.import = <<"other">>], [p EXCEPT !.component.manifest.templating = TRUE],
     [p EXCEPT !.component.chart.skipSchema = TRUE], [p EXCEPT !.component.chart.ns = "b"],
     [p EXCEPT !.component.chart.values = <<[path |-> "t", templating |-> TRUE],
                                           [path |-> "p", templating |-> FALSE]>>],
     [p EXCEPT !.component.success = <<WaitFor("", "a"), Do("done")>>]} \cup
    {[p EXCEPT !.component.chart.source = s] : s \in BetaSources} \cup
    {[p EXCEPT !.component.repo = [url |-> "git", urlRef |-> u, ref |-> r]] :
        u \in {"", "tag"}, r \in {"nil", "none", "commit", "branch"}}

AllAlpha == UNION {VaryAlpha(p) : p \in VaryAlpha(PlainAlpha)}
AllBeta == UNION {VaryBeta(p) : p \in VaryBeta(PlainBeta)}
=============================================================================
