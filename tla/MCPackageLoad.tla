---------------------------- MODULE MCPackageLoad ---------------------------
(***************************************************************************)
(* Small worlds for PackageLoad: three directories or config files that    *)
(* import each other in every way, and packages without imports whose      *)
(* components cover the combinations the filters tell apart.               *)
(***************************************************************************)
EXTENDS PackageLoad

MCLoc == {"A", "B", "C"}
MCAt == [A |-> 1, B |-> 10, C |-> 100, cache |-> 1000]

File(l) == [of |-> l, at |-> 0, remote |-> FALSE, refs |-> {}, tree |-> Empty]
FarFile(l, from) == [File(l) EXCEPT !.at = MCAt[l] - MCAt[from]]
NoImport == [path |-> {}, url |-> FALSE, bad |-> FALSE, name |-> ""]
Path(l) == [NoImport EXCEPT !.path = {[loc |-> l, file |-> FALSE]}]
PathOfFile(l) == [NoImport EXCEPT !.path = {[loc |-> l, file |-> TRUE]}]
Local(ls) == [local |-> ls, bad |-> FALSE]

Act(l, dir, want) ==
    [of |-> l, dir |-> dir, want |-> want, cmd |-> TRUE, wait |-> {},
     sets |-> FALSE, templated |-> FALSE, at |-> "", refs |-> {}, setValues |-> << >>]

Chart(l, full) ==
    [name |-> "chart", ns |-> IF full THEN "ns" ELSE "", values |-> <<File(l)>>,
     url |-> {}, local |-> IF full THEN {File(l)} ELSE {}, maps |-> << >>]

Component(l) ==
    [name |-> "x", arch |-> "", flavor |-> "", os |-> "", required |-> TRUE,
     default |-> FALSE, group |-> "", airgap |-> FALSE, templates |-> {},
     import |-> NoImport, items |-> <<File(l)>>, charts |-> << >>,
     manifests |-> <<[name |-> "manifest", ns |-> "", files |-> <<File(l)>>]>>,
     onCreate |-> [defaultDir |-> 0, list |-> <<Act(l, {}, {0})>>],
     onDeploy |-> << >>, onRemove |-> << >>]

Doc(components) ==
    [components |-> components, vars |-> <<[name |-> "v"]>>, files |-> << >>,
     schema |-> FALSE, schemaValid |-> TRUE, config |-> FALSE, version |-> "v1alpha1",
     valuesEnabled |-> TRUE, valuesFit |-> TRUE, interactive |-> FALSE,
     yolo |-> FALSE, init |-> FALSE]

BetaDoc(cs) == [Doc(cs) EXCEPT !.version = "v1beta1", !.vars = << >>]

NoSkeleton == [published |-> FALSE, versionMet |-> TRUE, components |-> << >>,
               vars |-> << >>, files |-> << >>, schemas |-> << >>]
Skeletons ==
    {NoSkeleton,
     [NoSkeleton EXCEPT !.published = TRUE,
                        !.components = <<[Component("cache") EXCEPT !.charts = <<Chart("cache", TRUE)>>]>>],
     [NoSkeleton EXCEPT !.published = TRUE, !.components = <<Component("cache")>>,
                        !.schemas = <<File("cache")>>]}

\* v1alpha1: the head imports by path or URL under another name, with a chart
\* or a default directory of its own; the others may close a cycle, be for
\* another flavor or exist in two flavors.
HeadComponents ==
    {[Component("A") EXCEPT !.import = i, !.name = n, !.charts = ch,
                            !.onCreate.defaultDir = d, !.onCreate.list = <<Act("A", {}, {d})>>] :
        i \in {Path("B"), PathOfFile("B"), Path("nowhere"), [NoImport EXCEPT !.url = TRUE]},
        n \in {"x"}, d \in {0, 3},
        ch \in {<< >>, <<Chart("A", TRUE)>>, <<[Chart("A", FALSE) EXCEPT !.url = {"repository"}]>>}}

ImportedComponents(l, imports) ==
    {[Component(l) EXCEPT !.import = i, !.flavor = f, !.charts = <<Chart(l, TRUE)>>] :
        i \in {NoImport} \union imports, f \in {"", "g"}}

AlphaHeads ==
    {[Doc(<<c>> \o more) EXCEPT !.files = fs] :
        c \in HeadComponents,
        more \in {<< >>, <<[Component("A") EXCEPT !.name = "y", !.templates = {"T"},
                               !.import = [Path("C") EXCEPT !.name = "x"]]>>},
        fs \in {<< >>, <<FarFile("B", "A"), File("A")>>}}
    \union {[Doc(<<Component("A")>>) EXCEPT !.schemaValid = FALSE]}

AlphaImports(l, imports) ==
    {[Doc(cs) EXCEPT !.files = <<File(l)>>, !.schema = TRUE] :
        cs \in {<<c>> : c \in ImportedComponents(l, imports)}
               \union {<<c, [Component(l) EXCEPT !.flavor = "f"]>> : c \in ImportedComponents(l, {})}}

AlphaWorlds ==
    {[docs |-> [A |-> a, B |-> b, C |-> c], skeleton |-> s] :
        a \in AlphaHeads, b \in AlphaImports("B", {Path("A"), PathOfFile("A"), Path("C")}),
        c \in AlphaImports("C", {Path("B")}) \union {BetaDoc(<<Component("C")>>)},
        s \in Skeletons}

\* v1beta1: variants by flavor, chains and cycles of configs.
BetaComponent(l, imports) ==
    {[Component(l) EXCEPT !.import = Local(i), !.charts = <<Chart(l, TRUE)>>,
                          !.onCreate.defaultDir = d,
                          !.onCreate.list = <<Act(l, {}, d), Act(l, {2}, {2})>>] :
        i \in imports, d \in {{}, {3}}}

BetaWorlds ==
    {[docs |-> [A |-> [BetaDoc(<<a>>) EXCEPT !.files = <<File("A")>>],
                B |-> [BetaDoc(<<[b EXCEPT !.flavor = fb]>>) EXCEPT !.config = TRUE, !.files = <<File("B")>>],
                C |-> [BetaDoc(<<[c EXCEPT !.flavor = fc]>>) EXCEPT !.config = TRUE, !.schema = TRUE]],
      skeleton |-> NoSkeleton] :
        a \in BetaComponent("A", {<< >>, <<"B">>, <<"B", "C">>, <<"A">>}),
        b \in BetaComponent("B", {<< >>, <<"C">>, <<"B">>}),
        c \in BetaComponent("C", {<< >>, <<"B">>}),
        fb \in {"", "g"}, fc \in {"", "g"}}

\* Three components without imports, for the filters.
Roles == {[required |-> TRUE, default |-> FALSE, group |-> ""],
          [required |-> FALSE, default |-> FALSE, group |-> ""],
          [required |-> FALSE, default |-> TRUE, group |-> ""],
          [required |-> FALSE, default |-> FALSE, group |-> "g"],
          [required |-> FALSE, default |-> TRUE, group |-> "g"]}

Play(name, role, os) ==
    [Component("A") EXCEPT !.name = name, !.required = role.required,
        !.default = role.default, !.group = role.group, !.os = os]

FlatWorlds ==
    {[docs |-> [l \in MCLoc |-> Doc(<<Play("a", r1, os1), Play("b", r2, os2), Play("c", r3, "")>>)],
      skeleton |-> NoSkeleton] :
        r1 \in Roles, r2 \in Roles, r3 \in Roles, os1 \in {"", "other"}, os2 \in {"", "other"}}

\* Two components: an action of the optional one, perhaps imported, sets a value
\* that one of them refers to.
K == <<"k">>
AB == <<"a", "b">>
Map1(key) == [r \in {<< >>, <<key>>} |-> IF r = << >> THEN "map" ELSE "printed"]
Settings == {[key |-> K, out |-> Scalar("printed")], [key |-> K, out |-> Map1("z")],
             [key |-> << >>, out |-> Map1("k")], [key |-> <<"a">>, out |-> Scalar("printed")],
             [key |-> AB, out |-> Scalar("printed")]}

Setter(at, s) == [Act("A", {}, {}) EXCEPT !.at = at, !.setValues = <<s>>]
WaitSetter(at, s) == [Setter(at, s) EXCEPT !.cmd = FALSE, !.wait = {{"cluster"}}]
Reader(at, ref) == [Act("A", {}, {}) EXCEPT !.at = at, !.templated = TRUE, !.refs = {ref}]

Refer(c, where, ref) ==
    IF where = "file" THEN [c EXCEPT !.items = <<[File("A") EXCEPT !.refs = {ref}]>>]
    ELSE IF where = "map"
    THEN [c EXCEPT !.charts = <<[Chart("A", TRUE) EXCEPT !.maps =
                <<[source |-> <<"a">>, target |-> K, exclude |-> <<AB>>],
                  [source |-> ref, target |-> AB, exclude |-> << >>]>>]>>]
    ELSE [c EXCEPT !.onDeploy = Append(@, Reader(where, ref))]

Optional == Play("a", [required |-> FALSE, default |-> TRUE, group |-> ""], "")
Needed == Play("b", [required |-> TRUE, default |-> FALSE, group |-> ""], "")

PackageTrees ==
    {Empty, [p \in {<<"a">>, AB} |-> IF p = AB THEN "package" ELSE "map"],
     [p \in {<<"a">>} |-> "package"]}

ValueComponents ==
    UNION {
      {<<Refer([Optional EXCEPT !.onDeploy = <<Setter(at, s)>>], where, ref), Needed>> :
          at \in {"before", "after", "failure"}, s \in Settings,
          where \in {"file", "success"}, ref \in {<<"k", "z">>}},
      {<<[Optional EXCEPT !.onDeploy = <<a>>], Refer(Needed, where, ref)>> :
          a \in {Setter(at, s) : at \in {"before", "failure"}, s \in Settings}
                 \union {WaitSetter("before", [key |-> K, out |-> Scalar("printed")])},
          where \in {"file", "failure", "map"}, ref \in {K, AB}}}

ValueWorlds ==
    {[docs |-> [l \in MCLoc |-> [Doc(cs) EXCEPT !.files = <<[File(l) EXCEPT !.tree = t]>>]],
      skeleton |-> NoSkeleton] : cs \in ValueComponents, t \in PackageTrees}

Gift(files, flags) == [files |-> files, flags |-> flags]
MCGiven ==
    {Gift(<< >>, {}), Gift(<<[p \in {K} |-> "user"]>>, {}),
     Gift(<<[p \in {<<"a">>} |-> "user"], [p \in {<<"a">>, AB} |-> IF p = AB THEN "user" ELSE "map"]>>,
          {AB, K}),
     Gift(<< >>, {<<"a">>, AB})}

MCWorlds == AlphaWorlds \union BetaWorlds \union FlatWorlds \union ValueWorlds

Ask(ns) == [not |-> FALSE, names |-> ns]
Deny(ns) == [not |-> TRUE, names |-> ns]
MCRequests == {<< >>, <<Ask({"a"})>>, <<Ask({"a", "b", "c"})>>, <<Ask({"b"}), Ask({"c"})>>,
               <<Deny({"a"})>>, <<Ask({"a", "b", "c"}), Deny({"b"})>>}
MCSetVariables == {"T"}

=============================================================================
