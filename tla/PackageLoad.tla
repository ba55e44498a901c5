----------------------------- MODULE PackageLoad ----------------------------
(***************************************************************************)
(* From the definition in a directory to the components a command works    *)
(* on: load.PackageDefinition reads it, resolves its imports, fills in its *)
(* templates and validates the outcome; a filter then chooses components,  *)
(* and a deployment resolves their values.                                 *)
(***************************************************************************)
EXTENDS PackageImport, ComponentFilter, PackageValues

CONSTANTS
    Worlds,         \* what may lie in the directories and in the registry
    Requests,       \* lists of components a user may ask for
    LocalOS,        \* the operating system of the command
    SetVariables    \* the templates given with --set

ASSUME LoadAssumption ==
    /\ {HeadLoc, Cache} \subseteq DOMAIN At /\ Loc \subseteq DOMAIN At
    /\ \A w \in Worlds : HeadLoc \in DOMAIN w.docs

VARIABLE chosen     \* the filter of the command and what it kept

-----------------------------------------------------------------------------
(***************************************************************************)
(* The validation of a package after its imports are resolved, in both     *)
(* versions of the API: every error is collected.                          *)
(***************************************************************************)

UniqueNames(seq) == \A i, j \in DOMAIN seq : seq[i].name = seq[j].name => i = j

\* A wait is for one thing, a resource or an address, and runs no command.
validateAction(a) == \A w \in a.wait : ~a.cmd /\ Cardinality(w) = 1

All(seq, Test(_)) == \A i \in DOMAIN seq : Test(seq[i])

hasSetVariables(actions) == ~All(actions, LAMBDA a : ~a.sets)
hasTemplating(actions) == ~All(actions, LAMBDA a : ~a.templated)

validateActionSet(actions) == All(actions, validateAction)

\* Variables are set on deploy only, and onCreate renders nothing.
validateActions(c) ==
    /\ validateActionSet(c.onCreate.list) /\ validateActionSet(c.onDeploy)
    /\ validateActionSet(c.onRemove)
    /\ ~hasSetVariables(c.onCreate.list) /\ ~hasTemplating(c.onCreate.list)
    /\ ~hasSetVariables(c.onRemove)

validateActionsV1Beta1(c) ==
    /\ validateActionSet(c.onCreate.list) /\ validateActionSet(c.onDeploy)
    /\ validateActionSet(c.onRemove)
    /\ ~hasSetVariables(c.onCreate.list) /\ ~hasTemplating(c.onCreate.list)

\* A URL or a local path, not both, and a namespace.
validateChart(ch) == ch.ns # "" /\ Cardinality(ch.url) + Cardinality(ch.local) = 1

validateManifest(m) == m.files # << >>

InGroup(components, g) == {i \in DOMAIN components : components[i].group = g}

\* A package without an air gap brings no images or repositories and asks for
\* no architecture or distribution; an init package is never one.
validateYOLO(pkg) ==
    pkg.yolo => ~pkg.init /\ All(pkg.components, LAMBDA c : ~c.airgap /\ c.arch = "")

ValidatePackage(pkg) ==
    /\ pkg.components # << >> /\ UniqueNames(pkg.components)
    /\ validateYOLO(pkg)
    /\ All(pkg.components, LAMBDA c :
          /\ c.required => ~c.default /\ c.group = ""
          /\ UniqueNames(c.charts) /\ All(c.charts, validateChart)
          /\ UniqueNames(c.manifests) /\ All(c.manifests, validateManifest)
          /\ validateActions(c)
          /\ c.group # "" =>
                LET members == InGroup(pkg.components, c.group)
                IN  /\ Cardinality(members) > 1
                    /\ Cardinality({k \in members : pkg.components[k].default}) <= 1)

\* A v1beta1 package has no groups.
ValidatePackageV1Beta1(pkg) ==
    /\ pkg.components # << >> /\ UniqueNames(pkg.components)
    /\ All(pkg.components, LAMBDA c :
          /\ UniqueNames(c.charts) /\ All(c.charts, LAMBDA ch : ch.ns # "")
          /\ UniqueNames(c.manifests) /\ All(c.manifests, validateManifest)
          /\ validateActionsV1Beta1(c))

\* What the schema asks of the outcome of the imports: one source per chart.
validatePackageSchemaV1Beta1(pkg) ==
    All(pkg.components, LAMBDA c :
        All(c.charts, LAMBDA ch : Cardinality(ch.url) + Cardinality(ch.local) = 1))

-----------------------------------------------------------------------------
vars == <<importVars, chosen, dep>>

NoChoice == [mode |-> "none", requests |-> << >>, yes |-> {}, result |-> Kept(<< >>)]

HeadDoc == docs[HeadLoc]

Init ==
    /\ \E w \in Worlds : docs = w.docs /\ skeleton = w.skeleton
    /\ loading = "read" /\ stack = << >> /\ chosen = NoChoice /\ dep = NoDeploy
    /\ resolved = [components |-> << >>, vars |-> << >>, files |-> << >>, schemas |-> << >>]

\* The file is parsed in its own version and checked against its schema.
ReadDefinition ==
    /\ loading = "read"
    /\ IF HeadDoc.schemaValid
       THEN /\ loading' = "importing" /\ stack' = <<Frame(HeadLoc, HeadDoc.components)>>
            /\ UNCHANGED <<docs, skeleton, resolved>>
       ELSE ImportFails
    /\ UNCHANGED <<chosen, dep>>

ResolveImports ==
    /\ IF HeadDoc.version = "v1alpha1" THEN ImportStep ELSE ImportStepV1Beta1
    /\ UNCHANGED <<chosen, dep>>

\* The names of components are filled in first; the other templates must be
\* given unless the user can be asked.  Values files need their feature.  The
\* publishing of a skeleton gives no templates, and none is filled in.
fillActiveTemplate ==
    /\ loading = "composed" /\ HeadDoc.version = "v1alpha1"
    /\ \E filling \in BOOLEAN :
          IF \/ resolved.files # << >> /\ ~HeadDoc.valuesEnabled
             \/ /\ filling /\ ~HeadDoc.interactive
                /\ ~All(resolved.components, LAMBDA c : c.templates \subseteq SetVariables)
          THEN ImportFails
          ELSE /\ loading' = "filled"
               /\ resolved' = [resolved EXCEPT !.components = [i \in DOMAIN @ |->
                        [@[i] EXCEPT !.templates = IF filling THEN {} ELSE @]]]
               /\ UNCHANGED <<docs, skeleton, stack>>
    /\ UNCHANGED <<chosen, dep>>

Package == [components |-> resolved.components, yolo |-> HeadDoc.yolo, init |-> HeadDoc.init]

validateV1alpha1 ==
    /\ loading = "filled"
    /\ IF ValidatePackage(Package)
       THEN loading' = "valid" /\ UNCHANGED <<docs, skeleton, stack, resolved>>
       ELSE ImportFails
    /\ UNCHANGED <<chosen, dep>>

validateV1Beta1 ==
    /\ loading = "composed" /\ HeadDoc.version = "v1beta1"
    /\ IF ValidatePackageV1Beta1(Package) /\ validatePackageSchemaV1Beta1(Package)
       THEN loading' = "valid" /\ UNCHANGED <<docs, skeleton, stack, resolved>>
       ELSE ImportFails
    /\ UNCHANGED <<chosen, dep>>

\* The values are checked against the schemas, the package's own one winning
\* over the imported ones, when there are both.
validateValuesSchema ==
    /\ loading = "valid"
    /\ IF /\ HeadDoc.schema \/ resolved.schemas # << >>
          /\ resolved.files # << >> /\ ~HeadDoc.valuesFit
       THEN ImportFails
       ELSE loading' = "loaded" /\ UNCHANGED <<docs, skeleton, stack, resolved>>
    /\ UNCHANGED <<chosen, dep>>

Composites == IF loading \in {"read", "importing", "failed"} THEN {}
              ELSE {resolved.components[i] : i \in DOMAIN resolved.components}

Choose(mode, requests, yes, result) ==
    /\ chosen' = [mode |-> mode, requests |-> requests, yes |-> yes, result |-> result]
    /\ loading' = IF result.err = "" THEN "filtered" ELSE "failed"
    /\ UNCHANGED <<docs, skeleton, stack, resolved, dep>>

ForLocalOS == ByLocalOS(resolved.components, LocalOS)
LocalComponents == At1(resolved.components, ForLocalOS.indices)

\* zarf package deploy, confirmed or with prompts.
FilterForDeploy ==
    /\ loading = "loaded"
    /\ \E requests \in Requests, yes \in SUBSET {c.name : c \in Composites},
          mode \in {"plain", "prompt", "requests"} :
          /\ (mode = "requests") = (requests # << >>)
          /\ mode # "prompt" => yes = {}
          /\ Choose(mode, requests, yes,
                Combine(ForLocalOS, ForDeploy(LocalComponents, mode, requests, yes)))

\* zarf package remove, mirror and inspect.
FilterBySelectState ==
    /\ loading = "loaded"
    /\ \E requests \in Requests :
          Choose("select", requests, {},
                 Combine(ForLocalOS, BySelectState(LocalComponents, requests)))

ToDeploy == [i \in DOMAIN chosen.result.indices |-> resolved.components[chosen.result.indices[i]]]
FileTrees == [i \in DOMAIN resolved.files |-> resolved.files[i].tree]

\* Deployments are followed where there are values to resolve.
UsesValues == \E c \in ToSet(ToDeploy) : c.onDeploy # << >> \/ componentFileSources(c) # {}

\* Deploy up to its first component: values and the check of the references.
StartDeploy ==
    /\ loading = "filtered" /\ chosen.mode # "select" /\ UsesValues
    /\ \E g \in Given : \E order \in Orders(g.flags) :
          LET overrides == parseValues(g.files, order)
              vals == loadDeploymentValues(ParseFiles(FileTrees), overrides.vals)
          IN  IF \/ overrides.err
                 \/ ~HeadDoc.valuesEnabled /\ (FileTrees # << >> \/ overrides.vals # Empty)
                 \/ ~validateTemplateRefs(ToDeploy, vals)
              THEN loading' = "failed" /\ UNCHANGED dep
              ELSE /\ loading' = "deploying"
                   /\ dep' = [NoDeploy EXCEPT !.phase = "before", !.vals = vals, !.flags = g.flags]
    /\ UNCHANGED <<docs, skeleton, stack, resolved, chosen>>

DeployStep ==
    /\ loading = "deploying"
    /\ RunAction(ToDeploy) \/ DeployResources(ToDeploy)
    /\ UNCHANGED <<importVars, chosen>>

Next ==
    \/ ReadDefinition \/ ResolveImports \/ fillActiveTemplate
    \/ validateV1alpha1 \/ validateV1Beta1 \/ validateValuesSchema
    \/ FilterForDeploy \/ FilterBySelectState
    \/ StartDeploy \/ DeployStep

Spec == Init /\ [][Next]_vars

-----------------------------------------------------------------------------
\* The states of a load, the frames of the calls and indices of the package.
TypeOK ==
    /\ loading \in {"read", "importing", "composed", "filled", "valid",
                    "loaded", "filtered", "deploying", "failed"}
    /\ dep.comp = 1 \/ dep.comp \in DOMAIN chosen.result.indices
    /\ \A p \in DOMAIN dep.vals : p # << >> /\ \A n \in 1 .. Len(p) - 1 :
          SubSeq(p, 1, n) \in DOMAIN dep.vals /\ dep.vals[SubSeq(p, 1, n)] = "map"
    /\ \A i \in DOMAIN stack : stack[i].loc \in Loc
    /\ \A i \in DOMAIN chosen.result.indices :
          chosen.result.indices[i] \in DOMAIN resolved.components

Right(p) == p.remote \/ At[HeadLoc] + p.at = At[p.of]

\* import.go fixPaths, import_v1beta1_merge.go fixPathsV1Beta1: however long the
\* chain, every file of every component, and every values file and schema, is
\* found from the directory of the package that is loaded.
FilesResolve ==
    /\ \A c \in Composites :
          /\ All(c.items, Right)
          /\ All(c.charts, LAMBDA ch : All(ch.values, Right) /\ \A p \in ch.local : Right(p))
          /\ All(c.manifests, LAMBDA m : All(m.files, Right))
    /\ Composites # {} => All(resolved.files, Right) /\ All(resolved.schemas, Right)

\* The components a component is composed of, the furthest import first.
RECURSIVE Chain(_)
Chain(c) ==
    LET fits(components, name) ==
            SelectSeq(components, LAMBDA x : compatibleComponent(x) /\ x.name = name)[1]
        imported ==
            IF HeadDoc.version = "v1beta1"
            THEN {x \in {docs[l].components[1] : l \in ToSet(c.import.local)} : compatibleComponent(x)}
            ELSE {fits(docs[to.loc].components, getComponentToImportName(c)) : to \in c.import.path}
                 \union {fits(skeleton.components, getComponentToImportName(c)) : u \in {c.import.url} \ {FALSE}}
    IN  IF imported = {} THEN <<c>> ELSE Append(Chain(CHOOSE x \in imported : TRUE), c)

Heads == SelectSeq(HeadDoc.components, compatibleComponent)
ImportsItself == \E c \in ToSet(Heads) : ToSet(Front(Chain(c))) \intersect ToSet(HeadDoc.components) # {}

Origins(paths) == [i \in DOMAIN paths |-> paths[i].of]
Each(chain, List(_)) == FlattenSeq([i \in DOMAIN chain |-> List(chain[i])])
Named(entries, name) == SelectSeq(entries, LAMBDA e : e.name = name)

\* The last of the chain to say something has said it.
Nearest(said, nothing) ==
    LET some == SelectSeq(said, LAMBDA s : s # nothing)
    IN  IF some = << >> THEN nothing ELSE Last(some)

\* A merged entry against the entries of its name along the chain.
SameEntry(e, parts, Files(_)) ==
    /\ Origins(Files(e)) = Each(parts, LAMBDA p : Origins(Files(p)))
    /\ e.ns = Nearest([i \in DOMAIN parts |-> parts[i].ns], "")

SameEntries(merged, chain, List(_), Files(_)) ==
    /\ UniqueNames(merged)
    /\ {merged[i].name : i \in DOMAIN merged} = {e.name : e \in ToSet(Each(chain, List))}
    /\ All(merged, LAMBDA e : SameEntry(e, Named(Each(chain, List), e.name), Files))

\* The source of a chart: of a v1alpha1 chart only its URL can be replaced.
SourceOf(chart, parts) ==
    LET origins(local) == {p.of : p \in local}
    IN  /\ chart.maps = Each(parts, LAMBDA p : p.maps)
        /\ chart.url = Nearest([i \in DOMAIN parts |-> parts[i].url], {})
        /\ origins(chart.local) = origins(
              IF HeadDoc.version = "v1alpha1" THEN parts[1].local
              ELSE Nearest([i \in DOMAIN parts |-> parts[i].local], {}))

ChainCharts(c) == c.charts
ChainManifests(c) == c.manifests
ValuesOf(chart) == chart.values
FilesOf(manifest) == manifest.files

\* import.go overrideResources, import_v1beta1_merge.go mergeComponentSpec:
\* composing neither loses, doubles nor reorders what the components of a chain
\* declare, and of two answers the importing one's counts.  The exception is the
\* code's: in v1alpha1 the local path of an importing chart is dropped when the
\* imported component has a chart of that name (import.go:456-472).
ComposedOnce ==
    Composites # {} =>
        /\ Len(resolved.components) = Len(Heads)
        /\ \A i \in DOMAIN Heads :
              LET c == resolved.components[i]
                  chain == Chain(Heads[i])
              IN  /\ c.name = Heads[i].name
                  /\ Origins(c.items) = Each(chain, LAMBDA x : Origins(x.items))
                  /\ Origins(c.onCreate.list) = Each(chain, LAMBDA x : Origins(x.onCreate.list))
                  /\ SameEntries(c.charts, chain, ChainCharts, ValuesOf)
                  /\ SameEntries(c.manifests, chain, ChainManifests, FilesOf)
                  /\ All(c.charts, LAMBDA ch :
                        SourceOf(ch, Named(Each(chain, ChainCharts), ch.name)))

\* import.go fixActionPaths: an onCreate action that names its directory, or
\* whose component names a default one, runs there, whoever imports it.
ActionsKeepDirs ==
    \A c \in Composites : All(c.onCreate.list, LAMBDA a :
        a.want # {} => LET dirs == IF a.dir # {} THEN a.dir
                                   ELSE IF HeadDoc.version = "v1alpha1" THEN {c.onCreate.defaultDir}
                                   ELSE c.onCreate.defaultDir
                       IN  {At[HeadLoc] + d : d \in dirs} = {At[a.of] + d : d \in a.want})

\* Whatever the chain of imports, the composed package is what its parts declare:
\* files found, resources neither lost nor doubled, actions where they belong.
ImportsResolve == FilesResolve /\ ComposedOnce /\ ActionsKeepDirs

\* import.go:203, import_v1beta1.go:55: of the values files the package's own
\* come last, where they win, unless an import brings the same file, as every
\* import does that leads back to the package by the path of its file.
OwnValuesWin ==
    Composites # {} /\ ~ImportsItself =>
        \A i, j \in DOMAIN resolved.files :
            /\ resolved.files[i].of = HeadLoc /\ resolved.files[j].of # HeadLoc
            /\ ~Contains(HeadDoc.files, resolved.files[j])
            => j < i

Selected == {resolved.components[chosen.result.indices[i]] : i \in DOMAIN chosen.result.indices}
ForThisOS == {c \in Composites : c.os \in {"", LocalOS}}
Deploying == loading = "filtered" /\ chosen.mode \in {"plain", "prompt", "requests"}
GroupNames == {c.group : c \in Composites} \ {""}

\* deploy.go Apply: every required component is deployed, whatever was asked
\* for, unless it has the name of a group of other components.
RequiredIsDeployed ==
    Deploying => {c \in ForThisOS : c.required /\ c.name \notin GroupNames} \subseteq Selected

\* deploy.go Apply, strat.go comboFilter: of a group one component is deployed,
\* every one of them is for this operating system, and none twice.
OnePerGroup ==
    Deploying =>
        /\ Selected \subseteq ForThisOS
        /\ IsInjective(chosen.result.indices)
        /\ \A c, d \in Selected : c.group # "" /\ c.group = d.group => c = d

\* utils.go includedOrExcluded: what a request excludes is left out when it is
\* optional, whatever other requests include.
ExcludedIsLeftOut ==
    loading = "filtered" /\ chosen.requests # << >> =>
        \A c \in Selected, i \in DOMAIN chosen.requests :
            /\ chosen.requests[i].not /\ c.name \in chosen.requests[i].names
            => c.required /\ chosen.mode = "requests"

\* Whatever was asked for and answered, the selection has every required
\* component, one of each group and nothing that was excluded.
SelectionIsRight == RequiredIsDeployed /\ OnePerGroup /\ ExcludedIsLeftOut

\* values_preflight.go:24: no template fails for a missing value in the middle
\* of a deployment, except one that refers to a part of what a command printed,
\* or to a value that only an onFailure action or a wait declares: the check
\* counts the setValues of both, and a wait sets none (actions.go:62).
NoLateMissingKey ==
    \A r \in dep.missing :
        \/ \E k \in dep.printed : IsStrictPrefix(k, r)
        \/ \E c \in ToSet(ToDeploy) : \E a \in ToSet(c.onDeploy) :
              /\ a.at = "failure" \/ a.wait # {}
              /\ \E s \in ToSet(a.setValues) : IsPrefix(s.key, r)

\* dev.go parseValues, deploy.go loadDeploymentValues: a value given with
\* --set-values is what a component gets, whatever files say, unless another
\* flag or an action sets something above or below it.
FlagsWin ==
    loading = "deploying" =>
        \A f \in dep.flags :
            \/ \E o \in (dep.flags \ {f}) \union dep.printed : IsPrefix(o, f) \/ IsPrefix(f, o)
            \/ Found(dep.vals, f) /\ dep.vals[f] = "flag"

\* Of two values for one key the nearer one wins: the importing package's over
\* the imported one's, the user's over the package's.
NearestWins == OwnValuesWin /\ FlagsWin
=============================================================================
