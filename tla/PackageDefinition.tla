-------------------------- MODULE PackageDefinition -------------------------
(***************************************************************************)
(* The life of a zarf.yaml: it is written by an author in one API version, *)
(* parsed, changed in memory by create, sign and deploy, written again     *)
(* (in both versions, when it was authored as v1beta1) and parsed again by *)
(* this Zarf or by one that knows v1alpha1 only.  It may also be upgraded  *)
(* from v1alpha1 to v1beta1 by zarf dev upgrade-schema.                    *)
(***************************************************************************)
EXTENDS PackageConvert

CONSTANTS
    AlphaPackages,  \* the v1alpha1 documents an author may write
    BetaPackages,   \* the v1beta1 documents
    MaxWrites       \* bound: how often the file is written again

-----------------------------------------------------------------------------
(* The documents.                                                          *)

OptionalBool == {"unset", "true", "false"}
Action == [cmd : STRING, wait : STRING, ns : STRING, setVar : STRING, setVars : SUBSET STRING]
Scripts == [prepare : Seq(STRING), before : Seq(STRING), after : Seq(STRING)]
Location == [url : STRING, ref : STRING, version : STRING, gitPath : STRING, local : STRING]
Source == [type : STRING, url : STRING, urlRef : STRING, ref : STRING, path : STRING]
ValuesFile == [path : STRING, templating : BOOLEAN]

AlphaComponent ==
    [name : STRING, copied : STRING, image : STRING, required : OptionalBool, import : STRING,
     health : Seq(STRING), scripts : Scripts, removed : BOOLEAN,
     repo : [url : STRING, ref : STRING],
     chart : [at : Location, plain : Seq(STRING), templated : Seq(STRING),
              schema : OptionalBool, ns : STRING],
     manifest : [template : OptionalBool, ns : STRING],
     onCreate : Seq(Action), before : Seq(Action), after : Seq(Action), success : Seq(Action)]

BetaComponent ==
    [name : STRING, copied : STRING, image : [name : STRING, source : STRING], service : STRING,
     optional : BOOLEAN, import : Seq(STRING),
     repo : [url : STRING, urlRef : {"", "tag", "commit", "refs/heads/branch"}, ref : STRING],
     chart : [source : Source, values : Seq(ValuesFile), skipSchema : BOOLEAN, ns : STRING],
     manifest : [templating : BOOLEAN, ns : STRING],
     onCreate : Seq(Action), before : Seq(Action), success : Seq(Action)]

AlphaPackage ==
    [api : {"", "v1alpha1"}, kind : {"", "ZarfPackageConfig", "ZarfInitConfig"}, copied : STRING,
     url : STRING, note : STRING, override : OptionalBool, checksum : STRING,
     signed : OptionalBool, provenance : SUBSET STRING, requirements : SUBSET STRING,
     migrations : SUBSET STRING, component : AlphaComponent]

BetaPackage ==
    [kind : {"ZarfPackageConfig"}, copied : STRING, note : STRING, prevent : BOOLEAN,
     checksum : STRING, signed : OptionalBool, provenance : SUBSET STRING,
     requirements : SUBSET STRING, migrations : SUBSET STRING, component : BetaComponent]

\* An action of v1beta1 sets no variables.
SetsNothing(s) == \A i \in DOMAIN s : s[i].setVar = "" /\ s[i].setVars = {}

\* No version of a chart is a digest, and it is Zarf that records the migrations.
ASSUME DefinitionAssumption ==
    /\ MaxWrites \in Nat
    /\ AlphaPackages \subseteq AlphaPackage /\ BetaPackages \subseteq BetaPackage
    /\ \A a \in AlphaPackages :
          a.migrations = {} /\ a.component.chart.at.version # "digest"
    /\ \A b \in BetaPackages : \A l \in {"onCreate", "before", "success"} :
          SetsNothing(b.component[l])

VARIABLES
    file,      \* the documents of the zarf.yaml, by API version
    def,       \* the parsed definition: {} or one generic package
    authored,  \* the file as the author wrote it
    written,   \* {} or what the definition was when it was last written
    moved,     \* "" or the namespace that was overridden
    writes

vars == <<file, def, authored, written, moved, writes>>

-----------------------------------------------------------------------------
Documents(alpha, beta) == [alpha |-> alpha, beta |-> beta]

\* selectDecoder and ParseMultiDoc: v1beta1 has the higher priority; a
\* v1alpha1 document is migrated when it is decoded.
ParseMultiDoc(f) ==
    IF f.beta # {} THEN BetaToGeneric(CHOOSE b \in f.beta : TRUE)
    ELSE AlphaToGeneric(MigrateDeprecated(CHOOSE a \in f.alpha : TRUE))

\* MarshalPackageDefinition.
MarshalPackageDefinition(g) ==
    Documents({AlphaFromGeneric(g)}, IF g.original = "v1beta1" THEN {BetaFromGeneric(g)} ELSE {})

\* runWaitClusterAction calls ForResource, which takes an empty condition as "exists".
EffectiveWait(condition) == IF condition = "" THEN "exists" ELSE condition

ActionLists == {"onCreate", "before", "after", "success"}

Init ==
    /\ \/ \E a \in AlphaPackages : file = Documents({a}, {})
       \/ \E b \in BetaPackages : file = Documents({}, {b})
    /\ authored = file /\ def = {} /\ written = {} /\ moved = "" /\ writes = 0

Parse ==
    /\ def = {}
    /\ def' = {ParseMultiDoc(file)}
    /\ UNCHANGED <<file, authored, written, moved, writes>>

\* The operations of api.PackageDefinition on a parsed definition.
Change(g) == def' = {g} /\ UNCHANGED <<file, authored, written, writes>>

\* SetBuildData, by create: everything about an earlier build is replaced.
SetBuildData(g) ==
    Change([g EXCEPT !.checksum = "sum", !.buildChecksum = "sum", !.signed = "unset",
                     !.provenance = {}, !.requirements = {}]) /\ UNCHANGED moved

\* SetBuildSigned, AddProvenanceFile and AddVersionRequirement, by sign.
SetBuildSigned(g) ==
    Change([g EXCEPT !.signed = "true", !.provenance = @ \cup {"bundle"},
                     !.requirements = @ \cup {"v0.71.0"}]) /\ UNCHANGED moved

\* RemoveImages and RemoveRepositories, by a connected dev deploy.
RemoveSources(g) ==
    /\ Change([g EXCEPT !.component.image = [name |-> "", source |-> ""],
                       !.component.repo = [url |-> "", urlRef |-> "", ref |-> "nil"]])
    /\ UNCHANGED moved

\* uniqueNamespaces.
UniqueNamespaces(g) == {g.component.chart.ns, g.component.manifest.ns}

\* Mutated: waits of onSuccess stay in the old namespace.
OverrideWaitsNotOnSuccess(actions, original, target) ==
    [l \in ActionLists |->
        IF l = "success" THEN actions[l]
        ELSE MapSeq(LAMBDA a : IF a.wait # "none" /\ a.ns = original
                                 THEN [a EXCEPT !.ns = target] ELSE a, actions[l])]

\* overrideActionSetWaitNamespaces for every set of actions.
OverrideWaits(actions, original, target) ==
    [l \in ActionLists |->
        MapSeq(LAMBDA a : IF a.wait # "none" /\ a.ns = original
                            THEN [a EXCEPT !.ns = target] ELSE a, actions[l])]

OverrideNamespace(g, target) ==
    /\ ~g.prevent
    /\ AlphaFromGeneric(g).kind # "ZarfInitConfig"
    /\ Cardinality(UniqueNamespaces(g)) = 1
    /\ LET original == g.component.chart.ns
       IN  /\ Change([g EXCEPT !.component.chart.ns = target, !.component.manifest.ns = target,
                               !.component.actions = OverrideWaits(@, original, target)])
           /\ moved' = IF original = target THEN "" ELSE original

\* WritePackageDefinition; the process ends and another one reads the file.
Write(g) ==
    /\ writes < MaxWrites
    /\ file' = MarshalPackageDefinition(g)
    /\ written' = {AlphaFromGeneric(g)} /\ def' = {} /\ moved' = "" /\ writes' = writes + 1
    /\ UNCHANGED authored

\* checkRemovedFields.
HasRemovedFields(a) ==
    \/ a.component.removed
    \/ \E l \in ActionLists : \E i \in DOMAIN a.component[l] :
          a.component[l][i].setVar # "" \/ a.component[l][i].setVars # {}

\* zarf dev upgrade-schema reads the document as it is, without migrations,
\* and prints it converted; here the author saves what it prints.
UpgradeSchema ==
    /\ def = {} /\ file = authored /\ file.beta = {}
    /\ \E a \in file.alpha :
          /\ ~HasRemovedFields(a)
          /\ file' = Documents({}, {BetaFromGeneric(AlphaToGeneric(a))})
    /\ UNCHANGED <<def, authored, written, moved, writes>>

Next ==
    \/ Parse \/ UpgradeSchema
    \/ \E g \in def :
          \/ SetBuildData(g) \/ SetBuildSigned(g) \/ RemoveSources(g)
          \/ OverrideNamespace(g, "target") \/ Write(g)

Spec == Init /\ [][Next]_vars

-----------------------------------------------------------------------------
\* What a v1alpha1 package makes Zarf do: everything but the deprecated fields
\* that the migrations have replaced, and the record of the migrations.
Behaviour(a) ==
    [component |-> EditActions([a.component EXCEPT !.scripts = NoScripts],
                               LAMBDA x : [x EXCEPT !.setVar = ""]),
     package |-> [a EXCEPT !.migrations = {}, !.component = {}]]

ReadAsAlpha == AlphaFromGeneric(ParseMultiDoc(file))
Authored == AlphaFromGeneric(ParseMultiDoc(authored))

\* A parsed definition is one package of a known kind.
TypeOK ==
    /\ Cardinality(def) <= 1 /\ Cardinality(file.alpha) <= 1 /\ Cardinality(file.beta) <= 1
    /\ \A g \in def : /\ g.original \in {"v1alpha1", "v1beta1"}
                      /\ g.component.optional \in BOOLEAN /\ g.prevent \in BOOLEAN
                      /\ (g.original = "v1beta1") = (file.beta # {})

\* However often a package is written and read again, deploy sees what the
\* process that wrote it had in memory, and a Zarf that knows only v1alpha1
\* reads from its own document the package that this one reads.
WrittenIsRead ==
    /\ \A w \in written : file.alpha # {} => Behaviour(ReadAsAlpha) = Behaviour(w)
    /\ \A a \in file.alpha, b \in file.beta :
          Behaviour(AlphaFromGeneric(AlphaToGeneric(MigrateDeprecated(a)))) =
          Behaviour(AlphaFromGeneric(BetaToGeneric(b)))

Commands(c) == [i \in DOMAIN c |-> c[i].cmd]
AllCommands(c) == Commands(c.onCreate \o c.before \o c.after \o c.success)
Times(x, s) == Cardinality({i \in DOMAIN s : s[i] = x})

\* A migrated script is run once, whatever was written and parsed in between,
\* and so is every action.
ScriptsRunOnce ==
    \A a \in authored.alpha : \A g \in def :
        g.original = "v1alpha1" =>
            LET s == a.component.scripts
                cmds == AllCommands(a.component) \o s.prepare \o s.before \o s.after
            IN  \A i \in DOMAIN cmds :
                   Times(cmds[i], AllCommands(AlphaFromGeneric(g).component)) = Times(cmds[i], cmds)

\* Where a chart or a repository is fetched from, whatever fields say so.
Fetched(at) == InferSource(at)

\* What deploy runs of a v1alpha1 component after its charts: the after actions,
\* the health checks, which wait until a resource is reconciled, and the
\* onSuccess actions.
Steps(s) == MapSeq(LAMBDA a : [cmd |-> a.cmd, wait |-> EffectiveWait(a.wait), ns |-> a.ns], s)
Checks(health, wait) == MapSeq(LAMBDA h : [cmd |-> "", wait |-> wait, ns |-> h], health)
DeployOrder(c) == Steps(c.after) \o Checks(c.health, "ready") \o Steps(c.success)

Meaning(a) ==
    LET c == a.component
    IN  [required |-> IsTrue(c.required), templating |-> IsTrue(c.manifest.template),
         skipSchema |-> c.chart.schema = "false", prevent |-> a.override = "false",
         values |-> c.chart.plain \o c.chart.templated, from |-> Fetched(c.chart.at),
         repo |-> ClassifyGitRef(c.repo.ref), import |-> c.import, kind |-> a.kind]

\* A package that upgrade-schema accepts means the same after the upgrade, and
\* deploy runs the same steps in the same order.  Where it has health checks it
\* does not: they come behind the onSuccess actions, when the component is
\* already recorded as Succeeded, and wait only until the resource exists; the
\* actions keep their order.  Scripts are not upgraded at all.
UpgradeKeepsMeaning ==
    (authored.beta = {} /\ file.alpha = {}) =>
        LET old == Authored.component
            new == ReadAsAlpha.component
        IN  \/ \E a \in authored.alpha : a.component.scripts # NoScripts
            \/ /\ Meaning(ReadAsAlpha) = Meaning(Authored)
               /\ DeployOrder(new) =
                    IF old.health = <<>> THEN DeployOrder(old)
                    ELSE Steps(old.after \o old.success) \o Checks(old.health, "exists")

\* An override moves the releases and every wait for them together.
NoWaitLeftBehind ==
    \A g \in def : moved # "" =>
        /\ UniqueNamespaces(g) = {"target"}
        /\ \A l \in ActionLists : \A i \in DOMAIN g.component.actions[l] :
              LET a == g.component.actions[l][i] IN a.wait # "none" => a.ns # moved

\* Neither an upgrade of the definition (but for the health checks) nor an
\* override of its namespace changes what the package does in which order.
MeaningIsKept == UpgradeKeepsMeaning /\ NoWaitLeftBehind
=============================================================================
