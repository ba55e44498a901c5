---------------------------- MODULE PackageState ----------------------------
(***************************************************************************)
(* What `zarf package deploy` and `zarf package remove` share: the package *)
(* secret in the zarf namespace (state.DeployedPackage), the Helm releases *)
(* the package owns, and the one CLI process that works on both.  The      *)
(* secret and the releases are two stores that no transaction joins: every *)
(* action of PackageDeploy and PackageRemove changes at most one of them,  *)
(* so that a crash can fall between any two changes.                       *)
(*                                                                         *)
(* A chart stands for a (namespace, release name) pair, the key that       *)
(* MergeInstalledChartsForComponent uses; manifests are deployed as        *)
(* generated charts and are charts here.  Lists of installed charts are    *)
(* functions from charts to a status: the code rebuilds the list from a Go *)
(* map whenever it records a component, so its order is arbitrary.         *)
(***************************************************************************)
EXTENDS ReleaseOutcomes, Integers, Sequences, FiniteSets

CONSTANTS
    Chart,       \* the (namespace, release name) pairs
    ChartName,   \* [Chart -> release names]; two namespaces may share a name
    Blank,       \* the zero InstalledChart: no namespace, no release name
    Component,   \* component names
    Def,         \* [Pkg -> PkgDef], the definition of each version
    Faults,      \* which kinds of step may fail
    MaxFaults,   \* bound: how many steps may fail in a behaviour
    MaxDeploys   \* bound: how many deploys a behaviour may start

Row == Chart \cup {Blank}

FaultKinds == {"connect", "read", "write", "helm", "step", "render", "cancel", "crash"}

\* A package version as the CLI sees it after filtering: its components in
\* order, the charts of each in installation order, which of those come from
\* manifests, which components need the cluster and whether it is an init package.
PkgDef ==
    [comps     : Seq(Component),
     charts    : [Component -> Seq(Chart)],
     manifests : [Component -> SUBSET Chart],
     cluster   : SUBSET Component,
     init      : BOOLEAN]

Range(seq) == {seq[n] : n \in DOMAIN seq}

ASSUME ConstantsAssumption ==
    /\ Blank \notin Chart
    /\ Def \in [Pkg -> PkgDef]
    /\ Faults \subseteq FaultKinds
    /\ MaxFaults \in Nat
    /\ MaxDeploys \in Nat

\* Component names are unique in a package, a chart has one owner in a version,
\* and a component with a chart needs the cluster.
ASSUME PackagesAssumption ==
    \A p \in Pkg :
        /\ \A m, n \in DOMAIN Def[p].comps :
              Def[p].comps[m] = Def[p].comps[n] => m = n
        /\ \A c, d \in Component : c # d =>
              Range(Def[p].charts[c]) \cap Range(Def[p].charts[d]) = {}
        /\ \A c \in Component : Def[p].charts[c] # <<>> => c \in Def[p].cluster

-----------------------------------------------------------------------------
(* The package secret.                                                     *)

ChartStatus == {"none", "Succeeded", "Failed", "zero"}
Rows        == [Row -> ChartStatus]
NoRows      == [r \in Row |-> "none"]
Listed(rows) == {r \in Row : rows[r] # "none"}

\* Mutated: charts that this deploy did not touch are dropped.
MergeDroppingExisting(existing, installed) == installed

\* MergeInstalledChartsForComponent: rows of this deploy replace the status of
\* existing rows with the same key, every other existing row is retained.  The
\* partial flag changes nothing: the loop it guards stores back what it read.
MergeInstalledChartsForComponent(existing, installed) ==
    [r \in Row |-> IF installed[r] # "none" THEN installed[r] ELSE existing[r]]

ComponentStatus == {"none", "unset", "Deploying", "Failed", "Succeeded"}
DeployedComponent == [status : ComponentStatus, gen : Nat, charts : Rows]
NoComponent  == [status |-> "none", gen |-> 0, charts |-> NoRows]
NoComponents == [c \in Component |-> NoComponent]
Recorded(comps) == {c \in Component : comps[c].status # "none"}

\* DeployedComponents is a list in deployment order; the order is that of the
\* components in the package it was recorded for, so a function is enough.
DeployedPackage ==
    [pkg : Pkg \cup {NoPkg}, gen : Nat, comps : [Component -> DeployedComponent]]
NoSecret == [pkg |-> NoPkg, gen |-> 0, comps |-> NoComponents]
Exists(s) == s.pkg # NoPkg

\* GetInstalledChartsForComponent of a secret that was read.
InstalledChartsFor(s, c) == s.comps[c].charts

\* The charts that the secret s lists for some of the components cs.
ChartsIn(s, cs) == {x \in Chart : \E c \in cs : s.comps[c].charts[x] # "none"}
ListedIn(s) == ChartsIn(s, Component)

-----------------------------------------------------------------------------
VARIABLES
    secret,     \* the package secret, NoSecret when it does not exist
    releases,   \* [Chart -> Release]
    pc,         \* where the CLI is; "idle" between invocations
    cancelled,  \* SIGINT or SIGTERM cancelled the CLI's context
    faults,     \* how many steps have failed so far
    last        \* how the last invocation ended

clusterVars == <<secret, releases>>
stateVars   == <<secret, releases, pc, cancelled, faults, last>>

Endings == {"none", "deployed", "deployFailed", "removed", "removeFailed", "killed"}

StateInit ==
    /\ secret = NoSecret
    /\ releases = [x \in Chart |-> NoRelease]
    /\ pc = "idle"
    /\ cancelled = FALSE
    /\ faults = 0
    /\ last = "none"

\* A step that fails because the world does: an action's command, Helm, the API.
Fault(kind) == kind \in Faults /\ faults < MaxFaults /\ faults' = faults + 1

\* Answers of an API call made with the CLI's context, and what they cost.
Answers(kind) ==
    IF cancelled THEN {FALSE}
    ELSE IF kind \in Faults /\ faults < MaxFaults THEN BOOLEAN ELSE {TRUE}
Spend(ok) == faults' = IF cancelled \/ ok THEN faults ELSE faults + 1

\* The forced server-side Apply of RecordPackageDeployment and
\* UpdateDeployedPackage: the whole data of the secret is replaced.
ApplySecret(s, ok) == secret' = IF ok THEN s ELSE secret

Goto(label) == pc' = label
End(ending) == pc' = "idle" /\ last' = ending /\ cancelled' = FALSE
=============================================================================
