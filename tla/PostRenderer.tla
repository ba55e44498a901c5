---------------------------- MODULE PostRenderer ----------------------------
(***************************************************************************)
(* The namespaces of a release: Zarf's Helm post-renderer takes the        *)
(* namespaces out of the rendered manifests, creates or adopts them itself *)
(* and puts the pull secrets of the registry and the Git server into them, *)
(* before Helm applies any resource.                                       *)
(***************************************************************************)
EXTENDS ReleaseOutcomes, Integers, FiniteSets

CONSTANTS
    Namespace,       \* namespace names
    ChartNamespace,  \* the namespace of the release
    Initial,         \* "default" and the other initial namespaces of a cluster
    Named            \* [Pkg -> SUBSET Namespace], namespaces the manifests name

ASSUME NamespacesAssumption ==
    /\ ChartNamespace \in Namespace
    /\ Initial \subseteq Namespace
    /\ Named \in [Pkg -> SUBSET Namespace]

VARIABLES
    namespaces,   \* the cluster's: exists, managed by Zarf, holds the secrets
    todo,         \* renderer.namespaces: those this operation still prepares
    bare          \* the one that is prepared and has no secrets yet

renderVars == <<namespaces, todo, bare>>

NamespaceState == [exists : BOOLEAN, managed : BOOLEAN, secrets : BOOLEAN]

\* Before Zarf: the initial namespaces exist, others may.
RendererInit ==
    /\ \E there \in SUBSET Namespace :
         /\ Initial \subseteq there
         /\ namespaces = [n \in Namespace |->
                [exists |-> n \in there, managed |-> FALSE, secrets |-> FALSE]]
    /\ todo = {}
    /\ bare = {}

\* newRenderer: the namespace of the chart is only prepared when it is missing
\* or existing resources are to be adopted.
newRenderer(takeOwnership) ==
    IF namespaces[ChartNamespace].exists /\ ~takeOwnership THEN {} ELSE {ChartNamespace}

\* editHelmResources: Namespace objects and the namespaces of resources.
editHelmResources(p) == Named[p]

\* Mutated: a namespace that exists and is not adopted is passed over.
AdoptOnlyMissing(n, takeOwnership) ==
    /\ n \in todo
    /\ bare = {}
    /\ todo' = todo \ {n}
    /\ IF namespaces[n].exists /\ ~takeOwnership
         THEN UNCHANGED <<namespaces, bare>>
         ELSE /\ bare' = {n}
              /\ namespaces' = [namespaces EXCEPT ![n].exists = TRUE, ![n].managed = n \notin Initial]

\* One turn of the loop of adoptAndUpdateNamespaces: a missing namespace is
\* created as one that Zarf manages, an existing one is adopted on request
\* unless it is an initial one; all of them get the secrets next.
adoptAndUpdateNamespace(n, takeOwnership) ==
    /\ n \in todo
    /\ bare = {}
    /\ todo' = todo \ {n}
    /\ bare' = {n}
    /\ namespaces' =
         IF ~namespaces[n].exists \/ (takeOwnership /\ n \notin Initial)
           THEN [namespaces EXCEPT ![n].exists = TRUE, ![n].managed = TRUE]
           ELSE namespaces

\* The registry's and the Git server's secret, and the client certificate.
applySecrets ==
    /\ bare # {}
    /\ namespaces' = [n \in Namespace |->
           IF n \in bare THEN [namespaces[n] EXCEPT !.secrets = TRUE] ELSE namespaces[n]]
    /\ bare' = {}
    /\ UNCHANGED todo

RendererDone == todo = {} /\ bare = {}
=============================================================================
