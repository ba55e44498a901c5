-------------------------- MODULE PackageLifecycle --------------------------
(***************************************************************************)
(* One package in one cluster, deployed, redeployed in other versions and  *)
(* removed by a sequence of CLI invocations, any of which may fail, be     *)
(* cancelled or be killed at any point.                                    *)
(***************************************************************************)
EXTENDS PackageDeploy, PackageRemove

vars == <<stateVars, deployVars, removeVars>>

Init == StateInit /\ DeployInit /\ RemoveInit

\* The signal handler of main.go cancels the context; nothing else happens
\* until a step looks at it.
Cancel ==
    /\ pc # "idle"
    /\ ~cancelled
    /\ Fault("cancel")
    /\ cancelled' = TRUE
    /\ UNCHANGED <<secret, releases, pc, last, deployVars, removeVars>>

Next ==
    \/ DeployNext /\ UNCHANGED removeVars
    \/ RemoveNext /\ UNCHANGED deployVars
    \/ Cancel

\* A CLI that is neither killed nor blocked keeps going.  Starting an
\* invocation, failing and being killed are not fair.
CLIStep ==
    \/ DeployStep /\ UNCHANGED removeVars
    \/ RemoveStep /\ UNCHANGED deployVars

Spec == Init /\ [][Next]_vars /\ WF_vars(CLIStep)

DeployPhases == {"component", "install", "cleanup", "success"}
RemovePhases == {"remove", "uninstall", "update"}

-----------------------------------------------------------------------------
StateTypeOK ==
    /\ secret \in DeployedPackage
    /\ releases \in [Chart -> Release]
    /\ pc \in {"idle"} \cup DeployPhases \cup RemovePhases
    /\ cancelled \in BOOLEAN
    /\ faults \in 0..MaxFaults
    /\ last \in Endings

DeployTypeOK ==
    /\ deploys \in 0..MaxDeploys
    /\ pc \in DeployPhases => pkg \in Pkg
    /\ i \in Nat \ {0} /\ k \in Nat \ {0} /\ gen \in Nat \ {0}
    /\ pc \in {"install", "cleanup", "success"} => i <= Len(Def[pkg].comps)
    /\ connected \in BOOLEAN
    /\ done \in [Component -> DeployedComponent]
    /\ installed \in Rows
    /\ touched \subseteq Chart

RemoveTypeOK ==
    /\ dep \in DeployedPackage
    /\ pc \in RemovePhases => dep.pkg \in Pkg
    /\ todo \subseteq Component
    /\ pc \in {"uninstall", "update"} => comp \in todo
    /\ left \subseteq Row
    /\ target \subseteq Chart

\* Types, and that the loops of both commands stay within their lists: the
\* component being deployed is one of the package's, the component being
\* removed is one of those still to remove.
TypeOK == StateTypeOK /\ DeployTypeOK /\ RemoveTypeOK

\* A component that is not recorded lists no charts, in the secret and in both
\* commands' copies of it, and a remove works on recorded components only.
NothingUnlisted(comps) ==
    \A c \in Component : comps[c].status = "none" => comps[c].charts = NoRows
RecordsConsistent ==
    /\ NothingUnlisted(secret.comps)
    /\ NothingUnlisted(done)
    /\ NothingUnlisted(dep.comps)
    /\ pc \in RemovePhases => todo \subseteq Recorded(dep.comps)

\* The case of a package without components that only copy files or run actions.
EveryComponentNeedsCluster == \A p \in Pkg : Range(Def[p].comps) \subseteq Def[p].cluster

\* When a remove reports success, every chart the secret listed for the
\* requested components at its start is uninstalled, whatever failed or was
\* interrupted in this and in earlier invocations: remove.go walks a clone of
\* the list while it shortens the list itself.
RemoveUninstallsTarget ==
    last = "removed" => \A x \in target : ~Present(releases[x])

\* The induction behind it: while a remove runs, each chart it set out to
\* uninstall is gone, is still in the cloned list, or is listed for a component
\* whose turn has not come.
RemoveProgress ==
    /\ pc # "idle" => last = "none"
    /\ pc = "remove" => \A x \in target :
          ~Present(releases[x]) \/ \E d \in todo : dep.comps[d].charts[x] # "none"
    /\ pc \in {"uninstall", "update"} => \A x \in target :
          \/ ~Present(releases[x])
          \/ x \in left
          \/ \E d \in todo \ {comp} : dep.comps[d].charts[x] # "none"
    /\ RemoveUninstallsTarget

\* A deploy that ended by itself, with success or with an error, has left every
\* release it handed to Helm in the package secret, so that a remove finds it.
DeployRecordsWhatItInstalled ==
    last \in {"deployed", "deployFailed"} =>
        \A x \in touched : Present(releases[x]) => x \in ListedIn(secret)

\* Between invocations no release of the package is missing in its secret.
NoOrphan ==
    pc = "idle" => \A x \in Chart : Present(releases[x]) => x \in ListedIn(secret)

\* A component is recorded as Succeeded only with all its charts running the
\* recorded version; a remove in progress, or one that failed, may have taken
\* charts away, Helm may have lost the last record of a first install, which
\* then stays pending, but nothing else happens behind the record's back.
SucceededIsRunning ==
    \A c \in Component : secret.comps[c].status = "Succeeded" =>
        \A x \in Range(Def[secret.pkg].charts[c]) :
            \/ releases[x] = [live |-> secret.pkg, top |-> "deployed"]
            \/ releases[x] \in {NoRelease, [live |-> NoPkg, top |-> "pending"]}

-----------------------------------------------------------------------------
\* A record of a deploy never loses a chart of a component it keeps and that
\* still needs the cluster: the head of the loop copies the charts the secret
\* lists, and merging only adds.  (A component that became one of files and
\* actions only, deployed before the CLI connects, starts from an empty list.)
RecordKeepsCharts ==
    [][pc \notin RemovePhases =>
        \A c \in Recorded(secret.comps) \cap Recorded(secret'.comps) :
            c \in Def[secret'.pkg].cluster =>
              Listed(secret.comps[c].charts) \subseteq Listed(secret'.comps[c].charts)]_vars

\* A record of a remove drops a chart only when its release is gone, so that
\* whatever interrupts the command, the next remove still finds the rest.
UninstalledBeforeForgotten ==
    [][\A x \in Chart :
         pc \in RemovePhases /\ x \in ListedIn(secret) \ ListedIn(secret')
           => releases[x] = NoRelease]_vars

\* The case in which it holds: no release name is used in two namespaces.
DistinctChartNames == \A x, y \in Chart : ChartName[x] = ChartName[y] => x = y

\* The induction behind it: what the secret lists and the command's copy no
\* longer does is uninstalled, and the copy lists for the component at hand
\* nothing beyond the rest of the cloned list.
RecordCoversReleases ==
    /\ pc \in RemovePhases => \A x \in Chart :
          x \in ListedIn(secret) \ ListedIn(dep) => releases[x] = NoRelease
    /\ pc \in {"uninstall", "update"} => \A x \in Chart :
          dep.comps[comp].charts[x] # "none" => x \in left

\* A component's charts are uninstalled only after those of every requested
\* component that was deployed after it, unless one of those lists the chart
\* too, from a version that had it there.
RemoveReversesComponents ==
    [][\A c, d \in Component :
         (/\ pc = "uninstall" /\ {c, d} \subseteq Recorded(dep.comps) /\ d \in todo
          /\ Position(dep.pkg, c) < Position(dep.pkg, d))
         => \A x \in Range(Def[dep.pkg].charts[c]) \ ChartsIn(dep, todo \ {c}) :
              releases'[x] = releases[x]]_vars
=============================================================================
