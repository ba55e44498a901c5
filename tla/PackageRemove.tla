---------------------------- MODULE PackageRemove ---------------------------
(***************************************************************************)
(* packager.Remove: uninstall the charts of the requested components, the  *)
(* last component first, bringing the package secret up to date after each *)
(* chart and after each component, and delete the secret with the last     *)
(* component.                                                              *)
(***************************************************************************)
EXTENDS PackageState

VARIABLES
    dep,      \* depPkg, the secret as this invocation read and edits it
    todo,     \* requested components of reverseDepComps not yet visited
    comp,     \* depComp, the component being removed
    left,     \* reverseInstalledCharts not yet uninstalled
    target    \* history: every chart this invocation set out to uninstall

removeVars == <<dep, todo, comp, left, target>>

RemoveInit ==
    /\ dep = NoSecret
    /\ todo = {}
    /\ comp = "none"
    /\ left = {}
    /\ target = {}

ForgetRemove == dep' = NoSecret /\ todo' = {} /\ comp' = "none" /\ left' = {}

\* The position of component c in the deployment order of version p.
Position(p, c) == CHOOSE n \in DOMAIN Def[p].comps : Def[p].comps[n] = c

\* Mutated: the list is not reversed.
DeployedFirst(p, c, cs) == \A d \in cs : Position(p, c) <= Position(p, d)

\* Component c comes before the others of cs in the reversed list.
DeployedLast(p, c, cs) == \A d \in cs : Position(p, d) <= Position(p, c)

\* The command is given version p, filtered to the requested components.  With
\* one that needs the cluster it works on the secret, read once, and fails
\* without it.  Otherwise it makes up a secret of the requested components only.
RequiresCluster(p, requested) == requested \cap Def[p].cluster # {}

DefinedComponents(requested) ==
    [c \in Component |-> IF c \in requested THEN [NoComponent EXCEPT !.status = "unset"]
                                            ELSE NoComponent]

Remove(p, requested) ==
    /\ pc = "idle"
    /\ requested # {}
    /\ requested \subseteq Range(Def[p].comps)
    /\ IF RequiresCluster(p, requested)
         THEN Exists(secret) /\ dep' = secret
         ELSE dep' = [pkg |-> p, gen |-> 0, comps |-> DefinedComponents(requested)]
    /\ todo' = requested \cap Recorded(dep'.comps)
    /\ target' = ChartsIn(secret, requested)
    /\ last' = "none"
    /\ Goto("remove")
    /\ UNCHANGED <<secret, releases, cancelled, faults, comp, left>>

\* Mutated: charts recorded as failed are not uninstalled.
BeginRemoveSucceededCharts ==
    /\ pc = "remove"
    /\ \E c \in todo :
         /\ DeployedLast(dep.pkg, c, todo)
         /\ comp' = c
         /\ left' = {r \in Row : dep.comps[c].charts[r] = "Succeeded"}
    /\ Goto("uninstall")
    /\ UNCHANGED <<secret, releases, cancelled, faults, last, dep, todo, target>>

\* The before actions of the next component ran; its list of charts is cloned.
BeginRemoveComponent ==
    /\ pc = "remove"
    /\ \E c \in todo :
         /\ DeployedLast(dep.pkg, c, todo)
         /\ comp' = c
         /\ left' = Listed(dep.comps[c].charts)
    /\ Goto("uninstall")
    /\ UNCHANGED <<secret, releases, cancelled, faults, last, dep, todo, target>>

\* slices.DeleteFunc on depComp.InstalledCharts works on the array that
\* dep.comps shares: every chart of the same NAME goes, whatever its
\* namespace, and the freed places at the end become zero values that dep,
\* whose own slice keeps its length, still lists.
DeleteChart(rows, x) ==
    LET gone == {y \in Chart : rows[y] # "none" /\ ChartName[y] = ChartName[x]} IN
    [r \in Row |-> IF r \in gone THEN "none"
                   ELSE IF r = Blank /\ gone # {} THEN "zero"
                   ELSE rows[r]]

\* Mutated: every error of helm.RemoveChart is a warning.
UninstallChartIgnoringErrors ==
    /\ pc = "uninstall"
    /\ \E x \in left \ {Blank} : \E rel \in {NoRelease} \cup UninstallFailures(releases[x]) :
         /\ releases' = [releases EXCEPT ![x] = rel]
         /\ left' = left \ {x}
         /\ dep' = [dep EXCEPT !.comps[comp].charts = DeleteChart(@, x)]
    /\ Goto("update")
    /\ UNCHANGED <<secret, cancelled, faults, last, todo, comp, target>>

\* helm.RemoveChart succeeds, or reports that the release is not found, which
\* is only a warning; the chart is deleted from the component's list.
UninstallChart ==
    /\ pc = "uninstall"
    /\ \E x \in left \ {Blank} :
         /\ releases' = [releases EXCEPT ![x] = NoRelease]
         /\ left' = left \ {x}
         /\ dep' = [dep EXCEPT !.comps[comp].charts = DeleteChart(@, x)]
    /\ Goto("update")
    /\ UNCHANGED <<secret, cancelled, faults, last, todo, comp, target>>

\* UpdateDeployedPackage after a chart; an error is only a warning.
UpdateAfterChart ==
    /\ pc = "update"
    /\ \E wrote \in Answers("write") : ApplySecret(dep, wrote) /\ Spend(wrote)
    /\ Goto("uninstall")
    /\ UNCHANGED <<releases, cancelled, last, dep, todo, comp, left, target>>

\* helm.RemoveChart fails.  It always does for a zero chart: Helm refuses the
\* empty release name with an error that is not ErrReleaseNotFound.
UninstallChartFails ==
    /\ pc = "uninstall"
    /\ \/ /\ Blank \in left
          /\ UNCHANGED <<releases, faults>>
       \/ /\ Fault("helm")
          /\ \E x \in left \ {Blank} : \E rel \in UninstallFailures(releases[x]) :
               releases' = [releases EXCEPT ![x] = rel]
    /\ End("removeFailed")
    /\ ForgetRemove
    /\ UNCHANGED <<secret, target>>

\* A before, after or onSuccess action fails; onFailure actions run and the
\* command ends with the error.
RemoveActionFails ==
    /\ \/ pc = "remove" /\ todo # {}
       \/ pc = "uninstall" /\ left = {}
    /\ \/ Fault("step")
       \/ cancelled /\ UNCHANGED faults
    /\ End("removeFailed")
    /\ ForgetRemove
    /\ UNCHANGED <<secret, releases, target>>

\* All charts are uninstalled and the actions ran: the component leaves the
\* list and the secret is updated; an error of the update is only a warning.
RemoveComponent ==
    /\ pc = "uninstall"
    /\ left = {}
    /\ dep' = [dep EXCEPT !.comps[comp] = NoComponent]
    /\ todo' = todo \ {comp}
    /\ \E wrote \in Answers("write") : ApplySecret(dep', wrote) /\ Spend(wrote)
    /\ Goto("remove")
    /\ UNCHANGED <<releases, cancelled, last, comp, left, target>>

\* Every requested component was visited; with no component left the secret
\* is deleted, and an error of that is only a warning.
RemoveEnds ==
    /\ pc = "remove"
    /\ todo = {}
    /\ IF Recorded(dep.comps) = {}
         THEN \E deleted \in Answers("write") : ApplySecret(NoSecret, deleted) /\ Spend(deleted)
         ELSE UNCHANGED <<secret, faults>>
    /\ End("removed")
    /\ ForgetRemove
    /\ UNCHANGED <<releases, target>>

\* The CLI is killed; Helm may have been half way through an uninstall.
RemoveKilled ==
    /\ pc \in {"remove", "uninstall", "update"}
    /\ Fault("crash")
    /\ \/ UNCHANGED releases
       \/ /\ pc = "uninstall"
          /\ \E x \in left \ {Blank} : \E rel \in UninstallFailures(releases[x]) :
               releases' = [releases EXCEPT ![x] = rel]
    /\ End("killed")
    /\ ForgetRemove
    /\ UNCHANGED <<secret, target>>

RemoveStep ==
    \/ BeginRemoveComponent \/ UninstallChart \/ UpdateAfterChart \/ UninstallChartFails
    \/ RemoveActionFails \/ RemoveComponent \/ RemoveEnds

RemoveNext ==
    \/ \E p \in Pkg, requested \in SUBSET Component : Remove(p, requested)
    \/ RemoveStep
    \/ RemoveKilled
=============================================================================
