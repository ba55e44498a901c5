---------------------------- MODULE PackageDeploy ---------------------------
(***************************************************************************)
(* packager.Deploy: the loop of deployComponents over the components of a  *)
(* package, with deployComponent, deployInitComponent, installCharts and   *)
(* installManifests.  Each record of the secret is its own step, and so is *)
(* each chart, because the CLI can be killed between any two of them.      *)
(***************************************************************************)
EXTENDS PackageState

VARIABLES
    deploys,    \* how many deploys were started
    pkg,        \* the version being deployed
    i,          \* the index of the component being deployed
    k,          \* the index of the next chart of that component
    gen,        \* packageGeneration
    connected,  \* d.c # nil
    done,       \* deployedComponents, the local list that every record writes
    installed,  \* the charts deployComponent returns for this component
    touched     \* history: the charts this deploy handed to Helm

deployVars == <<deploys, pkg, i, k, gen, connected, done, installed, touched>>

current == Def[pkg].comps[i]
chartsOfCurrent == Def[pkg].charts[current]

DeployInit ==
    /\ deploys = 0
    /\ pkg = NoPkg
    /\ i = 1
    /\ k = 1
    /\ gen = 1
    /\ connected = FALSE
    /\ done = NoComponents
    /\ installed = NoRows
    /\ touched = {}

\* The CLI's memory is gone when the process ends; only the history stays.
ForgetDeploy ==
    /\ pkg' = NoPkg /\ i' = 1 /\ k' = 1 /\ gen' = 1 /\ connected' = FALSE
    /\ done' = NoComponents /\ installed' = NoRows

Deploy(p) ==
    /\ pc = "idle"
    /\ deploys < MaxDeploys
    /\ deploys' = deploys + 1
    /\ pkg' = p
    /\ touched' = {}
    /\ Goto("component")
    /\ last' = "none"
    /\ UNCHANGED <<secret, releases, cancelled, faults, i, k, gen, connected, done, installed>>

\* cluster.NewWithWait or verifyPackageIsDeployable fails.
ConnectFails ==
    /\ pc = "component"
    /\ i <= Len(Def[pkg].comps)
    /\ current \in Def[pkg].cluster
    /\ ~connected
    /\ \/ cancelled /\ UNCHANGED faults
       \/ Fault("connect")
    /\ End("deployFailed")
    /\ ForgetDeploy
    /\ UNCHANGED <<secret, releases, deploys, touched>>

\* packageGeneration: one more than the secret's, for a component that needs
\* the cluster and when the secret could be read.
PackageGeneration(needsCluster, read) ==
    IF needsCluster /\ read /\ Exists(secret) THEN secret.gen + 1 ELSE 1

\* The head of the loop body: read the generation, read the charts the secret
\* lists for this component, append the component as Deploying and record the
\* components SO FAR.  Errors of both reads and of the record are only logged.
\* A component that does not need the cluster is recorded with generation 1.
BeginComponent ==
    /\ pc = "component"
    /\ i <= Len(Def[pkg].comps)
    /\ connected' = (connected \/ current \in Def[pkg].cluster)
    /\ connected' /\ ~connected => ~cancelled
    /\ IF connected'
         THEN \E genRead, chartsRead \in Answers("read"), wrote \in Answers("write") :
                /\ gen' = PackageGeneration(current \in Def[pkg].cluster, genRead)
                /\ done' = [done EXCEPT ![current] =
                              [status |-> "Deploying",
                               gen    |-> gen',
                               charts |-> IF chartsRead THEN InstalledChartsFor(secret, current)
                                                        ELSE NoRows]]
                /\ ApplySecret([pkg |-> pkg, gen |-> gen', comps |-> done'], wrote)
                /\ Spend(genRead /\ chartsRead /\ wrote)
         ELSE /\ gen' = 1
              /\ done' = [done EXCEPT ![current] =
                            [status |-> "Deploying", gen |-> 1, charts |-> NoRows]]
              /\ UNCHANGED <<secret, faults>>
    /\ k' = 1
    /\ installed' = NoRows
    /\ Goto("install")
    /\ UNCHANGED <<releases, cancelled, last, deploys, pkg, i, touched>>

\* InstallOrUpgradeChart succeeds on the next chart of the component; its
\* renderer calls the API with the CLI's context, so not after a cancel.  A
\* first install of which Helm loses the last record succeeds and stays pending.
InstallChart ==
    /\ pc = "install"
    /\ ~cancelled
    /\ k <= Len(chartsOfCurrent)
    /\ LET x == chartsOfCurrent[k] IN
         /\ \E rel \in Release :
              /\ releases' = [releases EXCEPT ![x] = rel]
              /\ \/ rel \in Upgraded(releases[x], pkg) /\ UNCHANGED faults
                 \/ /\ releases[x] = NoRelease
                    /\ rel = [live |-> NoPkg, top |-> "pending"]
                    /\ Fault("helm")
         /\ installed' = [installed EXCEPT ![x] = "Succeeded"]
         /\ touched' = touched \cup {x}
    /\ k' = k + 1
    /\ UNCHANGED <<secret, pc, cancelled, last, deploys, pkg, i, gen, connected, done>>

\* deployInitComponent returns no charts with an error.
Returned(rows) == IF Def[pkg].init THEN NoRows ELSE rows

\* Mutated: the chart that failed is not returned.
InstallChartFailsUnrecorded ==
    /\ pc = "install"
    /\ k <= Len(chartsOfCurrent)
    /\ LET x == chartsOfCurrent[k] IN
         /\ \/ Fault("helm")
            \/ (cancelled \/ Upgraded(releases[x], pkg) = {}) /\ UNCHANGED faults
         /\ \E rel \in InstallFailures(releases[x], pkg) : releases' = [releases EXCEPT ![x] = rel]
         /\ installed' = Returned(installed)
         /\ touched' = touched \cup {x}
    /\ Goto("cleanup")
    /\ UNCHANGED <<secret, cancelled, last, deploys, pkg, i, k, gen, connected, done>>

\* InstallOrUpgradeChart fails; the chart is returned as Failed.  A pending
\* release makes it fail without any further fault.
InstallChartFails ==
    /\ pc = "install"
    /\ k <= Len(chartsOfCurrent)
    /\ LET x == chartsOfCurrent[k] IN
         /\ \/ Fault("helm")
            \/ (cancelled \/ Upgraded(releases[x], pkg) = {}) /\ UNCHANGED faults
         /\ \E rel \in InstallFailures(releases[x], pkg) : releases' = [releases EXCEPT ![x] = rel]
         /\ installed' = Returned([installed EXCEPT ![x] = "Failed"])
         /\ touched' = touched \cup {x}
    /\ Goto("cleanup")
    /\ UNCHANGED <<secret, cancelled, last, deploys, pkg, i, k, gen, connected, done>>

\* Any other step of deployComponent fails: before and after actions, files,
\* images, repositories, values, chart data, health checks, data injections,
\* and for an init package StopInjection.  The charts so far are returned.
ComponentStepFails ==
    /\ pc = "install"
    /\ \/ Fault("step")
       \/ cancelled /\ UNCHANGED faults
    /\ installed' = Returned(installed)
    /\ Goto("cleanup")
    /\ UNCHANGED <<secret, releases, cancelled, last, deploys, pkg, i, k, gen,
                   connected, done, touched>>

\* Go-templating a manifest fails in installManifests, which then returns nil
\* in place of the manifests it has already installed.
ManifestTemplateFails ==
    /\ pc = "install"
    /\ k <= Len(chartsOfCurrent)
    /\ chartsOfCurrent[k] \in Def[pkg].manifests[current]
    /\ Fault("render")
    /\ installed' = Returned([r \in Row |->
                       IF r \in Def[pkg].manifests[current] THEN "none" ELSE installed[r]])
    /\ Goto("cleanup")
    /\ UNCHANGED <<secret, releases, cancelled, last, deploys, pkg, i, k, gen,
                   connected, done, touched>>

\* Mutated: the status does not depend on the error.
RecordedAsSucceeded(status) ==
    [done EXCEPT ![current].status = "Succeeded",
                 ![current].charts = MergeInstalledChartsForComponent(done[current].charts, installed)]

\* deployedComponents with the outcome of the current component in it.
RecordedAs(status) ==
    [done EXCEPT ![current].status = status,
                 ![current].charts = MergeInstalledChartsForComponent(done[current].charts, installed)]

\* deployComponent returned no error: the component is recorded as Succeeded.
ComponentSucceeds ==
    /\ pc = "install"
    /\ k > Len(chartsOfCurrent)
    /\ done' = RecordedAs("Succeeded")
    /\ IF connected
         THEN \E wrote \in Answers("write") :
                /\ ApplySecret([pkg |-> pkg, gen |-> gen, comps |-> done'], wrote)
                /\ Spend(wrote)
         ELSE UNCHANGED <<secret, faults>>
    /\ Goto("success")
    /\ UNCHANGED <<releases, cancelled, last, deploys, pkg, i, k, gen, connected,
                   installed, touched>>

\* The failure path: onFailure actions, whose errors are only logged, then the
\* component is recorded as Failed, with a background context when the CLI's
\* own was cancelled.
Cleanup ==
    /\ pc = "cleanup"
    /\ IF connected
         THEN \/ /\ secret' = [pkg |-> pkg, gen |-> gen, comps |-> RecordedAs("Failed")]
                 /\ UNCHANGED faults
              \/ Fault("write") /\ UNCHANGED secret
         ELSE UNCHANGED <<secret, faults>>
    /\ End("deployFailed")
    /\ ForgetDeploy
    /\ UNCHANGED <<releases, deploys, touched>>

\* The onSuccess actions end well and the loop goes on.
OnSuccess ==
    /\ pc = "success"
    /\ i' = i + 1
    /\ Goto("component")
    /\ UNCHANGED <<secret, releases, cancelled, faults, last, deploys, pkg, k, gen,
                   connected, done, installed, touched>>

\* An onSuccess action fails: the deploy fails though the component is
\* recorded as Succeeded.
OnSuccessFails ==
    /\ pc = "success"
    /\ \/ Fault("step")
       \/ cancelled /\ UNCHANGED faults
    /\ End("deployFailed")
    /\ ForgetDeploy
    /\ UNCHANGED <<secret, releases, deploys, touched>>

DeployEnds ==
    /\ pc = "component"
    /\ i > Len(Def[pkg].comps)
    /\ End("deployed")
    /\ ForgetDeploy
    /\ UNCHANGED <<secret, releases, faults, deploys, touched>>

\* The CLI is killed.  Helm may have been at work on the next chart, which
\* then keeps a pending or failed revision.
DeployKilled ==
    /\ pc \in {"component", "install", "cleanup", "success"}
    /\ Fault("crash")
    /\ \/ UNCHANGED <<releases, touched>>
       \/ /\ pc = "install"
          /\ k <= Len(chartsOfCurrent)
          /\ \E rel \in Interrupted(releases[chartsOfCurrent[k]], pkg) :
               releases' = [releases EXCEPT ![chartsOfCurrent[k]] = rel]
          /\ touched' = touched \cup {chartsOfCurrent[k]}
    /\ End("killed")
    /\ ForgetDeploy
    /\ UNCHANGED <<secret, deploys>>

DeployStep ==
    \/ ConnectFails \/ BeginComponent
    \/ InstallChart \/ InstallChartFails \/ ComponentStepFails \/ ManifestTemplateFails
    \/ ComponentSucceeds \/ Cleanup \/ OnSuccess \/ OnSuccessFails \/ DeployEnds

DeployNext == (\E p \in Pkg : Deploy(p)) \/ DeployStep \/ DeployKilled
=============================================================================
