----------------------- MODULE PackageLifecycle_proofs ----------------------
(***************************************************************************)
(* Proofs about PackageLifecycle, for every set of charts, components and  *)
(* package versions, every kind of fault and every bound.                  *)
(***************************************************************************)
EXTENDS PackageLifecycle, TLAPS

-----------------------------------------------------------------------------
(* Facts about the records and the packages.                               *)

LEMMA RowTypes ==
    /\ NoRows \in Rows
    /\ NoComponent \in DeployedComponent
    /\ NoComponents \in [Component -> DeployedComponent]
    /\ NoSecret \in DeployedPackage
    /\ NoRelease \in Release
BY DEF NoRows, Rows, ChartStatus, NoComponent, DeployedComponent, ComponentStatus,
       NoComponents, NoSecret, DeployedPackage, NoRelease, Release

LEMMA MergeType ==
    ASSUME NEW existing \in Rows, NEW new \in Rows
    PROVE  MergeInstalledChartsForComponent(existing, new) \in Rows
BY DEF MergeInstalledChartsForComponent, Rows

LEMMA DeleteType ==
    ASSUME NEW rows \in Rows, NEW x \in Chart
    PROVE  DeleteChart(rows, x) \in Rows
BY DEF DeleteChart, Rows, ChartStatus

\* The charts of a component of a version are charts.
LEMMA CurrentTypes ==
    ASSUME NEW p \in Pkg, NEW n \in Nat \ {0}, n <= Len(Def[p].comps)
    PROVE  /\ Def[p].comps[n] \in Component
           /\ Def[p].charts[Def[p].comps[n]] \in Seq(Chart)
BY ConstantsAssumption DEF PkgDef

\* What an operation on a release leaves is a release.
LEMMA InterruptedType ==
    ASSUME NEW rel \in Release, NEW p \in Pkg
    PROVE  Interrupted(rel, p) \subseteq Release
BY DEF Interrupted, Release

LEMMA UpgradedType ==
    ASSUME NEW rel \in Release, NEW p \in Pkg
    PROVE  /\ Upgraded(rel, p) \subseteq Release
           /\ InstallFailures(rel, p) \subseteq Release
           /\ UninstallFailures(rel) \subseteq Release
<1>1. Upgraded(rel, p) \subseteq Release
  BY DEF Upgraded, Release
<1>2. rel.live \in Pkg \cup {NoPkg}
  BY DEF Release
<1>3. InstallFailures(rel, p) \subseteq Release
  BY <1>1, <1>2, InterruptedType DEF InstallFailures, Release
<1>4. UninstallFailures(rel) \subseteq Release
  BY <1>2, RowTypes DEF UninstallFailures, Release
<1> QED
  BY <1>1, <1>3, <1>4

-----------------------------------------------------------------------------
(* Type correctness.                                                       *)

\* What a deploy needs from its types while it works on a component.
LEMMA DeployFacts ==
    ASSUME TypeOK, pc \in {"install", "cleanup", "success"}
           \/ (pc = "component" /\ i <= Len(Def[pkg].comps))
    PROVE  /\ pkg \in Pkg
           /\ current \in Component
           /\ chartsOfCurrent \in Seq(Chart)
           /\ done[current] \in DeployedComponent
           /\ done[current].charts \in Rows
           /\ InstalledChartsFor(secret, current) \in Rows
BY CurrentTypes
   DEF TypeOK, StateTypeOK, DeployTypeOK, DeployPhases, current, chartsOfCurrent,
       DeployedComponent, DeployedPackage, InstalledChartsFor

LEMMA InitType == Init => TypeOK
<1> SUFFICES ASSUME Init PROVE TypeOK
  OBVIOUS
<1>0. cancelled \in BOOLEAN /\ connected \in BOOLEAN
  BY Zenon DEF Init, StateInit, DeployInit
<1>1. StateTypeOK
  BY <1>0, RowTypes, ConstantsAssumption DEF Init, StateInit, StateTypeOK, Endings
<1>2. DeployTypeOK
  BY <1>0, RowTypes, ConstantsAssumption DEF Init, StateInit, DeployInit, DeployTypeOK, DeployPhases
<1>3. RemoveTypeOK
  BY RowTypes DEF Init, StateInit, RemoveInit, RemoveTypeOK, RemovePhases
<1> QED
  BY <1>1, <1>2, <1>3 DEF TypeOK

\* The two flags of the CLI stay Boolean.
LEMMA FlagsType ==
    ASSUME TypeOK, Next
    PROVE  cancelled' \in BOOLEAN /\ connected' \in BOOLEAN
<1>0. cancelled \in BOOLEAN /\ connected \in BOOLEAN
  BY Zenon DEF TypeOK, StateTypeOK, DeployTypeOK
<1>1. ASSUME End("deployFailed") \/ End("removeFailed") \/ End("killed") \/ End("deployed") \/ End("removed")
      PROVE  cancelled' \in BOOLEAN
  BY <1>1, Zenon DEF End
<1>2. ASSUME ForgetDeploy PROVE connected' \in BOOLEAN
  BY <1>2, Zenon DEF ForgetDeploy
<1>3. ASSUME DeployNext PROVE cancelled' \in BOOLEAN /\ connected' \in BOOLEAN
  <2>1. ASSUME NEW p \in Pkg, Deploy(p) PROVE cancelled' \in BOOLEAN /\ connected' \in BOOLEAN
    BY <2>1, <1>0, Zenon DEF Deploy
  <2>2. CASE ConnectFails \/ Cleanup \/ OnSuccessFails \/ DeployEnds \/ DeployKilled
    BY <2>2, <1>1, <1>2, Zenon DEF ConnectFails, Cleanup, OnSuccessFails, DeployEnds, DeployKilled
  <2>3. CASE BeginComponent
    BY <2>3, <1>0, Zenon DEF BeginComponent
  <2>4. CASE InstallChart \/ InstallChartFails \/ ComponentStepFails \/ ManifestTemplateFails
             \/ ComponentSucceeds \/ OnSuccess
    BY <2>4, <1>0, Zenon DEF InstallChart, InstallChartFails, ComponentStepFails,
       ManifestTemplateFails, ComponentSucceeds, OnSuccess
  <2> QED
    BY <1>3, <2>1, <2>2, <2>3, <2>4, Zenon DEF DeployNext, DeployStep
<1>4. ASSUME RemoveNext, UNCHANGED deployVars
      PROVE  cancelled' \in BOOLEAN /\ connected' \in BOOLEAN
  <2>1. connected' \in BOOLEAN
    BY <1>4, <1>0, Zenon DEF deployVars
  <2>2. CASE UninstallChartFails \/ RemoveActionFails \/ RemoveEnds \/ RemoveKilled
    BY <2>1, <2>2, <1>1, Zenon DEF UninstallChartFails, RemoveActionFails, RemoveEnds, RemoveKilled
  <2>3. CASE BeginRemoveComponent \/ UninstallChart \/ UpdateAfterChart \/ RemoveComponent
    BY <2>1, <2>3, <1>0, Zenon DEF BeginRemoveComponent, UninstallChart, UpdateAfterChart,
       RemoveComponent
  <2>4. ASSUME NEW p, NEW cs, Remove(p, cs) PROVE cancelled' \in BOOLEAN
    BY <2>4, <1>0, Zenon DEF Remove
  <2> QED
    BY <1>4, <2>1, <2>2, <2>3, <2>4, Zenon DEF RemoveNext, RemoveStep
<1>5. CASE Cancel
  BY <1>5, <1>0, Zenon DEF Cancel, deployVars
<1> QED
  BY <1>3, <1>4, <1>5, Zenon DEF Next

\* Calls of the API server that may fail cost at most one fault together.
LEMMA SpendFacts ==
    ASSUME TypeOK, NEW one, NEW two, NEW three,
           NEW ok1 \in Answers(one), NEW ok2 \in Answers(two), NEW ok3 \in Answers(three),
           Spend(ok1 /\ ok2 /\ ok3)
    PROVE  faults' \in 0..MaxFaults
<1>1. CASE cancelled \/ (ok1 /\ ok2 /\ ok3)
  BY <1>1 DEF Spend, TypeOK, StateTypeOK
<1>2. CASE ~(cancelled \/ (ok1 /\ ok2 /\ ok3))
  <2>1. faults < MaxFaults
    BY <1>2, Zenon DEF Answers
  <2>2. faults' = faults + 1
    BY <1>2, Zenon DEF Spend
  <2> QED
    BY <2>1, <2>2, ConstantsAssumption DEF TypeOK, StateTypeOK
<1> QED
  BY <1>1, <1>2, Zenon

\* The same for a single call.
LEMMA SpendOne ==
    ASSUME TypeOK, NEW kind, NEW ok \in Answers(kind), Spend(ok)
    PROVE  faults' \in 0..MaxFaults
<1>1. CASE cancelled \/ ok
  BY <1>1 DEF Spend, TypeOK, StateTypeOK
<1>2. CASE ~(cancelled \/ ok)
  <2>1. faults < MaxFaults
    BY <1>2, Zenon DEF Answers
  <2>2. faults' = faults + 1
    BY <1>2, Zenon DEF Spend
  <2> QED
    BY <2>1, <2>2, ConstantsAssumption DEF TypeOK, StateTypeOK
<1> QED
  BY <1>1, <1>2, Zenon

LEMMA DeployStepType ==
    ASSUME TypeOK, DeployNext, UNCHANGED removeVars
    PROVE  TypeOK'
<1>0. cancelled' \in BOOLEAN /\ connected' \in BOOLEAN
  BY FlagsType DEF Next
<1>1. ASSUME NEW p \in Pkg, Deploy(p) PROVE TypeOK'
  BY <1>1, ConstantsAssumption
     DEF Deploy, TypeOK, StateTypeOK, DeployTypeOK, RemoveTypeOK, DeployPhases, RemovePhases,
         Endings, Goto, removeVars
<1>2. ASSUME secret' \in DeployedPackage, releases' \in [Chart -> Release],
             touched' \subseteq Chart, faults' \in 0..MaxFaults, deploys' = deploys, ForgetDeploy,
             End("deployFailed") \/ End("deployed") \/ End("killed")
      PROVE  TypeOK'
  BY <1>0, <1>2, RowTypes, ConstantsAssumption
     DEF TypeOK, StateTypeOK, DeployTypeOK, RemoveTypeOK, DeployPhases, RemovePhases,
         Endings, End, ForgetDeploy, removeVars
<1>3. ASSUME secret' \in DeployedPackage, releases' \in [Chart -> Release],
             touched' \subseteq Chart, faults' \in 0..MaxFaults,
             deploys' = deploys, pkg' = pkg, i' = i, last' = last,
             k' \in Nat \ {0}, gen' \in Nat \ {0}, installed' \in Rows,
             done' \in [Component -> DeployedComponent],
             pc \in DeployPhases, pc' \in {"install", "cleanup", "success"},
             i <= Len(Def[pkg].comps)
      PROVE  TypeOK'
  BY <1>0, <1>3
     DEF TypeOK, StateTypeOK, DeployTypeOK, RemoveTypeOK, DeployPhases, RemovePhases, removeVars
<1>4. CASE ConnectFails
  BY <1>2, <1>4, ConstantsAssumption DEF ConnectFails, Fault, TypeOK, StateTypeOK, DeployTypeOK
<1>5. CASE BeginComponent
  <2>1. /\ pkg \in Pkg /\ current \in Component
        /\ InstalledChartsFor(secret, current) \in Rows
        /\ i <= Len(Def[pkg].comps)
    BY <1>5, DeployFacts DEF BeginComponent
  <2>3. /\ gen' \in Nat \ {0}
        /\ done' \in [Component -> DeployedComponent]
        /\ secret' \in DeployedPackage
        /\ faults' \in 0..MaxFaults
    <3>1. CASE connected'
      <4>1. PICK genRead \in Answers("read"), chartsRead \in Answers("read"),
                 wrote \in Answers("write") :
              /\ gen' = PackageGeneration(current \in Def[pkg].cluster, genRead)
              /\ done' = [done EXCEPT ![current] =
                            [status |-> "Deploying",
                             gen    |-> gen',
                             charts |-> IF chartsRead THEN InstalledChartsFor(secret, current)
                                                      ELSE NoRows]]
              /\ ApplySecret([pkg |-> pkg, gen |-> gen', comps |-> done'], wrote)
              /\ Spend(genRead /\ chartsRead /\ wrote)
        BY <1>5, <3>1, Zenon DEF BeginComponent
      <4>2. gen' \in Nat \ {0}
        BY <4>1 DEF PackageGeneration, TypeOK, StateTypeOK, DeployedPackage
      <4>3. done' \in [Component -> DeployedComponent]
        BY <4>1, <4>2, <2>1, RowTypes DEF TypeOK, DeployTypeOK, DeployedComponent, ComponentStatus
      <4>4. secret' \in DeployedPackage
        BY <4>1, <4>2, <4>3, <2>1 DEF ApplySecret, DeployedPackage, TypeOK, StateTypeOK
      <4>5. faults' \in 0..MaxFaults
        BY <4>1, SpendFacts
      <4> QED
        BY <4>2, <4>3, <4>4, <4>5
    <3>2. CASE ~connected'
      <4>1. /\ gen' = 1 /\ secret' = secret /\ faults' = faults
            /\ done' = [done EXCEPT ![current] =
                          [status |-> "Deploying", gen |-> 1, charts |-> NoRows]]
        BY <1>5, <3>2, Zenon DEF BeginComponent
      <4> QED
        BY <4>1, <2>1, RowTypes
           DEF TypeOK, StateTypeOK, DeployTypeOK, DeployedComponent, ComponentStatus
    <3> QED
      BY <3>1, <3>2, Zenon
  <2> QED
    BY <1>3, <1>5, <2>1, <2>3, RowTypes
       DEF BeginComponent, Goto, TypeOK, StateTypeOK, DeployTypeOK, DeployPhases
<1>6. CASE InstallChart \/ InstallChartFails
  <2>1. pkg \in Pkg /\ current \in Component /\ chartsOfCurrent[k] \in Chart
    BY <1>6, DeployFacts DEF InstallChart, InstallChartFails, TypeOK, DeployTypeOK
  <2>2. releases[chartsOfCurrent[k]] \in Release
    BY <2>1 DEF TypeOK, StateTypeOK
  <2>3. releases' \in [Chart -> Release]
    BY <1>6, <2>1, <2>2, UpgradedType
       DEF InstallChart, InstallChartFails, TypeOK, StateTypeOK
  <2>4. touched' \subseteq Chart
    BY <1>6, <2>1 DEF InstallChart, InstallChartFails, TypeOK, DeployTypeOK
  <2>5. installed' \in Rows
    BY <1>6, <2>1, RowTypes
       DEF InstallChart, InstallChartFails, Returned, TypeOK, DeployTypeOK, Rows, Row, ChartStatus
  <2>6. faults' \in 0..MaxFaults
    BY <1>6, ConstantsAssumption DEF InstallChart, InstallChartFails, Fault, TypeOK, StateTypeOK
  <2> QED
    BY <1>3, <1>6, <2>3, <2>4, <2>5, <2>6
       DEF InstallChart, InstallChartFails, Goto, TypeOK, StateTypeOK, DeployTypeOK, DeployPhases
<1>7. CASE ComponentStepFails \/ ManifestTemplateFails
  <2>1. installed' \in Rows
    BY <1>7, RowTypes
       DEF ComponentStepFails, ManifestTemplateFails, Returned, TypeOK, DeployTypeOK, Rows, ChartStatus
  <2>2. faults' \in 0..MaxFaults
    BY <1>7, ConstantsAssumption
       DEF ComponentStepFails, ManifestTemplateFails, Fault, TypeOK, StateTypeOK
  <2> QED
    BY <1>3, <1>7, <2>1, <2>2
       DEF ComponentStepFails, ManifestTemplateFails, Goto, TypeOK, StateTypeOK, DeployTypeOK, DeployPhases
<1>8. ASSUME pc \in {"install", "cleanup"}, NEW status \in ComponentStatus
      PROVE  RecordedAs(status) \in [Component -> DeployedComponent]
  <2>1. current \in Component /\ done[current] \in DeployedComponent /\ done[current].charts \in Rows
    BY <1>8, DeployFacts
  <2>2. MergeInstalledChartsForComponent(done[current].charts, installed) \in Rows
    BY <2>1, MergeType DEF TypeOK, DeployTypeOK
  <2> QED
    BY <1>8, <2>1, <2>2 DEF RecordedAs, TypeOK, DeployTypeOK, DeployedComponent
<1>9. CASE ComponentSucceeds
  <2>1. done' \in [Component -> DeployedComponent] /\ pkg \in Pkg
    BY <1>8, <1>9, DeployFacts DEF ComponentSucceeds, ComponentStatus
  <2>2. secret' \in DeployedPackage /\ faults' \in 0..MaxFaults
    <3>1. CASE connected
      <4>1. PICK wrote \in Answers("write") :
              /\ ApplySecret([pkg |-> pkg, gen |-> gen, comps |-> done'], wrote)
              /\ Spend(wrote)
        BY <1>9, <3>1, Zenon DEF ComponentSucceeds
      <4>2. faults' \in 0..MaxFaults
        BY <4>1, SpendOne
      <4> QED
        BY <4>1, <4>2, <2>1 DEF ApplySecret, DeployedPackage, TypeOK, StateTypeOK, DeployTypeOK
    <3>2. CASE ~connected
      BY <1>9, <3>2 DEF ComponentSucceeds, TypeOK, StateTypeOK
    <3> QED
      BY <3>1, <3>2, Zenon
  <2> QED
    BY <1>3, <1>9, <2>1, <2>2
       DEF ComponentSucceeds, Goto, TypeOK, StateTypeOK, DeployTypeOK, DeployPhases
<1>10. CASE Cleanup
  <2>1. RecordedAs("Failed") \in [Component -> DeployedComponent] /\ pkg \in Pkg
    BY <1>8, <1>10, DeployFacts DEF Cleanup, ComponentStatus
  <2>2. secret' \in DeployedPackage /\ faults' \in 0..MaxFaults
    BY <1>10, <2>1, ConstantsAssumption
       DEF Cleanup, Fault, DeployedPackage, TypeOK, StateTypeOK, DeployTypeOK
  <2> QED
    BY <1>2, <1>10, <2>2 DEF Cleanup, TypeOK, StateTypeOK, DeployTypeOK
<1>11. CASE OnSuccess
  BY <1>0, <1>11
     DEF OnSuccess, Goto, TypeOK, StateTypeOK, DeployTypeOK, RemoveTypeOK, DeployPhases,
         RemovePhases, removeVars
<1>12. CASE OnSuccessFails \/ DeployEnds
  BY <1>2, <1>12, ConstantsAssumption
     DEF OnSuccessFails, DeployEnds, Fault, TypeOK, StateTypeOK, DeployTypeOK
<1>13. CASE DeployKilled
  <2>1. releases' \in [Chart -> Release] /\ touched' \subseteq Chart
    <3>1. CASE UNCHANGED <<releases, touched>>
      BY <3>1 DEF TypeOK, StateTypeOK, DeployTypeOK
    <3>2. CASE pc = "install" /\ ~UNCHANGED <<releases, touched>>
      <4>1. chartsOfCurrent[k] \in Chart /\ pkg \in Pkg
        BY <1>13, <3>2, DeployFacts DEF DeployKilled, TypeOK, DeployTypeOK
      <4>2. PICK rel \in Interrupted(releases[chartsOfCurrent[k]], pkg) :
               /\ releases' = [releases EXCEPT ![chartsOfCurrent[k]] = rel]
               /\ touched' = touched \cup {chartsOfCurrent[k]}
        BY <1>13, <3>2 DEF DeployKilled
      <4>3. rel \in Release
        BY <4>1, <4>2, InterruptedType DEF TypeOK, StateTypeOK
      <4> QED
        BY <4>1, <4>2, <4>3 DEF TypeOK, StateTypeOK, DeployTypeOK
    <3> QED
      BY <1>13, <3>1, <3>2 DEF DeployKilled
  <2> QED
    BY <1>2, <1>13, <2>1, ConstantsAssumption DEF DeployKilled, Fault, TypeOK, StateTypeOK
<1> QED
  BY <1>1, <1>4, <1>5, <1>6, <1>7, <1>9, <1>10, <1>11, <1>12, <1>13 DEF DeployNext, DeployStep

LEMMA RemoveStepType ==
    ASSUME TypeOK, RemoveNext, UNCHANGED deployVars
    PROVE  TypeOK'
<1>0. cancelled' \in BOOLEAN
  BY FlagsType DEF Next
\* A remove step touches neither the deploy's memory nor its phases.
<1>1. ASSUME pc' \notin DeployPhases PROVE DeployTypeOK'
  BY <1>1 DEF TypeOK, DeployTypeOK, DeployPhases, deployVars
<1>2. ASSUME secret' \in DeployedPackage, releases' \in [Chart -> Release], target' = target,
             faults' \in 0..MaxFaults, ForgetRemove,
             End("removeFailed") \/ End("removed") \/ End("killed")
      PROVE  TypeOK'
  BY <1>0, <1>1, <1>2, RowTypes
     DEF TypeOK, StateTypeOK, RemoveTypeOK, DeployPhases, RemovePhases, Endings, End, ForgetRemove
<1>3. ASSUME NEW p \in Pkg, NEW cs \in SUBSET Component, Remove(p, cs) PROVE TypeOK'
  <2>1. target' \subseteq Chart
    BY <1>3 DEF Remove, ChartsIn
  <2>2. todo' \subseteq Component
    BY <1>3 DEF Remove
  <2>3. dep' \in DeployedPackage /\ dep'.pkg \in Pkg
    <3>1. DefinedComponents(cs) \in [Component -> DeployedComponent]
      BY RowTypes DEF DefinedComponents, NoComponent, DeployedComponent, ComponentStatus
    <3> QED
      BY <1>3, <3>1 DEF Remove, Exists, DeployedPackage, TypeOK, StateTypeOK
  <2> QED
    BY <1>0, <1>1, <1>3, <2>1, <2>2, <2>3
       DEF Remove, DeployPhases, RemovePhases, Endings, Goto, TypeOK, StateTypeOK, RemoveTypeOK
<1>4. CASE BeginRemoveComponent
  BY <1>1, <1>4 DEF BeginRemoveComponent, Listed, DeployPhases, RemovePhases,
     Goto, TypeOK, StateTypeOK, RemoveTypeOK
<1>5. CASE UninstallChart
  <2>1. PICK x \in left \ {Blank} :
          /\ releases' = [releases EXCEPT ![x] = NoRelease]
          /\ left' = left \ {x}
          /\ dep' = [dep EXCEPT !.comps[comp].charts = DeleteChart(@, x)]
    BY <1>5 DEF UninstallChart
  <2>2. x \in Chart /\ comp \in Component /\ dep.comps[comp] \in DeployedComponent
    BY <1>5, <2>1 DEF UninstallChart, Row, TypeOK, RemoveTypeOK, DeployedPackage
  <2>3. DeleteChart(dep.comps[comp].charts, x) \in Rows
    BY <2>2, DeleteType DEF DeployedComponent
  <2>4. dep' \in DeployedPackage /\ dep'.pkg = dep.pkg
    BY <2>1, <2>2, <2>3 DEF DeployedPackage, DeployedComponent, TypeOK, RemoveTypeOK
  <2>5. releases' \in [Chart -> Release]
    BY <2>1, <2>2, RowTypes DEF TypeOK, StateTypeOK
  <2> QED
    BY <1>1, <1>5, <2>1, <2>4, <2>5
       DEF UninstallChart, DeployPhases, RemovePhases, Goto, TypeOK, StateTypeOK, RemoveTypeOK
<1>6. CASE UpdateAfterChart
  <2>1. PICK wrote \in Answers("write") : ApplySecret(dep, wrote) /\ Spend(wrote)
    BY <1>6 DEF UpdateAfterChart
  <2>2. faults' \in 0..MaxFaults
    BY <2>1, SpendOne
  <2> QED
    BY <1>0, <1>1, <1>6, <2>1, <2>2
       DEF UpdateAfterChart, ApplySecret, DeployPhases, RemovePhases, Goto, TypeOK, StateTypeOK, RemoveTypeOK
<1>7. CASE UninstallChartFails \/ RemoveKilled
  <2>1. releases' \in [Chart -> Release]
    <3>1. CASE releases' = releases
      BY <3>1 DEF TypeOK, StateTypeOK
    <3>2. CASE \E x \in left \ {Blank} : \E rel \in UninstallFailures(releases[x]) :
                 releases' = [releases EXCEPT ![x] = rel]
      <4>0. PICK x \in left \ {Blank} : \E rel \in UninstallFailures(releases[x]) :
               releases' = [releases EXCEPT ![x] = rel]
        BY <3>2
      <4>1. PICK rel \in UninstallFailures(releases[x]) : releases' = [releases EXCEPT ![x] = rel]
        BY <4>0
      <4>2. x \in Chart /\ releases[x] \in Release
        BY <4>1 DEF Row, TypeOK, StateTypeOK, RemoveTypeOK
      <4>3. rel \in Release
        BY <4>1, <4>2, RowTypes DEF UninstallFailures, Release
      <4> QED
        BY <4>1, <4>2, <4>3 DEF TypeOK, StateTypeOK
    <3> QED
      BY <1>7, <3>1, <3>2 DEF UninstallChartFails, RemoveKilled
  <2> QED
    BY <1>2, <1>7, <2>1, ConstantsAssumption
       DEF UninstallChartFails, RemoveKilled, Fault, TypeOK, StateTypeOK
<1>8. CASE RemoveActionFails
  BY <1>2, <1>8, ConstantsAssumption DEF RemoveActionFails, Fault, TypeOK, StateTypeOK
<1>9. CASE RemoveComponent
  <2>1. PICK wrote \in Answers("write") : ApplySecret(dep', wrote) /\ Spend(wrote)
    BY <1>9 DEF RemoveComponent
  <2>2. faults' \in 0..MaxFaults
    BY <2>1, SpendOne
  <2>3. dep' \in DeployedPackage /\ dep'.pkg = dep.pkg
    BY <1>9, RowTypes DEF RemoveComponent, DeployedPackage, TypeOK, RemoveTypeOK
  <2>4. secret' \in DeployedPackage
    BY <2>1, <2>3 DEF ApplySecret, TypeOK, StateTypeOK
  <2> QED
    BY <1>0, <1>1, <1>9, <2>2, <2>3, <2>4
       DEF RemoveComponent, DeployPhases, RemovePhases, Goto, TypeOK, StateTypeOK, RemoveTypeOK
<1>10. CASE RemoveEnds
  <2>1. secret' \in DeployedPackage /\ faults' \in 0..MaxFaults
    <3>1. CASE Recorded(dep.comps) = {}
      <4>1. PICK deleted \in Answers("write") : ApplySecret(NoSecret, deleted) /\ Spend(deleted)
        BY <1>10, <3>1 DEF RemoveEnds
      <4> QED
        BY <4>1, SpendOne, RowTypes DEF ApplySecret, TypeOK, StateTypeOK
    <3>2. CASE Recorded(dep.comps) # {}
      BY <1>10, <3>2 DEF RemoveEnds, TypeOK, StateTypeOK
    <3> QED
      BY <3>1, <3>2
  <2> QED
    BY <1>2, <1>10, <2>1 DEF RemoveEnds, TypeOK, StateTypeOK
<1> QED
  BY <1>3, <1>4, <1>5, <1>6, <1>7, <1>8, <1>9, <1>10 DEF RemoveNext, RemoveStep

\* Types hold in every reachable state, and the two loops never leave their
\* lists, whatever fails, is cancelled or is killed.
THEOREM TypeCorrect == Spec => []TypeOK
<1>1. Init => TypeOK
  BY InitType
<1>2. TypeOK /\ [Next]_vars => TypeOK'
  <2> SUFFICES ASSUME TypeOK, [Next]_vars PROVE TypeOK'
    OBVIOUS
  <2>1. CASE DeployNext /\ UNCHANGED removeVars
    BY <2>1, DeployStepType
  <2>2. CASE RemoveNext /\ UNCHANGED deployVars
    BY <2>2, RemoveStepType
  <2>3. CASE Cancel
    <3>1. cancelled' \in BOOLEAN
      BY <2>3, FlagsType DEF Next
    <3> QED
      BY <2>3, <3>1, ConstantsAssumption
         DEF Cancel, Fault, TypeOK, StateTypeOK, DeployTypeOK, RemoveTypeOK, deployVars, removeVars
  <2>4. CASE UNCHANGED vars
    BY <2>4 DEF vars, stateVars, deployVars, removeVars, TypeOK, StateTypeOK, DeployTypeOK,
       RemoveTypeOK
  <2> QED
    BY <2>1, <2>2, <2>3, <2>4 DEF Next
<1> QED
  BY <1>1, <1>2, PTL DEF Spec

-----------------------------------------------------------------------------
(* Consistent records.                                                     *)

LEMMA EmptyRecords == NothingUnlisted(NoComponents)
BY DEF NothingUnlisted, NoComponents, NoComponent

LEMMA RecordsInit == Init => RecordsConsistent
BY EmptyRecords
   DEF Init, StateInit, DeployInit, RemoveInit, RecordsConsistent, NoSecret, RemovePhases

LEMMA RecordsDeploy ==
    ASSUME TypeOK, RecordsConsistent, DeployNext, UNCHANGED removeVars
    PROVE  RecordsConsistent'
<1> USE DEF RecordsConsistent, DeployPhases, RemovePhases, removeVars
<1>1. ASSUME NothingUnlisted(secret'.comps), NothingUnlisted(done'), pc' \notin RemovePhases
      PROVE  RecordsConsistent'
  BY <1>1
<1>2. ASSUME NEW p \in Pkg, Deploy(p) PROVE RecordsConsistent'
  BY <1>2 DEF Deploy, Goto
<1>3. ASSUME secret' = secret, ForgetDeploy, pc' = "idle" PROVE RecordsConsistent'
  BY <1>3, EmptyRecords DEF ForgetDeploy
<1>4. CASE ConnectFails \/ OnSuccessFails \/ DeployEnds \/ DeployKilled
  BY <1>3, <1>4 DEF ConnectFails, OnSuccessFails, DeployEnds, DeployKilled, End
<1>5. CASE InstallChart \/ InstallChartFails \/ ComponentStepFails \/ ManifestTemplateFails
           \/ OnSuccess
  BY <1>5 DEF InstallChart, InstallChartFails, ComponentStepFails, ManifestTemplateFails,
              OnSuccess, Goto
<1>6. CASE BeginComponent
  <2>1. \E g, rows : done' = [done EXCEPT ![current] =
                                [status |-> "Deploying", gen |-> g, charts |-> rows]]
    BY <1>6 DEF BeginComponent
  <2>2. NothingUnlisted(done')
    BY <2>1 DEF NothingUnlisted, TypeOK, DeployTypeOK
  <2>3. secret' = secret \/ secret'.comps = done'
    BY <1>6 DEF BeginComponent, ApplySecret
  <2> QED
    BY <1>1, <1>6, <2>2, <2>3 DEF BeginComponent, Goto
<1>7. ASSUME NEW status, status # "none" PROVE NothingUnlisted(RecordedAs(status))
  BY <1>7 DEF RecordedAs, NothingUnlisted, TypeOK, DeployTypeOK, DeployedComponent
<1>8. CASE ComponentSucceeds
  <2>1. NothingUnlisted(done')
    BY <1>7, <1>8 DEF ComponentSucceeds
  <2>2. secret' = secret \/ secret'.comps = done'
    BY <1>8 DEF ComponentSucceeds, ApplySecret
  <2> QED
    BY <1>1, <1>8, <2>1, <2>2 DEF ComponentSucceeds, Goto
<1>9. CASE Cleanup
  <2>1. secret' = secret \/ secret'.comps = RecordedAs("Failed")
    BY <1>9 DEF Cleanup
  <2> QED
    BY <1>1, <1>7, <1>9, <2>1, EmptyRecords DEF Cleanup, End, ForgetDeploy
<1> QED
  BY <1>2, <1>4, <1>5, <1>6, <1>8, <1>9 DEF DeployNext, DeployStep

LEMMA RecordsRemove ==
    ASSUME TypeOK, RecordsConsistent, RemoveNext, UNCHANGED deployVars
    PROVE  RecordsConsistent'
<1> USE DEF RecordsConsistent, RemovePhases, deployVars
<1>1. ASSUME secret' = secret \/ secret' = NoSecret, ForgetRemove, pc' = "idle"
      PROVE  RecordsConsistent'
  BY <1>1, EmptyRecords DEF ForgetRemove, NoSecret
<1>2. ASSUME NEW p \in Pkg, NEW cs \in SUBSET Component, Remove(p, cs) PROVE RecordsConsistent'
  <2>1. NothingUnlisted(DefinedComponents(cs))
    BY DEF NothingUnlisted, DefinedComponents, NoComponent
  <2> QED
    BY <1>2, <2>1 DEF Remove, Goto, Recorded
<1>3. CASE BeginRemoveComponent
  BY <1>3 DEF BeginRemoveComponent, Goto
<1>4. CASE UninstallChart
  <2>1. PICK x \in left \ {Blank} :
          dep' = [dep EXCEPT !.comps[comp].charts = DeleteChart(@, x)]
    BY <1>4 DEF UninstallChart
  <2>2. comp \in Component /\ dep.comps[comp].status # "none"
    BY <1>4 DEF UninstallChart, Recorded, TypeOK, RemoveTypeOK
  <2>3. \A c \in Component : dep'.comps[c].status = dep.comps[c].status
    BY <2>1, <2>2 DEF TypeOK, RemoveTypeOK, DeployedPackage, DeployedComponent
  <2>4. \A c \in Component \ {comp} : dep'.comps[c] = dep.comps[c]
    BY <2>1, <2>2 DEF TypeOK, RemoveTypeOK, DeployedPackage
  <2>5. NothingUnlisted(dep'.comps)
    BY <2>2, <2>3, <2>4 DEF NothingUnlisted
  <2> QED
    BY <1>4, <2>3, <2>5 DEF UninstallChart, Goto, Recorded
<1>5. CASE UpdateAfterChart
  BY <1>5 DEF UpdateAfterChart, ApplySecret, Goto
<1>6. CASE RemoveComponent
  <2>1. dep' = [dep EXCEPT !.comps[comp] = NoComponent] /\ todo' = todo \ {comp}
        /\ secret' \in {secret, dep'} /\ pc = "uninstall"
    BY <1>6 DEF RemoveComponent, ApplySecret
  <2>2. \A c \in Component : dep'.comps[c] = IF c = comp THEN NoComponent ELSE dep.comps[c]
    BY <2>1 DEF TypeOK, RemoveTypeOK, DeployedPackage
  <2>3. NothingUnlisted(dep'.comps)
    BY <2>2 DEF NothingUnlisted, NoComponent
  <2>4. todo' \subseteq Recorded(dep'.comps)
    BY <2>1, <2>2 DEF Recorded
  <2> QED
    BY <1>6, <2>1, <2>3, <2>4 DEF RemoveComponent
<1>7. CASE UninstallChartFails \/ RemoveActionFails \/ RemoveEnds \/ RemoveKilled
  BY <1>1, <1>7 DEF UninstallChartFails, RemoveActionFails, RemoveEnds, RemoveKilled, End,
     ApplySecret
<1> QED
  BY <1>2, <1>3, <1>4, <1>5, <1>6, <1>7 DEF RemoveNext, RemoveStep

\* The records of every reachable state are consistent.
THEOREM RecordsAreConsistent == Spec => []RecordsConsistent
<1>1. TypeOK /\ RecordsConsistent /\ [Next]_vars => RecordsConsistent'
  <2> SUFFICES ASSUME TypeOK, RecordsConsistent, [Next]_vars PROVE RecordsConsistent'
    OBVIOUS
  <2>1. CASE Cancel
    BY <2>1 DEF Cancel, deployVars, removeVars, RecordsConsistent
  <2>2. CASE UNCHANGED vars
    BY <2>2 DEF vars, stateVars, deployVars, removeVars, RecordsConsistent
  <2> QED
    BY <2>1, <2>2, RecordsDeploy, RecordsRemove DEF Next
<1> QED
  BY <1>1, RecordsInit, TypeCorrect, PTL DEF Spec

-----------------------------------------------------------------------------
(* A remove that reports success has uninstalled its target.               *)

\* A remove whose components all need the cluster works on the secret.
LEMMA RemoveReadsSecret ==
    ASSUME EveryComponentNeedsCluster, NEW p \in Pkg, NEW cs \in SUBSET Component, Remove(p, cs)
    PROVE  dep' = secret
<1>1. cs \cap Def[p].cluster # {}
  BY DEF EveryComponentNeedsCluster, Remove
<1> QED
  BY <1>1 DEF Remove, RequiresCluster

LEMMA RemoveProgressStep ==
    ASSUME EveryComponentNeedsCluster, TypeOK, RecordsConsistent, RemoveProgress, [Next]_vars
    PROVE  RemoveProgress'
<1> USE DEF DeployPhases, RemovePhases, RemoveUninstallsTarget
<1>1. ASSUME pc' = "idle", last' # "removed" PROVE RemoveProgress'
  BY <1>1 DEF RemoveProgress
<1>2. CASE DeployNext /\ UNCHANGED removeVars
  <2>1. ASSUME NEW p \in Pkg, Deploy(p) PROVE RemoveProgress'
    BY <2>1 DEF Deploy, Goto, RemoveProgress
  <2>2. CASE ConnectFails \/ Cleanup \/ OnSuccessFails \/ DeployEnds \/ DeployKilled
    BY <1>1, <2>2 DEF ConnectFails, Cleanup, OnSuccessFails, DeployEnds, DeployKilled, End
  <2>3. CASE BeginComponent \/ InstallChart \/ InstallChartFails \/ ComponentStepFails
             \/ ManifestTemplateFails \/ ComponentSucceeds \/ OnSuccess
    <3>1. /\ pc \in DeployPhases /\ pc' \in DeployPhases /\ last' = last
      BY <2>3 DEF BeginComponent, InstallChart, InstallChartFails, ComponentStepFails,
         ManifestTemplateFails, ComponentSucceeds, OnSuccess, Goto
    <3> QED
      BY <3>1 DEF RemoveProgress
  <2> QED
    BY <1>2, <2>1, <2>2, <2>3 DEF DeployNext, DeployStep
<1>3. CASE RemoveNext /\ UNCHANGED deployVars
  <2>1. ASSUME NEW p \in Pkg, NEW cs \in SUBSET Component, Remove(p, cs) PROVE RemoveProgress'
    <3>1. ASSUME NEW x \in target'
          PROVE  \E d \in todo' : dep'.comps[d].charts[x] # "none"
      <4>1. x \in Chart
        BY <2>1, <3>1 DEF Remove, ChartsIn
      <4>2. PICK d \in cs : secret.comps[d].charts[x] # "none"
        BY <2>1, <3>1 DEF Remove, ChartsIn
      <4>3. secret.comps[d].status # "none"
        BY <2>1, <4>1, <4>2 DEF RecordsConsistent, NothingUnlisted, NoRows, Row
      <4> QED
        BY <2>1, <4>2, <4>3, RemoveReadsSecret DEF Remove, Recorded
    <3> QED
      BY <2>1, <3>1 DEF Remove, Goto, RemoveProgress
  <2>2. CASE BeginRemoveComponent
    <3>1. PICK c \in todo : comp' = c /\ left' = Listed(dep.comps[c].charts)
      BY <2>2 DEF BeginRemoveComponent
    <3>2. target \subseteq Row
      BY DEF TypeOK, RemoveTypeOK, Row
    <3> QED
      BY <2>2, <3>1, <3>2 DEF BeginRemoveComponent, Listed, Goto, RemoveProgress
  <2>3. CASE UninstallChart
    <3>1. PICK x \in left \ {Blank} :
            /\ releases' = [releases EXCEPT ![x] = NoRelease]
            /\ left' = left \ {x}
            /\ dep' = [dep EXCEPT !.comps[comp].charts = DeleteChart(@, x)]
      BY <2>3 DEF UninstallChart
    <3>2. \A d \in todo \ {comp} : dep'.comps[d] = dep.comps[d]
      BY <3>1 DEF TypeOK, RemoveTypeOK, DeployedPackage
    <3>3. \A y \in target : ~Present(releases[y]) => ~Present(releases'[y])
      BY <3>1 DEF TypeOK, StateTypeOK, RemoveTypeOK, Present, NoRelease
    <3>4. ~Present(releases'[x]) \/ x \notin target
      BY <3>1 DEF TypeOK, StateTypeOK, RemoveTypeOK, Present, NoRelease
    <3> QED
      BY <2>3, <3>1, <3>2, <3>3, <3>4 DEF UninstallChart, Goto, RemoveProgress
  <2>4. CASE UpdateAfterChart
    BY <2>4 DEF UpdateAfterChart, Goto, RemoveProgress
  <2>5. CASE UninstallChartFails \/ RemoveActionFails \/ RemoveKilled
    BY <1>1, <2>5 DEF UninstallChartFails, RemoveActionFails, RemoveKilled, End
  <2>6. CASE RemoveComponent
    <3>1. \A d \in todo \ {comp} : dep'.comps[d] = dep.comps[d]
      BY <2>6 DEF RemoveComponent, TypeOK, RemoveTypeOK, DeployedPackage
    <3> QED
      BY <2>6, <3>1 DEF RemoveComponent, Goto, RemoveProgress
  <2>7. CASE RemoveEnds
    BY <2>7 DEF RemoveEnds, End, RemoveProgress
  <2> QED
    BY <1>3, <2>1, <2>2, <2>3, <2>4, <2>5, <2>6, <2>7 DEF RemoveNext, RemoveStep
<1>4. CASE Cancel
  BY <1>4 DEF Cancel, removeVars, RemoveProgress
<1>5. CASE UNCHANGED vars
  BY <1>5 DEF vars, stateVars, removeVars, RemoveProgress
<1> QED
  BY <1>2, <1>3, <1>4, <1>5 DEF Next

\* When every component needs the cluster and `zarf package remove` reports
\* success, every chart that the secret listed at its start for the requested components is uninstalled.
THEOREM RemoveIsComplete ==
    ASSUME EveryComponentNeedsCluster
    PROVE  Spec => []RemoveUninstallsTarget
<1>1. Init => RemoveProgress
  BY DEF Init, StateInit, RemoveProgress, RemoveUninstallsTarget
<1>2. TypeOK /\ RecordsConsistent /\ RemoveProgress /\ [Next]_vars => RemoveProgress'
  BY RemoveProgressStep
<1>3. RemoveProgress => RemoveUninstallsTarget
  BY DEF RemoveProgress
<1> QED
  BY <1>1, <1>2, <1>3, TypeCorrect, RecordsAreConsistent, PTL DEF Spec

-----------------------------------------------------------------------------
(* A remove never forgets a release that is still there.                   *)

\* Dropping a component whose charts are all uninstalled drops no chart.
LEMMA RemovedNothing ==
    ASSUME TypeOK, RecordCoversReleases, pc = "uninstall", left = {},
           dep' = [dep EXCEPT !.comps[comp] = NoComponent]
    PROVE  ListedIn(dep') = ListedIn(dep)
<1>1. \A y \in Chart : dep.comps[comp].charts[y] = "none"
  BY DEF RecordCoversReleases
<1>2. \A c \in Component : dep'.comps[c] = IF c = comp THEN NoComponent ELSE dep.comps[c]
  BY DEF TypeOK, RemoveTypeOK, DeployedPackage
<1>3. \A y \in Chart : NoComponent.charts[y] = "none"
  BY DEF NoComponent, NoRows, Row
<1>4. \A c \in Component, y \in Chart : dep'.comps[c].charts[y] = dep.comps[c].charts[y]
  BY <1>1, <1>2, <1>3
<1> QED
  BY <1>4 DEF ListedIn, ChartsIn

LEMMA CoverStep ==
    ASSUME DistinctChartNames, EveryComponentNeedsCluster, TypeOK, RecordsConsistent, RecordCoversReleases, [Next]_vars
    PROVE  RecordCoversReleases'
<1> USE DEF RecordCoversReleases, DeployPhases, RemovePhases
<1>1. ASSUME pc' \notin RemovePhases PROVE RecordCoversReleases'
  BY <1>1
<1>2. CASE DeployNext /\ UNCHANGED removeVars
  <2>1. pc' \in {"idle"} \cup DeployPhases
    <3>1. ASSUME NEW p \in Pkg, Deploy(p) PROVE pc' \in {"idle"} \cup DeployPhases
      BY <3>1 DEF Deploy, Goto
    <3> QED
      BY <1>2, <3>1 DEF DeployNext, DeployStep, ConnectFails, BeginComponent, InstallChart,
         InstallChartFails, ComponentStepFails, ManifestTemplateFails, ComponentSucceeds, Cleanup,
         OnSuccess, OnSuccessFails, DeployEnds, DeployKilled, Goto, End
  <2> QED
    BY <1>1, <2>1
<1>3. CASE RemoveNext /\ UNCHANGED deployVars
  <2>1. ASSUME NEW p \in Pkg, NEW cs \in SUBSET Component, Remove(p, cs) PROVE RecordCoversReleases'
    BY <2>1, RemoveReadsSecret DEF Remove, Goto
  <2>2. CASE BeginRemoveComponent
    BY <2>2 DEF BeginRemoveComponent, Listed, Row, Goto
  <2>3. CASE UninstallChart
    <3>1. PICK x \in left \ {Blank} :
            /\ releases' = [releases EXCEPT ![x] = NoRelease]
            /\ left' = left \ {x}
            /\ dep' = [dep EXCEPT !.comps[comp].charts = DeleteChart(@, x)]
      BY <2>3 DEF UninstallChart
    <3>2. x \in Chart /\ comp \in Component
      BY <2>3, <3>1 DEF UninstallChart, Row, TypeOK, RemoveTypeOK
    <3>3. \A y \in Chart : DeleteChart(dep.comps[comp].charts, x)[y]
                           = IF y = x THEN "none" ELSE dep.comps[comp].charts[y]
      BY <3>2, ConstantsAssumption DEF DeleteChart, DistinctChartNames, Row
    <3>4. \A c \in Component, y \in Chart : dep'.comps[c].charts[y]
            = IF c = comp /\ y = x THEN "none" ELSE dep.comps[c].charts[y]
      BY <3>1, <3>2, <3>3 DEF TypeOK, RemoveTypeOK, DeployedPackage, DeployedComponent
    <3>5. \A y \in Chart \ {x} : y \in ListedIn(dep) => y \in ListedIn(dep')
      BY <3>4 DEF ListedIn, ChartsIn
    <3>6. \A y \in Chart : releases'[y] = IF y = x THEN NoRelease ELSE releases[y]
      BY <3>1 DEF TypeOK, StateTypeOK
    <3>7. /\ pc = "uninstall" /\ pc' = "update" /\ secret' = secret /\ comp' = comp
      BY <2>3 DEF UninstallChart, Goto
    <3> QED
      BY <3>1, <3>2, <3>4, <3>5, <3>6, <3>7
  <2>4. CASE UpdateAfterChart
    BY <2>4 DEF UpdateAfterChart, ApplySecret, Goto
  <2>5. CASE RemoveComponent
    <3>1. /\ pc = "uninstall" /\ left = {} /\ pc' = "remove" /\ releases' = releases
          /\ secret' \in {secret, dep'}
          /\ dep' = [dep EXCEPT !.comps[comp] = NoComponent]
      BY <2>5 DEF RemoveComponent, ApplySecret, Goto
    <3>2. ListedIn(dep') = ListedIn(dep)
      BY <3>1, RemovedNothing
    <3> QED
      BY <3>1, <3>2
  <2>6. CASE UninstallChartFails \/ RemoveActionFails \/ RemoveEnds \/ RemoveKilled
    BY <1>1, <2>6 DEF UninstallChartFails, RemoveActionFails, RemoveEnds, RemoveKilled, End
  <2> QED
    BY <1>3, <2>1, <2>2, <2>3, <2>4, <2>5, <2>6 DEF RemoveNext, RemoveStep
<1>4. CASE Cancel
  BY <1>4 DEF Cancel, removeVars
<1>5. CASE UNCHANGED vars
  BY <1>5 DEF vars, stateVars, removeVars
<1> QED
  BY <1>2, <1>3, <1>4, <1>5 DEF Next

LEMMA ForgetStep ==
    ASSUME TypeOK, RecordsConsistent, RecordCoversReleases, [Next]_vars,
           NEW x \in Chart, pc \in RemovePhases, x \in ListedIn(secret) \ ListedIn(secret')
    PROVE  releases[x] = NoRelease
<1> USE DEF RecordCoversReleases, DeployPhases, RemovePhases
<1>1. secret' # secret
  OBVIOUS
<1>2. CASE UpdateAfterChart
  BY <1>1, <1>2 DEF UpdateAfterChart, ApplySecret
<1>3. CASE RemoveComponent
  <2>1. /\ pc = "uninstall" /\ left = {} /\ secret' = dep'
        /\ dep' = [dep EXCEPT !.comps[comp] = NoComponent]
    BY <1>1, <1>3 DEF RemoveComponent, ApplySecret
  <2>2. ListedIn(dep') = ListedIn(dep)
    BY <2>1, RemovedNothing
  <2> QED
    BY <2>1, <2>2
<1>4. CASE RemoveEnds
  <2>1. Recorded(dep.comps) = {}
    BY <1>1, <1>4 DEF RemoveEnds
  <2>2. x \notin ListedIn(dep)
    BY <2>1 DEF Recorded, ListedIn, ChartsIn, RecordsConsistent, NothingUnlisted, NoRows, Row
  <2> QED
    BY <2>2
<1>5. ~(DeployNext /\ UNCHANGED removeVars)
  <2>1. ASSUME NEW p \in Pkg, Deploy(p) PROVE FALSE
    BY <2>1 DEF Deploy
  <2> QED
    BY <2>1 DEF DeployNext, DeployStep, ConnectFails, BeginComponent, InstallChart,
       InstallChartFails, ComponentStepFails, ManifestTemplateFails, ComponentSucceeds, Cleanup,
       OnSuccess, OnSuccessFails, DeployEnds, DeployKilled
<1>6. ASSUME RemoveNext PROVE UpdateAfterChart \/ RemoveComponent \/ RemoveEnds
  <2>1. ASSUME NEW p \in Pkg, NEW cs \in SUBSET Component, Remove(p, cs) PROVE FALSE
    BY <2>1 DEF Remove
  <2> QED
    BY <1>1, <1>6, <2>1 DEF RemoveNext, RemoveStep, BeginRemoveComponent, UninstallChart,
       UninstallChartFails, RemoveActionFails, RemoveKilled
<1>7. ~Cancel /\ ~UNCHANGED vars
  BY <1>1 DEF Cancel, vars, stateVars
<1> QED
  BY <1>2, <1>3, <1>4, <1>5, <1>6, <1>7 DEF Next

\* When every component needs the cluster and no release name is used in two
\* namespaces, a remove writes a chart out
\* of the secret only after its release is gone.
THEOREM RemoveForgetsOnlyTheUninstalled ==
    ASSUME DistinctChartNames, EveryComponentNeedsCluster
    PROVE  Spec => UninstalledBeforeForgotten
<1>1. Init => RecordCoversReleases
  BY DEF Init, StateInit, RecordCoversReleases, RemovePhases
<1>2. TypeOK /\ RecordsConsistent /\ RecordCoversReleases /\ [Next]_vars => RecordCoversReleases'
  BY CoverStep
<1>3. TypeOK /\ RecordsConsistent /\ RecordCoversReleases /\ [Next]_vars =>
        [\A x \in Chart : pc \in RemovePhases /\ x \in ListedIn(secret) \ ListedIn(secret')
            => releases[x] = NoRelease]_vars
  BY ForgetStep
<1> QED
  BY <1>1, <1>2, <1>3, TypeCorrect, RecordsAreConsistent, PTL
     DEF Spec, UninstalledBeforeForgotten

-----------------------------------------------------------------------------
(* What the records of a deploy say of the releases, for all packages and  *)
(* any sequence of deploys and removes.  The faults that a theorem         *)
(* excludes are those with which its property does not hold of the code.   *)

-----------------------------------------------------------------------------
(* What the three steps that record a component do.                        *)

\* The context of the CLI is intact and the API server answers.
Reliable(kind) == ~cancelled /\ kind \notin Faults

LEMMA ReliableAnswers ==
    ASSUME NEW kind, Reliable(kind) PROVE Answers(kind) = {TRUE}
BY DEF Reliable, Answers

\* The secret was replaced by the components of list, in version pkg.
Wrote(list) == secret'.comps = list /\ secret'.pkg = pkg

LEMMA BeginFacts ==
    ASSUME TypeOK, BeginComponent
    PROVE  /\ pkg \in Pkg /\ current \in Component /\ i <= Len(Def[pkg].comps)
           /\ pc = "component" /\ pc' = "install" /\ k' = 1 /\ installed' = NoRows
           /\ UNCHANGED <<releases, cancelled, last, pkg, i, touched>>
           /\ connected' <=> connected \/ current \in Def[pkg].cluster
           /\ done'[current].status = "Deploying"
           /\ \A c \in Component \ {current} : done'[c] = done[c]
           /\ secret' = secret \/ Wrote(done')
           /\ connected' /\ Reliable("write") => Wrote(done')
           /\ connected' /\ Reliable("read") => done'[current].charts = secret.comps[current].charts
<1>1. /\ pkg \in Pkg /\ current \in Component /\ i <= Len(Def[pkg].comps)
  BY DeployFacts DEF BeginComponent
<1>2. /\ pc = "component" /\ pc' = "install" /\ k' = 1 /\ installed' = NoRows
      /\ UNCHANGED <<releases, cancelled, last, pkg, i, touched>>
  BY DEF BeginComponent, Goto
<1>3. connected' = (connected \/ current \in Def[pkg].cluster)
  BY DEF BeginComponent
<1>4. done \in [Component -> DeployedComponent]
  BY DEF TypeOK, DeployTypeOK
<1>5. CASE connected'
  <2>1. PICK genRead \in Answers("read"), chartsRead \in Answers("read"),
             wrote \in Answers("write") :
          /\ done' = [done EXCEPT ![current] =
                        [status |-> "Deploying",
                         gen    |-> gen',
                         charts |-> IF chartsRead THEN InstalledChartsFor(secret, current)
                                                  ELSE NoRows]]
          /\ ApplySecret([pkg |-> pkg, gen |-> gen', comps |-> done'], wrote)
    BY <1>5, Zenon DEF BeginComponent
  <2>2. Reliable("read") => chartsRead = TRUE
    BY <2>1, ReliableAnswers
  <2>3. Reliable("write") => wrote = TRUE
    BY <2>1, ReliableAnswers
  <2>4. secret' = secret \/ Wrote(done')
    BY <2>1 DEF ApplySecret, Wrote
  <2>5. Reliable("write") => Wrote(done')
    BY <2>1, <2>3 DEF ApplySecret, Wrote
  <2>6. Reliable("read") => done'[current].charts = secret.comps[current].charts
    BY <2>1, <2>2, <1>1, <1>4 DEF InstalledChartsFor
  <2>7. done'[current].status = "Deploying" /\ \A c \in Component \ {current} : done'[c] = done[c]
    BY <2>1, <1>1, <1>4
  <2> QED
    BY <1>1, <1>2, <1>3, <2>4, <2>5, <2>6, <2>7
<1>6. CASE ~connected'
  <2>1. /\ secret' = secret
        /\ done' = [done EXCEPT ![current] =
                      [status |-> "Deploying", gen |-> 1, charts |-> NoRows]]
    BY <1>6, Zenon DEF BeginComponent
  <2> QED
    BY <1>1, <1>2, <1>3, <1>4, <1>6, <2>1
<1> QED
  BY <1>5, <1>6

\* What the outcome of the current component looks like in the list.
LEMMA RecordedFacts ==
    ASSUME TypeOK, pc \in {"install", "cleanup"}, NEW status
    PROVE  /\ pkg \in Pkg /\ current \in Component /\ i <= Len(Def[pkg].comps)
           /\ RecordedAs(status)[current].status = status
           /\ \A r \in Row : RecordedAs(status)[current].charts[r] =
                 IF installed[r] # "none" THEN installed[r] ELSE done[current].charts[r]
           /\ \A c \in Component \ {current} : RecordedAs(status)[c] = done[c]
<1>1. /\ pkg \in Pkg /\ current \in Component /\ i <= Len(Def[pkg].comps)
  BY DeployFacts DEF TypeOK, DeployTypeOK
<1>2. done \in [Component -> DeployedComponent]
  BY DEF TypeOK, DeployTypeOK
<1>3. RecordedAs(status)[current].status = status
  BY <1>1, <1>2 DEF RecordedAs, DeployedComponent
<1>4. RecordedAs(status)[current].charts
        = MergeInstalledChartsForComponent(done[current].charts, installed)
  BY <1>1, <1>2 DEF RecordedAs, DeployedComponent
<1>5. \A c \in Component \ {current} : RecordedAs(status)[c] = done[c]
  BY <1>1, <1>2 DEF RecordedAs, DeployedComponent
<1> QED
  BY <1>1, <1>3, <1>4, <1>5 DEF MergeInstalledChartsForComponent

LEMMA SucceedsFacts ==
    ASSUME TypeOK, ComponentSucceeds
    PROVE  /\ pc = "install" /\ pc' = "success" /\ k > Len(chartsOfCurrent)
           /\ UNCHANGED <<releases, cancelled, last, pkg, i, connected, touched>>
           /\ done' = RecordedAs("Succeeded")
           /\ secret' = secret \/ Wrote(done')
           /\ connected /\ Reliable("write") => Wrote(done')
<1>1. /\ pc = "install" /\ pc' = "success" /\ k > Len(chartsOfCurrent)
      /\ UNCHANGED <<releases, cancelled, last, pkg, i, connected, touched>>
      /\ done' = RecordedAs("Succeeded")
  BY DEF ComponentSucceeds, Goto
<1>2. CASE connected
  <2>1. PICK wrote \in Answers("write") :
          ApplySecret([pkg |-> pkg, gen |-> gen, comps |-> done'], wrote)
    BY <1>2, Zenon DEF ComponentSucceeds
  <2>2. Reliable("write") => wrote = TRUE
    BY <2>1, ReliableAnswers
  <2> QED
    BY <1>1, <2>1, <2>2 DEF ApplySecret, Wrote
<1>3. CASE ~connected
  BY <1>1, <1>3 DEF ComponentSucceeds
<1> QED
  BY <1>2, <1>3

LEMMA CleanupFacts ==
    ASSUME TypeOK, Cleanup
    PROVE  /\ pc = "cleanup" /\ pc' = "idle" /\ last' = "deployFailed" /\ cancelled' = FALSE
           /\ UNCHANGED <<releases, touched>> /\ ForgetDeploy
           /\ secret' = secret \/ Wrote(RecordedAs("Failed"))
           /\ connected /\ "write" \notin Faults => Wrote(RecordedAs("Failed"))
BY DEF Cleanup, End, Fault, Wrote

-----------------------------------------------------------------------------
(* Which components a record names.                                        *)

\* The components that comps records are components of version p.
PartOf(comps, p) ==
    \A c \in Recorded(comps) : p \in Pkg /\ \E n \in DOMAIN Def[p].comps : Def[p].comps[n] = c

\* A deploy has recorded components up to the one at hand, and every record
\* names components of its own version only.
RecordedSoFar ==
    /\ pc \notin DeployPhases => done = NoComponents /\ i = 1
    /\ pc = "component" =>
          /\ i <= Len(Def[pkg].comps) + 1
          /\ \A c \in Recorded(done) : \E n \in 1..i - 1 : Def[pkg].comps[n] = c
    /\ pc \in DeployPhases \ {"component"} =>
          /\ current \in Recorded(done)
          /\ \A c \in Recorded(done) : \E n \in 1..i : Def[pkg].comps[n] = c
    /\ PartOf(secret.comps, secret.pkg)
    /\ PartOf(dep.comps, dep.pkg)

LEMMA NothingRecorded == Recorded(NoComponents) = {} /\ PartOf(NoSecret.comps, NoSecret.pkg)
BY DEF Recorded, NoComponents, NoComponent, PartOf, NoSecret

\* A list of the components up to the current one belongs to the package.
LEMMA PrefixIsPart ==
    ASSUME NEW p \in Pkg, NEW comps, NEW n \in Nat, n <= Len(Def[p].comps),
           \A c \in Recorded(comps) : \E m \in 1..n : Def[p].comps[m] = c
    PROVE  PartOf(comps, p)
<1>1. Def[p].comps \in Seq(Component)
  BY ConstantsAssumption DEF PkgDef
<1>2. 1..n \subseteq DOMAIN Def[p].comps
  BY <1>1
<1> QED
  BY <1>2 DEF PartOf

\* The component at hand is not in the list yet.
LEMMA CurrentIsNew ==
    ASSUME TypeOK, RecordedSoFar, pc = "component", i <= Len(Def[pkg].comps)
    PROVE  current \notin Recorded(done)
<1>1. pkg \in Pkg /\ i \in Nat \ {0}
  BY DEF TypeOK, DeployTypeOK, DeployPhases
<1>2. Def[pkg].comps \in Seq(Component)
  BY <1>1, ConstantsAssumption DEF PkgDef
<1>3. \A n \in 1..i - 1 : n \in DOMAIN Def[pkg].comps /\ i \in DOMAIN Def[pkg].comps /\ n # i
  BY <1>1, <1>2
<1>4. \A n \in 1..i - 1 : Def[pkg].comps[n] # current
  BY <1>1, <1>3, PackagesAssumption DEF current
<1> QED
  BY <1>4 DEF RecordedSoFar

LEMMA RecordedDeploy ==
    ASSUME TypeOK, RecordedSoFar, DeployNext, UNCHANGED removeVars
    PROVE  RecordedSoFar'
<1> USE DEF RecordedSoFar, DeployPhases
<1>0. PartOf(dep'.comps, dep'.pkg)
  BY DEF removeVars
<1>1. ASSUME NEW p \in Pkg, Deploy(p) PROVE RecordedSoFar'
  <2>1. /\ pc' = "component" /\ done' = NoComponents /\ i' = 1 /\ pkg' = p /\ secret' = secret
    BY <1>1 DEF Deploy, Goto
  <2>2. Len(Def[p].comps) \in Nat
    BY ConstantsAssumption DEF PkgDef
  <2> QED
    BY <1>0, <2>1, <2>2, NothingRecorded
<1>2. ASSUME ForgetDeploy, pc' = "idle", PartOf(secret'.comps, secret'.pkg) PROVE RecordedSoFar'
  BY <1>0, <1>2 DEF ForgetDeploy
<1>3. CASE ConnectFails \/ OnSuccessFails \/ DeployEnds \/ DeployKilled
  BY <1>2, <1>3 DEF ConnectFails, OnSuccessFails, DeployEnds, DeployKilled, End
<1>4. CASE InstallChart \/ InstallChartFails \/ ComponentStepFails \/ ManifestTemplateFails
  <2>1. /\ pc = "install" /\ pc' \in {"install", "cleanup"}
        /\ UNCHANGED <<secret, done, i, pkg>>
    BY <1>4 DEF InstallChart, InstallChartFails, ComponentStepFails, ManifestTemplateFails, Goto
  <2> QED
    BY <1>0, <2>1 DEF current
<1>5. CASE OnSuccess
  <2>1. /\ pc = "success" /\ pc' = "component" /\ i' = i + 1 /\ UNCHANGED <<secret, done, pkg>>
    BY <1>5 DEF OnSuccess, Goto
  <2>2. i \in Nat /\ i <= Len(Def[pkg].comps) /\ pkg \in Pkg
    BY <2>1 DEF TypeOK, DeployTypeOK
  <2>3. Len(Def[pkg].comps) \in Nat
    BY <2>2, ConstantsAssumption DEF PkgDef
  <2> QED
    BY <1>0, <2>1, <2>2, <2>3
<1>6. CASE BeginComponent
  <2>1. \A c \in Recorded(done') : \E n \in 1..i : Def[pkg].comps[n] = c
    <3>1. i \in Nat \ {0}
      BY DEF TypeOK, DeployTypeOK
    <3>2. \A c \in Recorded(done') : c = current \/ c \in Recorded(done)
      BY <1>6, BeginFacts DEF Recorded
    <3>3. 1..i - 1 \subseteq 1..i /\ i \in 1..i
      BY <3>1
    <3> QED
      BY <1>6, <3>2, <3>3 DEF BeginComponent, current
  <2>2. PartOf(done', pkg)
    BY <1>6, <2>1, BeginFacts, PrefixIsPart DEF TypeOK, DeployTypeOK
  <2>3. PartOf(secret'.comps, secret'.pkg)
    BY <1>6, <2>2, BeginFacts DEF Wrote
  <2>4. current' \in Recorded(done')
    BY <1>6, BeginFacts DEF current, Recorded
  <2> QED
    BY <1>0, <1>6, <2>1, <2>3, <2>4, BeginFacts
<1>7. ASSUME pc \in {"install", "cleanup"}, NEW status
      PROVE  /\ \A c \in Recorded(RecordedAs(status)) : \E n \in 1..i : Def[pkg].comps[n] = c
             /\ PartOf(RecordedAs(status), pkg)
  <2>0. i \in Nat \ {0}
    BY DEF TypeOK, DeployTypeOK
  <2>1. \A c \in Recorded(RecordedAs(status)) : c = current \/ c \in Recorded(done)
    BY <1>7, RecordedFacts DEF Recorded
  <2>2. i \in 1..i
    BY <2>0
  <2>3. \A c \in Recorded(RecordedAs(status)) : \E n \in 1..i : Def[pkg].comps[n] = c
    BY <1>7, <2>1, <2>2 DEF current
  <2>4. pkg \in Pkg /\ i <= Len(Def[pkg].comps)
    BY <1>7, RecordedFacts
  <2>5. PartOf(RecordedAs(status), pkg)
    BY <2>0, <2>3, <2>4, PrefixIsPart
  <2> QED
    BY <2>3, <2>5
<1>8. CASE ComponentSucceeds
  <2>1. PartOf(secret'.comps, secret'.pkg)
    BY <1>7, <1>8, SucceedsFacts DEF Wrote
  <2>2. \A c \in Recorded(done') : \E n \in 1..i : Def[pkg].comps[n] = c
    BY <1>7, <1>8, SucceedsFacts
  <2>3. current' \in Recorded(done')
    BY <1>8, SucceedsFacts, RecordedFacts DEF current, Recorded
  <2> QED
    BY <1>0, <1>8, <2>1, <2>2, <2>3, SucceedsFacts
<1>9. CASE Cleanup
  <2>1. PartOf(secret'.comps, secret'.pkg)
    BY <1>7, <1>9, CleanupFacts DEF Wrote
  <2> QED
    BY <1>2, <1>9, <2>1, CleanupFacts
<1> QED
  BY <1>1, <1>3, <1>4, <1>5, <1>6, <1>8, <1>9 DEF DeployNext, DeployStep

LEMMA RecordedRemove ==
    ASSUME TypeOK, RecordedSoFar, RemoveNext, UNCHANGED deployVars
    PROVE  RecordedSoFar'
<1> USE DEF RecordedSoFar, DeployPhases
<1>1. ASSUME pc \notin DeployPhases, pc' \notin DeployPhases,
             PartOf(secret'.comps, secret'.pkg), PartOf(dep'.comps, dep'.pkg)
      PROVE  RecordedSoFar'
  BY <1>1 DEF deployVars
<1>2. ASSUME NEW p \in Pkg, NEW cs \in SUBSET Component, Remove(p, cs) PROVE RecordedSoFar'
  <2>1. PartOf(DefinedComponents(cs), p)
    BY <1>2 DEF Remove, PartOf, Recorded, DefinedComponents, NoComponent, Range
  <2> QED
    BY <1>1, <1>2, <2>1 DEF Remove, Goto
<1>3. CASE BeginRemoveComponent
  BY <1>1, <1>3 DEF BeginRemoveComponent, Goto
<1>4. CASE UninstallChart
  <2>1. PICK x \in left \ {Blank} :
          dep' = [dep EXCEPT !.comps[comp].charts = DeleteChart(@, x)]
    BY <1>4 DEF UninstallChart
  <2>2. \A c \in Component : dep'.comps[c].status = dep.comps[c].status
    BY <1>4, <2>1 DEF UninstallChart, TypeOK, RemoveTypeOK, DeployedPackage, DeployedComponent
  <2>3. dep'.pkg = dep.pkg
    BY <2>1 DEF TypeOK, RemoveTypeOK, DeployedPackage
  <2>4. PartOf(dep'.comps, dep'.pkg)
    BY <2>2, <2>3 DEF PartOf, Recorded
  <2> QED
    BY <1>1, <1>4, <2>4 DEF UninstallChart, Goto
<1>5. CASE UpdateAfterChart
  BY <1>1, <1>5 DEF UpdateAfterChart, ApplySecret, Goto
<1>6. CASE RemoveComponent
  <2>1. /\ dep' = [dep EXCEPT !.comps[comp] = NoComponent]
        /\ secret' \in {secret, dep'} /\ pc = "uninstall" /\ pc' = "remove"
    BY <1>6 DEF RemoveComponent, ApplySecret, Goto
  <2>2. \A c \in Component : dep'.comps[c] = IF c = comp THEN NoComponent ELSE dep.comps[c]
    BY <2>1 DEF TypeOK, RemoveTypeOK, DeployedPackage
  <2>3. dep'.pkg = dep.pkg
    BY <2>1 DEF TypeOK, RemoveTypeOK, DeployedPackage
  <2>4. PartOf(dep'.comps, dep'.pkg)
    BY <2>2, <2>3 DEF PartOf, Recorded, NoComponent
  <2> QED
    BY <1>1, <2>1, <2>4
<1>7. CASE UninstallChartFails \/ RemoveActionFails \/ RemoveEnds \/ RemoveKilled
  <2>1. secret' \in {secret, NoSecret} /\ dep' = NoSecret
    BY <1>7 DEF UninstallChartFails, RemoveActionFails, RemoveEnds, RemoveKilled, ForgetRemove,
       ApplySecret
  <2>2. pc \notin DeployPhases /\ pc' = "idle"
    BY <1>7 DEF UninstallChartFails, RemoveActionFails, RemoveEnds, RemoveKilled, End
  <2> QED
    BY <1>1, <2>1, <2>2, NothingRecorded
<1> QED
  BY <1>2, <1>3, <1>4, <1>5, <1>6, <1>7 DEF RemoveNext, RemoveStep

LEMMA RecordsNameTheirVersion == Spec => []RecordedSoFar
<1>1. Init => RecordedSoFar
  BY NothingRecorded DEF Init, StateInit, DeployInit, RemoveInit, RecordedSoFar, DeployPhases
<1>2. TypeOK /\ RecordedSoFar /\ [Next]_vars => RecordedSoFar'
  <2> SUFFICES ASSUME TypeOK, RecordedSoFar, [Next]_vars PROVE RecordedSoFar'
    OBVIOUS
  <2>1. CASE Cancel
    BY <2>1 DEF Cancel, deployVars, removeVars, RecordedSoFar, DeployPhases, current
  <2>2. CASE UNCHANGED vars
    BY <2>2 DEF vars, stateVars, deployVars, removeVars, RecordedSoFar, DeployPhases, current
  <2> QED
    BY <2>1, <2>2, RecordedDeploy, RecordedRemove DEF Next
<1> QED
  BY <1>1, <1>2, TypeCorrect, PTL DEF Spec

-----------------------------------------------------------------------------
(* A deploy's records keep the charts of the components they keep.         *)

\* The local list of a deploy lists every chart that the secret lists for a
\* component it has reached and that needs the cluster.
ChartsKept ==
    pc \in DeployPhases => \A c \in Recorded(done) \cap Def[pkg].cluster :
        Listed(secret.comps[c].charts) \subseteq Listed(done[c].charts)

\* The context of a CLI that is never signalled stays intact.
NotCancelled == "cancel" \notin Faults => ~cancelled

LEMMA NeverCancelled == Spec => []NotCancelled
<1>1. Init => NotCancelled
  BY DEF Init, StateInit, NotCancelled
<1>2. NotCancelled /\ [Next]_vars => NotCancelled'
  <2> SUFFICES ASSUME ~cancelled, "cancel" \notin Faults, [Next]_vars PROVE ~cancelled'
    BY DEF NotCancelled
  <2>1. \A ending : End(ending) => ~cancelled'
    BY DEF End
  <2>2. ASSUME NEW p \in Pkg, Deploy(p) PROVE ~cancelled'
    BY <2>2 DEF Deploy
  <2>3. ASSUME DeployStep \/ DeployKilled PROVE ~cancelled'
    BY <2>1, <2>3 DEF DeployStep, DeployKilled, ConnectFails, BeginComponent, InstallChart,
       InstallChartFails, ComponentStepFails, ManifestTemplateFails, ComponentSucceeds, Cleanup,
       OnSuccess, OnSuccessFails, DeployEnds
  <2>4. ASSUME NEW p \in Pkg, NEW cs \in SUBSET Component, Remove(p, cs) PROVE ~cancelled'
    BY <2>4 DEF Remove
  <2>5. ASSUME RemoveStep \/ RemoveKilled PROVE ~cancelled'
    BY <2>1, <2>5 DEF RemoveStep, RemoveKilled, BeginRemoveComponent, UninstallChart,
       UpdateAfterChart, UninstallChartFails, RemoveActionFails, RemoveComponent, RemoveEnds
  <2>6. ASSUME Cancel \/ UNCHANGED vars PROVE ~cancelled'
    BY <2>6 DEF Cancel, Fault, vars, stateVars
  <2> QED
    BY <2>2, <2>3, <2>4, <2>5, <2>6 DEF Next, DeployNext, RemoveNext
<1> QED
  BY <1>1, <1>2, PTL DEF Spec

\* Recording an outcome adds charts to the current component's list only.
LEMMA OutcomeAddsCharts ==
    ASSUME TypeOK, pc \in {"install", "cleanup"}, NEW status, NEW c \in Component
    PROVE  Listed(done[c].charts) \subseteq Listed(RecordedAs(status)[c].charts)
BY RecordedFacts DEF Listed

\* The chart lists of a record of version p that follows a record.
KeepsCharts(old, new, p) ==
    \A c \in Recorded(old) \cap Recorded(new) :
        c \in Def[p].cluster => Listed(old[c].charts) \subseteq Listed(new[c].charts)

LEMMA KeepsStep ==
    ASSUME "read" \notin Faults, "cancel" \notin Faults,
           TypeOK, RecordsConsistent, RecordedSoFar, NotCancelled, ChartsKept, [Next]_vars
    PROVE  ChartsKept' /\ (pc \notin RemovePhases => KeepsCharts(secret.comps, secret'.comps, secret'.pkg))
<1> USE DEF ChartsKept, DeployPhases, RemovePhases
<1>1. ASSUME secret' = secret PROVE KeepsCharts(secret.comps, secret'.comps, secret'.pkg)
  BY <1>1 DEF KeepsCharts
<1>2. CASE DeployNext /\ UNCHANGED removeVars
  <2>1. ASSUME NEW p \in Pkg, Deploy(p) PROVE ChartsKept' /\ secret' = secret
    BY <2>1, NothingRecorded DEF Deploy, RecordedSoFar
  <2>2. CASE ConnectFails \/ OnSuccessFails \/ DeployEnds \/ DeployKilled
    BY <1>1, <2>2 DEF ConnectFails, OnSuccessFails, DeployEnds, DeployKilled, End
  <2>3. CASE InstallChart \/ InstallChartFails \/ ComponentStepFails \/ ManifestTemplateFails
             \/ OnSuccess
    <3>1. pc \in DeployPhases /\ UNCHANGED <<secret, done, pkg>>
      BY <2>3 DEF InstallChart, InstallChartFails, ComponentStepFails, ManifestTemplateFails,
         OnSuccess
    <3> QED
      BY <1>1, <3>1
  <2>4. CASE BeginComponent
    <3>2. current \in Def[pkg].cluster => done'[current].charts = secret.comps[current].charts
      BY <2>4, BeginFacts DEF Reliable, NotCancelled
    <3>3. \A c \in Recorded(done') \cap Def[pkg].cluster :
            Listed(secret.comps[c].charts) \subseteq Listed(done'[c].charts)
      <4>1. \A c \in Recorded(done') : c = current \/ (c \in Recorded(done) /\ done'[c] = done[c])
        BY <2>4, BeginFacts DEF Recorded
      <4> QED
        BY <2>4, <3>2, <4>1, BeginFacts
    <3> QED
      BY <1>1, <2>4, <3>3, BeginFacts DEF Wrote, KeepsCharts
  <2>5. ASSUME pc \in {"install", "cleanup"}, NEW status,
               NEW c \in Recorded(RecordedAs(status)) \cap Def[pkg].cluster
        PROVE  Listed(secret.comps[c].charts) \subseteq Listed(RecordedAs(status)[c].charts)
    <3>1. c \in Component
      BY DEF Recorded
    <3>2. CASE c \in Recorded(done)
      BY <2>5, <3>1, <3>2, OutcomeAddsCharts
    <3>3. CASE c \notin Recorded(done)
      <4>1. c = current
        BY <2>5, <3>1, <3>3, RecordedFacts DEF Recorded
      <4>2. FALSE
        BY <2>5, <3>3, <4>1 DEF RecordedSoFar
      <4> QED
        BY <4>2
    <3> QED
      BY <3>2, <3>3
  <2>6. CASE ComponentSucceeds
    BY <1>1, <2>5, <2>6, SucceedsFacts DEF Wrote, KeepsCharts
  <2>7. CASE Cleanup
    BY <1>1, <2>5, <2>7, CleanupFacts DEF Wrote, KeepsCharts
  <2> QED
    BY <1>1, <1>2, <2>1, <2>2, <2>3, <2>4, <2>6, <2>7 DEF DeployNext, DeployStep
<1>3. CASE RemoveNext /\ UNCHANGED deployVars
  <2>1. ASSUME NEW p \in Pkg, NEW cs \in SUBSET Component, Remove(p, cs)
        PROVE  secret' = secret /\ pc' \in RemovePhases
    BY <2>1 DEF Remove, Goto
  <2>2. ASSUME RemoveStep \/ RemoveKilled
        PROVE  pc \in RemovePhases /\ pc' \in RemovePhases \cup {"idle"}
    BY <2>2 DEF RemoveStep, RemoveKilled, BeginRemoveComponent, UninstallChart, UpdateAfterChart,
       UninstallChartFails, RemoveActionFails, RemoveComponent, RemoveEnds, Goto, End
  <2> QED
    BY <1>1, <1>3, <2>1, <2>2 DEF RemoveNext
<1>4. CASE Cancel \/ UNCHANGED vars
  BY <1>1, <1>4 DEF Cancel, vars, stateVars, deployVars
<1> QED
  BY <1>2, <1>3, <1>4 DEF Next

\* When the API server answers every read and the CLI is not signalled, no
\* record of a deploy drops a chart of a component it keeps and that still
\* needs the cluster: what an earlier version installed stays removable,
\* whichever writes fail and wherever the deploys are killed.
THEOREM DeployKeepsCharts ==
    ASSUME "read" \notin Faults, "cancel" \notin Faults
    PROVE  Spec => RecordKeepsCharts
<1>1. Init => ChartsKept
  BY DEF Init, StateInit, ChartsKept, DeployPhases
<1>2. TypeOK /\ RecordsConsistent /\ RecordedSoFar /\ NotCancelled /\ ChartsKept /\ [Next]_vars
        => ChartsKept'
  BY KeepsStep
<1>3. TypeOK /\ RecordsConsistent /\ RecordedSoFar /\ NotCancelled /\ ChartsKept /\ [Next]_vars
        => [pc \notin RemovePhases =>
              \A c \in Recorded(secret.comps) \cap Recorded(secret'.comps) :
                c \in Def[secret'.pkg].cluster =>
                  Listed(secret.comps[c].charts) \subseteq Listed(secret'.comps[c].charts)]_vars
  BY KeepsStep DEF KeepsCharts
<1> QED
  BY <1>1, <1>2, <1>3, TypeCorrect, RecordsAreConsistent, RecordsNameTheirVersion, NeverCancelled,
     PTL DEF Spec, RecordKeepsCharts

-----------------------------------------------------------------------------
(* The components of a package are removed in reverse order.               *)

\* The component at hand comes last in its version among those still to
\* remove, and what is left of the cloned list is what the command's own copy
\* of the record still lists.
RemovesLastFirst ==
    pc \in {"uninstall", "update"} =>
        /\ left \cap Chart \subseteq Listed(dep.comps[comp].charts)
        /\ DeployedLast(dep.pkg, comp, todo)

\* The components that a version names have a position in it.
LEMMA PositionIsNumber ==
    ASSUME NEW p \in Pkg, NEW comps, PartOf(comps, p), NEW c \in Recorded(comps)
    PROVE  Position(p, c) \in Nat
<1>1. DOMAIN Def[p].comps \subseteq Nat
  BY ConstantsAssumption DEF PkgDef
<1>2. Position(p, c) \in DOMAIN Def[p].comps
  BY DEF PartOf, Position
<1> QED
  BY <1>1, <1>2

LEMMA LastFirstStep ==
    ASSUME DistinctChartNames, TypeOK, RemovesLastFirst, [Next]_vars
    PROVE  RemovesLastFirst'
<1> USE DEF RemovesLastFirst
<1>1. CASE DeployNext /\ UNCHANGED removeVars
  <2>1. ASSUME NEW p \in Pkg, Deploy(p) PROVE pc' = "component"
    BY <2>1 DEF Deploy, Goto
  <2>2. ASSUME DeployStep \/ DeployKilled PROVE pc' \in {"idle"} \cup DeployPhases
    BY <2>2 DEF DeployStep, DeployKilled, ConnectFails, BeginComponent, InstallChart,
       InstallChartFails, ComponentStepFails, ManifestTemplateFails, ComponentSucceeds, Cleanup,
       OnSuccess, OnSuccessFails, DeployEnds, Goto, End, DeployPhases
  <2> QED
    BY <1>1, <2>1, <2>2 DEF DeployNext, DeployPhases
<1>2. CASE RemoveNext /\ UNCHANGED deployVars
  <2>1. ASSUME NEW p \in Pkg, NEW cs \in SUBSET Component, Remove(p, cs) PROVE RemovesLastFirst'
    BY <2>1 DEF Remove, Goto
  <2>2. CASE BeginRemoveComponent
    BY <2>2 DEF BeginRemoveComponent, DeployedLast
  <2>3. CASE UninstallChart
    <3>1. PICK x \in left \ {Blank} :
            /\ left' = left \ {x}
            /\ dep' = [dep EXCEPT !.comps[comp].charts = DeleteChart(@, x)]
      BY <2>3 DEF UninstallChart
    <3>2. x \in Chart /\ comp \in Component
      BY <2>3, <3>1 DEF UninstallChart, Row, TypeOK, RemoveTypeOK
    <3>3. \A y \in Chart \ {x} :
            DeleteChart(dep.comps[comp].charts, x)[y] = dep.comps[comp].charts[y]
      BY <3>2, ConstantsAssumption DEF DeleteChart, DistinctChartNames, Row
    <3>4. dep'.comps[comp].charts = DeleteChart(dep.comps[comp].charts, x) /\ dep'.pkg = dep.pkg
      BY <3>1, <3>2 DEF TypeOK, RemoveTypeOK, DeployedPackage, DeployedComponent
    <3>5. /\ pc = "uninstall" /\ comp' = comp /\ todo' = todo
      BY <2>3 DEF UninstallChart
    <3>6. left' \cap Chart \subseteq Listed(dep'.comps[comp'].charts)
      BY <3>1, <3>3, <3>4, <3>5 DEF Listed, Row
    <3> QED
      BY <3>4, <3>5, <3>6 DEF DeployedLast
  <2>4. CASE UpdateAfterChart
    BY <2>4 DEF UpdateAfterChart, DeployedLast
  <2>5. CASE UninstallChartFails \/ RemoveActionFails \/ RemoveComponent \/ RemoveEnds \/ RemoveKilled
    BY <2>5 DEF UninstallChartFails, RemoveActionFails, RemoveComponent, RemoveEnds, RemoveKilled,
       End, Goto
  <2> QED
    BY <1>2, <2>1, <2>2, <2>3, <2>4, <2>5 DEF RemoveNext, RemoveStep
<1>3. CASE Cancel \/ UNCHANGED vars
  BY <1>3 DEF Cancel, vars, stateVars, removeVars, DeployedLast
<1> QED
  BY <1>1, <1>2, <1>3 DEF Next

\* A step that touches a release while components c and d are to be removed
\* touches one that a component other than c lists.
LEMMA ReverseStep ==
    ASSUME TypeOK, RecordsConsistent, RecordedSoFar, RemovesLastFirst, [Next]_vars,
           pc = "uninstall", NEW c \in Recorded(dep.comps), NEW d \in Recorded(dep.comps) \cap todo,
           Position(dep.pkg, c) < Position(dep.pkg, d),
           NEW x \in Range(Def[dep.pkg].charts[c]) \ ChartsIn(dep, todo \ {c})
    PROVE  releases'[x] = releases[x]
<1>1. comp \in todo /\ todo \subseteq Recorded(dep.comps) /\ dep.pkg \in Pkg
  BY DEF TypeOK, RemoveTypeOK, RecordsConsistent, RemovePhases
<1>2. comp # c
  <2>1. Position(dep.pkg, d) <= Position(dep.pkg, comp)
    BY DEF RemovesLastFirst, DeployedLast
  <2>2. /\ Position(dep.pkg, c) \in Nat /\ Position(dep.pkg, d) \in Nat
        /\ Position(dep.pkg, comp) \in Nat
    BY <1>1, PositionIsNumber DEF RecordedSoFar
  <2> QED
    BY <2>1, <2>2
<1>3. \A y \in left \ {Blank} : y \in ChartsIn(dep, todo \ {c})
  BY <1>1, <1>2 DEF RemovesLastFirst, Listed, ChartsIn, TypeOK, RemoveTypeOK, Row
<1>4. x \notin left \ {Blank}
  BY <1>3
<1>5. releases' = releases \/ \E y \in left \ {Blank} : \E rel : releases' = [releases EXCEPT ![y] = rel]
  <2>1. CASE DeployNext /\ UNCHANGED removeVars
    <3>1. ASSUME NEW p \in Pkg, Deploy(p) PROVE FALSE
      BY <3>1 DEF Deploy
    <3> QED
      BY <2>1, <3>1 DEF DeployNext, DeployStep, DeployKilled, ConnectFails, BeginComponent,
         InstallChart, InstallChartFails, ComponentStepFails, ManifestTemplateFails,
         ComponentSucceeds, Cleanup, OnSuccess, OnSuccessFails, DeployEnds
  <2>2. CASE RemoveNext /\ UNCHANGED deployVars
    <3>1. ASSUME NEW p \in Pkg, NEW cs \in SUBSET Component, Remove(p, cs) PROVE FALSE
      BY <3>1 DEF Remove
    <3>2. CASE UninstallChart
      BY <3>2 DEF UninstallChart
    <3>3. CASE UninstallChartFails \/ RemoveKilled
      BY <3>3 DEF UninstallChartFails, RemoveKilled
    <3>4. CASE BeginRemoveComponent \/ UpdateAfterChart \/ RemoveActionFails \/ RemoveComponent
               \/ RemoveEnds
      BY <3>4 DEF BeginRemoveComponent, UpdateAfterChart, RemoveActionFails, RemoveComponent,
         RemoveEnds
    <3> QED
      BY <2>2, <3>1, <3>2, <3>3, <3>4 DEF RemoveNext, RemoveStep
  <2>3. CASE Cancel \/ UNCHANGED vars
    BY <2>3 DEF Cancel, vars, stateVars
  <2> QED
    BY <2>1, <2>2, <2>3 DEF Next
<1>6. x \in Chart
  <2>1. Def[dep.pkg].charts[c] \in Seq(Chart)
    BY <1>1, ConstantsAssumption DEF PkgDef, Recorded
  <2> QED
    BY <2>1 DEF Range
<1>7. ASSUME NEW y \in left \ {Blank}, NEW rel, releases' = [releases EXCEPT ![y] = rel]
      PROVE  releases'[x] = releases[x]
  BY <1>4, <1>6, <1>7 DEF TypeOK, StateTypeOK
<1> QED
  BY <1>5, <1>7

\* When no release name is used in two namespaces, a remove uninstalls no
\* chart of a component before those of every requested component deployed
\* after it, unless a component still to remove lists that chart too.
THEOREM RemoveIsReversed ==
    ASSUME DistinctChartNames
    PROVE  Spec => RemoveReversesComponents
<1>1. Init => RemovesLastFirst
  BY DEF Init, StateInit, RemovesLastFirst
<1>2. TypeOK /\ RemovesLastFirst /\ [Next]_vars => RemovesLastFirst'
  BY LastFirstStep
<1>3. TypeOK /\ RecordsConsistent /\ RecordedSoFar /\ RemovesLastFirst /\ [Next]_vars =>
        [\A c, d \in Component :
           (/\ pc = "uninstall" /\ {c, d} \subseteq Recorded(dep.comps) /\ d \in todo
            /\ Position(dep.pkg, c) < Position(dep.pkg, d))
           => \A x \in Range(Def[dep.pkg].charts[c]) \ ChartsIn(dep, todo \ {c}) :
                releases'[x] = releases[x]]_vars
  BY ReverseStep
<1> QED
  BY <1>1, <1>2, <1>3, TypeCorrect, RecordsAreConsistent, RecordsNameTheirVersion, PTL
     DEF Spec, RemoveReversesComponents

-----------------------------------------------------------------------------
(* When every write reaches the secret, it is what the deploy thinks.      *)

\* As soon as a deploy is connected, the secret is the local list in the
\* version being deployed; a component that needs the cluster is connected.
SecretIsCurrent ==
    /\ pc \notin DeployPhases => ~connected
    /\ pc \in DeployPhases /\ connected => secret.comps = done /\ secret.pkg = pkg
    /\ pc \in DeployPhases \ {"component"} /\ current \in Def[pkg].cluster => connected

\* The faults with which a record of a deploy can be lost do not occur.
EveryWriteSucceeds == "write" \notin Faults /\ "cancel" \notin Faults

LEMMA CurrentStep ==
    ASSUME EveryWriteSucceeds, TypeOK, NotCancelled, SecretIsCurrent, [Next]_vars
    PROVE  SecretIsCurrent'
<1> USE DEF SecretIsCurrent, DeployPhases
<1>0. Reliable("write")
  BY DEF Reliable, EveryWriteSucceeds, NotCancelled
<1>1. ASSUME pc' \notin DeployPhases, ~connected' PROVE SecretIsCurrent'
  BY <1>1
<1>2. CASE DeployNext /\ UNCHANGED removeVars
  <2>1. ASSUME NEW p \in Pkg, Deploy(p) PROVE SecretIsCurrent'
    BY <2>1 DEF Deploy, Goto
  <2>2. CASE ConnectFails \/ Cleanup \/ OnSuccessFails \/ DeployEnds \/ DeployKilled
    BY <1>1, <2>2 DEF ConnectFails, Cleanup, OnSuccessFails, DeployEnds, DeployKilled, End,
       ForgetDeploy
  <2>3. CASE BeginComponent
    <3>1. current' = current /\ pkg' = pkg
      BY <2>3 DEF BeginComponent, current
    <3>2. connected' => Wrote(done')
      BY <1>0, <2>3, BeginFacts
    <3>3. current \in Def[pkg].cluster => connected'
      BY <2>3, BeginFacts
    <3>4. pc' = "install"
      BY <2>3, BeginFacts
    <3> QED
      BY <3>1, <3>2, <3>3, <3>4 DEF Wrote
  <2>4. CASE InstallChart \/ InstallChartFails \/ ComponentStepFails \/ ManifestTemplateFails
             \/ OnSuccess
    <3>1. /\ pc \in DeployPhases /\ pc' \in DeployPhases /\ UNCHANGED <<secret, done, pkg, connected>>
          /\ pc' # "component" => pc # "component" /\ i' = i
      BY <2>4 DEF InstallChart, InstallChartFails, ComponentStepFails, ManifestTemplateFails,
         OnSuccess, Goto
    <3> QED
      BY <3>1 DEF current
  <2>5. CASE ComponentSucceeds
    <3>1. current' = current /\ pkg' = pkg /\ connected' = connected
      BY <2>5, SucceedsFacts DEF current
    <3> QED
      BY <1>0, <2>5, <3>1, SucceedsFacts DEF Wrote
  <2> QED
    BY <1>2, <2>1, <2>2, <2>3, <2>4, <2>5 DEF DeployNext, DeployStep
<1>3. CASE RemoveNext /\ UNCHANGED deployVars
  <2>1. pc \notin DeployPhases /\ pc' \notin DeployPhases
    <3>1. ASSUME NEW p \in Pkg, NEW cs \in SUBSET Component, Remove(p, cs)
          PROVE  pc \notin DeployPhases /\ pc' \notin DeployPhases
      BY <3>1 DEF Remove, Goto
    <3>2. ASSUME RemoveStep \/ RemoveKilled PROVE pc \notin DeployPhases /\ pc' \notin DeployPhases
      BY <3>2 DEF RemoveStep, RemoveKilled, BeginRemoveComponent, UninstallChart, UpdateAfterChart,
         UninstallChartFails, RemoveActionFails, RemoveComponent, RemoveEnds, Goto, End
    <3> QED
      BY <1>3, <3>1, <3>2 DEF RemoveNext
  <2>2. connected' = connected
    BY <1>3 DEF deployVars
  <2> QED
    BY <1>1, <2>1, <2>2
<1>4. CASE Cancel \/ UNCHANGED vars
  BY <1>4 DEF Cancel, vars, stateVars, deployVars, current
<1> QED
  BY <1>2, <1>3, <1>4 DEF Next

LEMMA SecretStaysCurrent ==
    ASSUME EveryWriteSucceeds
    PROVE  Spec => []SecretIsCurrent
<1>1. Init => SecretIsCurrent
  BY DEF Init, StateInit, DeployInit, SecretIsCurrent, DeployPhases
<1>2. TypeOK /\ NotCancelled /\ SecretIsCurrent /\ [Next]_vars => SecretIsCurrent'
  BY CurrentStep
<1> QED
  BY <1>1, <1>2, TypeCorrect, NeverCancelled, PTL DEF Spec

-----------------------------------------------------------------------------
(* A deploy that ends by itself leaves what it installed in the secret.    *)

\* A chart handed to Helm is listed for a component that is recorded, or is
\* among those deployComponent is about to return.
TouchedIsTracked ==
    /\ pc # "idle" => last = "none"
    /\ pc \in DeployPhases => \A x \in touched :
          /\ connected
          /\ \/ \E c \in Component : done[c].charts[x] # "none"
             \/ pc \in {"install", "cleanup"} /\ installed[x] # "none"
    /\ DeployRecordsWhatItInstalled

\* Once the current outcome is merged, every chart is listed.
LEMMA OutcomeListsTouched ==
    ASSUME TypeOK, TouchedIsTracked, pc \in {"install", "cleanup"}, NEW status, NEW x \in touched
    PROVE  \E c \in Component : RecordedAs(status)[c].charts[x] # "none"
<1>0. x \in Row /\ current \in Component
  BY RecordedFacts DEF TypeOK, DeployTypeOK, Row
<1>1. CASE installed[x] # "none"
  BY <1>0, <1>1, RecordedFacts
<1>2. CASE installed[x] = "none"
  <2>1. PICK c \in Component : done[c].charts[x] # "none"
    BY <1>2 DEF TouchedIsTracked, DeployPhases
  <2>2. RecordedAs(status)[c].charts[x] # "none"
    <3>1. CASE c = current
      BY <1>0, <1>2, <2>1, <3>1, RecordedFacts
    <3>2. CASE c # current
      BY <2>1, <3>2, RecordedFacts
    <3> QED
      BY <3>1, <3>2
  <2> QED
    BY <2>2
<1> QED
  BY <1>1, <1>2

\* A component at hand that has a chart is connected.
LEMMA ChartsNeedCluster ==
    ASSUME TypeOK, SecretIsCurrent, pc = "install", k <= Len(chartsOfCurrent)
    PROVE  connected /\ chartsOfCurrent[k] \in Chart /\ current \in Component /\ pkg \in Pkg
           /\ k \in DOMAIN chartsOfCurrent
<1>1. /\ pkg \in Pkg /\ current \in Component /\ chartsOfCurrent \in Seq(Chart) /\ k \in Nat \ {0}
  BY DeployFacts DEF TypeOK, DeployTypeOK
<1>2. chartsOfCurrent # <<>> /\ chartsOfCurrent[k] \in Chart /\ k \in DOMAIN chartsOfCurrent
  BY <1>1
<1>3. current \in Def[pkg].cluster
  BY <1>1, <1>2, PackagesAssumption DEF chartsOfCurrent
<1> QED
  BY <1>1, <1>2, <1>3 DEF SecretIsCurrent, DeployPhases

LEMMA TrackedStep ==
    ASSUME EveryWriteSucceeds, "render" \notin Faults, \A p \in Pkg : ~Def[p].init,
           TypeOK, RecordsConsistent, RecordedSoFar, NotCancelled, SecretIsCurrent,
           TouchedIsTracked, [Next]_vars
    PROVE  TouchedIsTracked'
<1> USE DEF TouchedIsTracked, DeployPhases
<1>0. ~cancelled
  BY DEF NotCancelled, EveryWriteSucceeds
<1>1. ASSUME pc' \notin DeployPhases, last' \notin {"deployed", "deployFailed"},
             pc' # "idle" => last' = "none"
      PROVE  TouchedIsTracked'
  BY <1>1 DEF DeployRecordsWhatItInstalled
<1>2. ASSUME pc' = "idle", \A x \in touched' : x \in ListedIn(secret')
      PROVE  TouchedIsTracked'
  BY <1>2 DEF DeployRecordsWhatItInstalled
<1>3. ASSUME pc' \in DeployPhases, last' = "none",
             \A x \in touched' :
                /\ connected'
                /\ \/ \E c \in Component : done'[c].charts[x] # "none"
                   \/ pc' \in {"install", "cleanup"} /\ installed'[x] # "none"
      PROVE  TouchedIsTracked'
  BY <1>3 DEF DeployRecordsWhatItInstalled
<1>4. CASE DeployNext /\ UNCHANGED removeVars
  <2>1. ASSUME NEW p \in Pkg, Deploy(p) PROVE TouchedIsTracked'
    BY <1>3, <2>1 DEF Deploy, Goto
  <2>2. CASE DeployKilled
    BY <1>1, <2>2 DEF DeployKilled, End
  <2>3. CASE ConnectFails
    <3>1. touched' = touched /\ ~connected /\ pc = "component" /\ pc' = "idle"
      BY <2>3 DEF ConnectFails, End
    <3> QED
      BY <1>2, <3>1
  <2>4. CASE OnSuccessFails \/ DeployEnds
    <3>1. /\ touched' = touched /\ secret' = secret /\ pc \in {"component", "success"} /\ pc' = "idle"
      BY <2>4 DEF OnSuccessFails, DeployEnds, End
    <3>2. \A x \in touched : connected /\ \E c \in Component : done[c].charts[x] # "none"
      BY <3>1
    <3>3. \A x \in touched : x \in ListedIn(secret)
      BY <3>1, <3>2 DEF SecretIsCurrent, ListedIn, ChartsIn, TypeOK, DeployTypeOK
    <3> QED
      BY <1>2, <3>1, <3>3
  <2>5. CASE BeginComponent
    <3>1. current \notin Recorded(done)
      BY <2>5, CurrentIsNew DEF BeginComponent
    <3>2. \A x \in touched : done[current].charts[x] = "none"
      <4>1. done[current].charts = NoRows /\ touched \subseteq Row
        BY <2>5, <3>1, BeginFacts
           DEF Recorded, RecordsConsistent, NothingUnlisted, TypeOK, DeployTypeOK, Row
      <4> QED
        BY <4>1 DEF NoRows
    <3>3. \A x \in touched : \E c \in Component : done'[c].charts[x] # "none"
      BY <2>5, <3>2, BeginFacts
    <3>4. connected => connected'
      BY <2>5, BeginFacts
    <3> QED
      BY <1>3, <2>5, <3>3, <3>4, BeginFacts
  <2>6. CASE InstallChart \/ InstallChartFails
    <3>1. /\ pc = "install" /\ k <= Len(chartsOfCurrent) /\ pc' \in {"install", "cleanup"}
          /\ UNCHANGED <<last, done, connected>>
          /\ touched' = touched \cup {chartsOfCurrent[k]}
      BY <2>6 DEF InstallChart, InstallChartFails, Goto
    <3>2. connected /\ chartsOfCurrent[k] \in Chart /\ pkg \in Pkg
      BY <3>1, ChartsNeedCluster
    <3>3. \E st \in {"Succeeded", "Failed"} : installed' = [installed EXCEPT ![chartsOfCurrent[k]] = st]
      BY <2>6, <3>2 DEF InstallChart, InstallChartFails, Returned
    <3>4. /\ installed'[chartsOfCurrent[k]] # "none"
          /\ \A x \in touched : installed[x] # "none" => installed'[x] # "none"
      BY <3>2, <3>3 DEF TypeOK, DeployTypeOK, Rows, Row
    <3> QED
      BY <1>3, <3>1, <3>2, <3>4
  <2>7. CASE ComponentStepFails
    <3>1. pkg \in Pkg
      BY <2>7, DeployFacts DEF ComponentStepFails
    <3>2. /\ pc = "install" /\ pc' = "cleanup" /\ UNCHANGED <<last, done, connected, touched, installed>>
      BY <2>7, <3>1 DEF ComponentStepFails, Goto, Returned
    <3> QED
      BY <1>3, <3>2
  <2>8. CASE ManifestTemplateFails
    BY <2>8 DEF ManifestTemplateFails, Fault
  <2>9. CASE ComponentSucceeds
    <3>1. \A x \in touched : \E c \in Component : done'[c].charts[x] # "none"
      BY <2>9, SucceedsFacts, OutcomeListsTouched
    <3> QED
      BY <1>3, <2>9, <3>1, SucceedsFacts
  <2>10. CASE Cleanup
    <3>1. \A x \in touched : \E c \in Component : RecordedAs("Failed")[c].charts[x] # "none"
      BY <2>10, CleanupFacts, OutcomeListsTouched
    <3>2. \A x \in touched : secret'.comps = RecordedAs("Failed")
      BY <2>10, CleanupFacts DEF Wrote, EveryWriteSucceeds
    <3>3. \A x \in touched : x \in ListedIn(secret')
      BY <3>1, <3>2 DEF ListedIn, ChartsIn, TypeOK, DeployTypeOK
    <3> QED
      BY <1>2, <2>10, <3>3, CleanupFacts
  <2>11. CASE OnSuccess
    <3>1. /\ pc = "success" /\ pc' = "component" /\ UNCHANGED <<last, done, connected, touched>>
      BY <2>11 DEF OnSuccess, Goto
    <3> QED
      BY <1>3, <3>1
  <2> QED
    BY <1>4, <2>1, <2>2, <2>3, <2>4, <2>5, <2>6, <2>7, <2>8, <2>9, <2>10, <2>11
       DEF DeployNext, DeployStep
<1>5. CASE RemoveNext /\ UNCHANGED deployVars
  <2>1. ASSUME NEW p \in Pkg, NEW cs \in SUBSET Component, Remove(p, cs) PROVE TouchedIsTracked'
    BY <1>1, <2>1 DEF Remove, Goto
  <2>2. CASE UninstallChartFails \/ RemoveActionFails \/ RemoveEnds \/ RemoveKilled
    BY <1>1, <2>2 DEF UninstallChartFails, RemoveActionFails, RemoveEnds, RemoveKilled, End
  <2>3. CASE BeginRemoveComponent \/ UninstallChart \/ UpdateAfterChart \/ RemoveComponent
    <3>1. pc \in RemovePhases /\ pc' \in RemovePhases /\ last' = last
      BY <2>3 DEF BeginRemoveComponent, UninstallChart, UpdateAfterChart, RemoveComponent, Goto,
         RemovePhases
    <3>2. last = "none"
      BY <3>1 DEF RemovePhases
    <3> QED
      BY <1>1, <3>1, <3>2 DEF RemovePhases
  <2> QED
    BY <1>5, <2>1, <2>2, <2>3 DEF RemoveNext, RemoveStep
<1>6. CASE Cancel
  BY <1>6 DEF Cancel, Fault, EveryWriteSucceeds
<1>7. CASE UNCHANGED vars
  BY <1>7 DEF vars, stateVars, deployVars, DeployRecordsWhatItInstalled, ListedIn, ChartsIn
<1> QED
  BY <1>4, <1>5, <1>6, <1>7 DEF Next

\* When every write reaches the API server, the CLI is not signalled, no
\* manifest template fails and no version is an init package, a deploy that
\* ends with success or an error has left every release that it handed to
\* Helm in the secret.  Deploys and removes before it may have been killed.
THEOREM DeployTracksReleases ==
    ASSUME EveryWriteSucceeds, "render" \notin Faults, \A p \in Pkg : ~Def[p].init
    PROVE  Spec => []DeployRecordsWhatItInstalled
<1>1. Init => TouchedIsTracked
  BY DEF Init, StateInit, TouchedIsTracked, DeployRecordsWhatItInstalled, DeployPhases
<1>2. TypeOK /\ RecordsConsistent /\ RecordedSoFar /\ NotCancelled /\ SecretIsCurrent
        /\ TouchedIsTracked /\ [Next]_vars => TouchedIsTracked'
  BY TrackedStep
<1>3. TouchedIsTracked => DeployRecordsWhatItInstalled
  BY DEF TouchedIsTracked
<1> QED
  BY <1>1, <1>2, <1>3, TypeCorrect, RecordsAreConsistent, RecordsNameTheirVersion, NeverCancelled,
     SecretStaysCurrent, PTL DEF Spec

-----------------------------------------------------------------------------
(* What is recorded as Succeeded runs, or a remove has taken it away.      *)

\* What a deploy of version p leaves of a chart, and removes make of that.
Sound(rel, p) ==
    rel \in {[live |-> p, top |-> "deployed"], NoRelease, [live |-> NoPkg, top |-> "pending"]}

\* The charts of the components that comps records as Succeeded are sound.
SoundRecord(comps, p) ==
    \A c \in Component : comps[c].status = "Succeeded" =>
        \A x \in Range(Def[p].charts[c]) : Sound(releases[x], p)

\* Every copy of the record is sound, and the charts of the current component
\* before the next one were deployed in this version.
RunningInv ==
    /\ SoundRecord(secret.comps, secret.pkg)
    /\ pc \in RemovePhases => SoundRecord(dep.comps, dep.pkg)
    /\ pc \in DeployPhases => SoundRecord(done, pkg)
    /\ pc = "install" =>
          /\ done[current].status = "Deploying"
          /\ \A n \in DOMAIN chartsOfCurrent :
                n < k => Sound(releases[chartsOfCurrent[n]], pkg)

\* Removing, or failing to, keeps a sound release sound.
LEMMA UninstallIsSound ==
    ASSUME NEW rel, NEW p \in Pkg \cup {NoPkg}, Sound(rel, p), NEW new \in UninstallFailures(rel) \cup {NoRelease}
    PROVE  Sound(new, p)
<1>1. rel.top = "pending" => rel = [live |-> NoPkg, top |-> "pending"]
  BY DEF Sound, NoRelease
<1>2. rel.top # "failed"
  BY DEF Sound, NoRelease
<1> QED
  BY <1>1, <1>2 DEF Sound, UninstallFailures

\* A component without a record of success puts no demand on its charts.
LEMMA EmptyIsSound == SoundRecord(NoSecret.comps, NoSecret.pkg) /\ \A p : SoundRecord(NoComponents, p)
BY DEF SoundRecord, NoSecret, NoComponents, NoComponent

\* A component's charts are charts.
LEMMA ChartsOf ==
    ASSUME NEW p \in Pkg, NEW c \in Component
    PROVE  Range(Def[p].charts[c]) \subseteq Chart
<1>1. Def[p].charts[c] \in Seq(Chart)
  BY ConstantsAssumption DEF PkgDef
<1> QED
  BY <1>1 DEF Range

\* The record of a success has a version.
LEMMA SuccessHasVersion ==
    ASSUME NEW comps, NEW p, PartOf(comps, p), NEW c \in Component, comps[c].status = "Succeeded"
    PROVE  p \in Pkg
BY DEF PartOf, Recorded

\* A step of a remove that changes a release keeps every release sound.
LEMMA ReleaseStepIsSound ==
    ASSUME TypeOK, NEW x \in Chart, NEW rel \in UninstallFailures(releases[x]) \cup {NoRelease},
           releases' = [releases EXCEPT ![x] = rel],
           NEW y \in Chart, NEW p \in Pkg, Sound(releases[y], p)
    PROVE  Sound(releases'[y], p)
<1>1. releases'[y] = IF y = x THEN rel ELSE releases[y]
  BY DEF TypeOK, StateTypeOK
<1> QED
  BY <1>1, UninstallIsSound

\* Records stay sound when releases stay sound and no success is added.
LEMMA SoundStays ==
    ASSUME RecordedSoFar, RunningInv,
           \A y \in Chart, p \in Pkg : Sound(releases[y], p) => Sound(releases'[y], p)
    PROVE  /\ \A c \in Component : secret.comps[c].status = "Succeeded" =>
                \A x \in Range(Def[secret.pkg].charts[c]) : Sound(releases'[x], secret.pkg)
           /\ pc \in RemovePhases => \A c \in Component : dep.comps[c].status = "Succeeded" =>
                \A x \in Range(Def[dep.pkg].charts[c]) : Sound(releases'[x], dep.pkg)
BY SuccessHasVersion, ChartsOf DEF RunningInv, SoundRecord, RecordedSoFar

LEMMA RunningRemove ==
    ASSUME TypeOK, RecordedSoFar, RunningInv, RemoveNext, UNCHANGED deployVars
    PROVE  RunningInv'
<1> USE DEF DeployPhases
<1>1. ASSUME pc' \notin DeployPhases,
             \A y \in Chart, p \in Pkg : Sound(releases[y], p) => Sound(releases'[y], p),
             secret' \in {secret, dep', NoSecret},
             dep' = NoSecret \/
                (pc \in RemovePhases /\ dep'.pkg = dep.pkg /\ \A c \in Component :
                    dep'.comps[c].status = "Succeeded" => dep.comps[c].status = "Succeeded")
      PROVE  RunningInv'
  <2>1. SoundRecord(dep.comps, dep.pkg)'
    BY <1>1, SoundStays, EmptyIsSound DEF SoundRecord, NoSecret, NoComponents, NoComponent
  <2>2. SoundRecord(secret.comps, secret.pkg)'
    BY <1>1, <2>1, SoundStays DEF SoundRecord, NoSecret, NoComponents, NoComponent
  <2> QED
    BY <1>1, <2>1, <2>2 DEF RunningInv
<1>2. ASSUME releases' = releases
      PROVE  \A y \in Chart, p \in Pkg : Sound(releases[y], p) => Sound(releases'[y], p)
  BY <1>2
<1>3. ASSUME NEW p \in Pkg, NEW cs \in SUBSET Component, Remove(p, cs) PROVE RunningInv'
  <2>1. \A c \in Component : DefinedComponents(cs)[c].status # "Succeeded"
    BY DEF DefinedComponents, NoComponent
  <2>2. /\ releases' = releases /\ secret' = secret /\ pc' = "remove"
        /\ dep' = secret \/ dep' = [pkg |-> p, gen |-> 0, comps |-> DefinedComponents(cs)]
    BY <1>3 DEF Remove, Goto
  <2>3. SoundRecord(dep.comps, dep.pkg)'
    BY <2>1, <2>2 DEF RunningInv, SoundRecord
  <2>4. SoundRecord(secret.comps, secret.pkg)'
    BY <2>2 DEF RunningInv, SoundRecord
  <2> QED
    BY <2>2, <2>3, <2>4 DEF RunningInv
<1>4. CASE BeginRemoveComponent \/ UpdateAfterChart
  <2>1. /\ releases' = releases /\ secret' \in {secret, dep'} /\ dep' = dep
        /\ pc \in RemovePhases /\ pc' \in RemovePhases
    BY <1>4 DEF BeginRemoveComponent, UpdateAfterChart, ApplySecret, Goto, RemovePhases
  <2> QED
    BY <1>1, <1>2, <2>1 DEF RemovePhases
<1>5. CASE UninstallChart
  <2>1. PICK x \in left \ {Blank} :
          /\ releases' = [releases EXCEPT ![x] = NoRelease]
          /\ dep' = [dep EXCEPT !.comps[comp].charts = DeleteChart(@, x)]
    BY <1>5 DEF UninstallChart
  <2>2. x \in Chart
    BY <2>1 DEF TypeOK, RemoveTypeOK, Row
  <2>3. \A c \in Component : dep'.comps[c].status = dep.comps[c].status
    BY <1>5, <2>1 DEF UninstallChart, TypeOK, RemoveTypeOK, DeployedPackage, DeployedComponent
  <2>4. dep'.pkg = dep.pkg
    BY <2>1 DEF TypeOK, RemoveTypeOK, DeployedPackage
  <2>5. \A y \in Chart, p \in Pkg : Sound(releases[y], p) => Sound(releases'[y], p)
    BY <2>1, <2>2, ReleaseStepIsSound
  <2>6. secret' = secret /\ pc = "uninstall" /\ pc' = "update"
    BY <1>5 DEF UninstallChart, Goto
  <2> QED
    BY <1>1, <2>3, <2>4, <2>5, <2>6 DEF RemovePhases
<1>6. CASE UninstallChartFails \/ RemoveKilled
  <2>1. secret' = secret /\ dep' = NoSecret /\ pc' = "idle"
    BY <1>6 DEF UninstallChartFails, RemoveKilled, ForgetRemove, End
  <2>2. CASE releases' = releases
    BY <1>1, <1>2, <2>1, <2>2
  <2>3. CASE \E x \in left \ {Blank} : \E rel \in UninstallFailures(releases[x]) :
               releases' = [releases EXCEPT ![x] = rel]
    <3>0. PICK x \in left \ {Blank} : \E rel \in UninstallFailures(releases[x]) :
             releases' = [releases EXCEPT ![x] = rel]
      BY <2>3
    <3>1. PICK rel \in UninstallFailures(releases[x]) : releases' = [releases EXCEPT ![x] = rel]
      BY <3>0
    <3>2. x \in Chart
      BY DEF TypeOK, RemoveTypeOK, Row
    <3>3. \A y \in Chart, p \in Pkg : Sound(releases[y], p) => Sound(releases'[y], p)
      BY <3>1, <3>2, ReleaseStepIsSound
    <3> QED
      BY <1>1, <2>1, <3>3
  <2> QED
    BY <1>6, <2>2, <2>3 DEF UninstallChartFails, RemoveKilled
<1>7. CASE RemoveActionFails \/ RemoveEnds
  <2>1. /\ releases' = releases /\ secret' \in {secret, NoSecret} /\ dep' = NoSecret /\ pc' = "idle"
    BY <1>7 DEF RemoveActionFails, RemoveEnds, ApplySecret, ForgetRemove, End
  <2> QED
    BY <1>1, <1>2, <2>1
<1>8. CASE RemoveComponent
  <2>1. /\ dep' = [dep EXCEPT !.comps[comp] = NoComponent]
        /\ secret' \in {secret, dep'} /\ pc = "uninstall" /\ pc' = "remove" /\ releases' = releases
    BY <1>8 DEF RemoveComponent, ApplySecret, Goto
  <2>2. \A c \in Component : dep'.comps[c] = IF c = comp THEN NoComponent ELSE dep.comps[c]
    BY <2>1 DEF TypeOK, RemoveTypeOK, DeployedPackage
  <2>3. dep'.pkg = dep.pkg
    BY <2>1 DEF TypeOK, RemoveTypeOK, DeployedPackage
  <2> QED
    BY <1>1, <1>2, <2>1, <2>2, <2>3 DEF NoComponent, RemovePhases
<1> QED
  BY <1>3, <1>4, <1>5, <1>6, <1>7, <1>8 DEF RemoveNext, RemoveStep

\* Helm working on a chart of the current component, which is recorded as
\* Deploying, disturbs no component that is recorded as Succeeded.
LEMMA OthersStaySound ==
    ASSUME TypeOK, SecretIsCurrent, RunningInv, pc = "install", k <= Len(chartsOfCurrent), NEW rel,
           releases' = [releases EXCEPT ![chartsOfCurrent[k]] = rel],
           NEW c \in Component, done[c].status = "Succeeded", NEW x \in Range(Def[pkg].charts[c])
    PROVE  Sound(releases'[x], pkg)
<1>1. /\ chartsOfCurrent[k] \in Chart /\ current \in Component /\ pkg \in Pkg
      /\ k \in DOMAIN chartsOfCurrent
  BY ChartsNeedCluster
<1>2. c # current
  BY DEF RunningInv
<1>3. chartsOfCurrent[k] \in Range(Def[pkg].charts[current])
  BY <1>1 DEF chartsOfCurrent, Range
<1>4. x # chartsOfCurrent[k]
  BY <1>1, <1>2, <1>3, PackagesAssumption
<1>5. x \in Chart
  BY <1>1, ChartsOf
<1>6. Sound(releases[x], pkg)
  BY DEF RunningInv, SoundRecord, DeployPhases
<1>7. releases'[x] = releases[x]
  BY <1>1, <1>4, <1>5 DEF TypeOK, StateTypeOK
<1> QED
  BY <1>6, <1>7

LEMMA RunningDeploy ==
    ASSUME EveryWriteSucceeds, TypeOK, RecordedSoFar, NotCancelled, SecretIsCurrent, RunningInv,
           DeployNext, UNCHANGED removeVars
    PROVE  RunningInv'
<1> USE DEF DeployPhases, RemovePhases
<1>1. ASSUME pc' = "idle", SoundRecord(secret.comps, secret.pkg)' PROVE RunningInv'
  BY <1>1 DEF RunningInv
<1>2. ASSUME secret' = secret, releases' = releases PROVE SoundRecord(secret.comps, secret.pkg)'
  BY <1>2 DEF RunningInv, SoundRecord
<1>3. ASSUME pc' \in {"component", "cleanup", "success"}, SoundRecord(secret.comps, secret.pkg)',
             SoundRecord(done, pkg)'
      PROVE  RunningInv'
  BY <1>3 DEF RunningInv
<1>4. ASSUME NEW p \in Pkg, Deploy(p) PROVE RunningInv'
  <2>1. /\ secret' = secret /\ releases' = releases /\ done' = NoComponents /\ pc' = "component"
    BY <1>4 DEF Deploy, Goto, RecordedSoFar
  <2>2. SoundRecord(done, pkg)'
    BY <2>1 DEF SoundRecord, NoComponents, NoComponent
  <2> QED
    BY <1>2, <1>3, <2>1, <2>2
<1>5. CASE ConnectFails \/ OnSuccessFails \/ DeployEnds
  BY <1>1, <1>2, <1>5 DEF ConnectFails, OnSuccessFails, DeployEnds, End
<1>6. CASE DeployKilled
  <2>1. pc' = "idle" /\ secret' = secret
    BY <1>6 DEF DeployKilled, End
  <2>2. CASE releases' = releases
    BY <1>1, <1>2, <2>1, <2>2
  <2>3. CASE releases' # releases
    <3>1. pc = "install" /\ k <= Len(chartsOfCurrent)
      BY <1>6, <2>3 DEF DeployKilled
    <3>2. \E rel : releases' = [releases EXCEPT ![chartsOfCurrent[k]] = rel]
      BY <1>6, <2>3 DEF DeployKilled
    <3>3. secret.comps = done /\ secret.pkg = pkg
      BY <3>1, ChartsNeedCluster DEF SecretIsCurrent
    <3>4. SoundRecord(secret.comps, secret.pkg)'
      BY <2>1, <3>1, <3>2, <3>3, OthersStaySound DEF SoundRecord
    <3> QED
      BY <1>1, <2>1, <3>4
  <2> QED
    BY <2>2, <2>3
<1>7. CASE BeginComponent
  <2>1. /\ pc = "component" /\ pc' = "install" /\ k' = 1 /\ pkg' = pkg /\ releases' = releases
        /\ current' = current /\ current \in Component /\ pkg \in Pkg
        /\ done'[current].status = "Deploying"
        /\ \A c \in Component \ {current} : done'[c] = done[c]
        /\ secret' = secret \/ (secret'.comps = done' /\ secret'.pkg = pkg)
    BY <1>7, BeginFacts DEF Wrote, current
  <2>2. SoundRecord(done, pkg)'
    BY <2>1 DEF RunningInv, SoundRecord
  <2>3. SoundRecord(secret.comps, secret.pkg)'
    BY <2>1, <2>2 DEF RunningInv, SoundRecord
  <2>4. \A n \in DOMAIN chartsOfCurrent' : ~(n < k')
    <3>1. chartsOfCurrent' \in Seq(Chart)
      BY <2>1, ConstantsAssumption DEF chartsOfCurrent, PkgDef
    <3> QED
      BY <2>1, <3>1
  <2> QED
    BY <2>1, <2>2, <2>3, <2>4 DEF RunningInv
<1>8. CASE InstallChart \/ InstallChartFails
  <2>1. /\ pc = "install" /\ k <= Len(chartsOfCurrent) /\ UNCHANGED <<secret, done, pkg, i>>
    BY <1>8 DEF InstallChart, InstallChartFails
  <2>2. \E rel : releases' = [releases EXCEPT ![chartsOfCurrent[k]] = rel]
    BY <1>8 DEF InstallChart, InstallChartFails
  <2>3. /\ secret.comps = done /\ secret.pkg = pkg
        /\ chartsOfCurrent[k] \in Chart /\ current \in Component /\ pkg \in Pkg
    BY <2>1, ChartsNeedCluster DEF SecretIsCurrent
  <2>4. SoundRecord(secret.comps, secret.pkg)' /\ SoundRecord(done, pkg)'
    BY <2>1, <2>2, <2>3, OthersStaySound DEF SoundRecord
  <2>5. CASE InstallChartFails
    BY <1>3, <2>4, <2>5 DEF InstallChartFails, Goto
  <2>6. CASE InstallChart
    <3>1. PICK rel \in Release :
             /\ releases' = [releases EXCEPT ![chartsOfCurrent[k]] = rel]
             /\ \/ rel \in Upgraded(releases[chartsOfCurrent[k]], pkg)
                \/ rel = [live |-> NoPkg, top |-> "pending"]
      BY <2>6 DEF InstallChart
    <3>2. Sound(rel, pkg)
      BY <3>1 DEF Upgraded, Sound
    <3>3. /\ pc' = "install" /\ k' = k + 1 /\ current' = current /\ chartsOfCurrent' = chartsOfCurrent
      BY <2>6, <2>1 DEF InstallChart, current, chartsOfCurrent
    <3>4. ASSUME NEW n \in DOMAIN chartsOfCurrent, n < k'
          PROVE  Sound(releases'[chartsOfCurrent[n]], pkg)
      <4>1. chartsOfCurrent \in Seq(Chart) /\ k \in Nat
        BY <2>1, DeployFacts DEF TypeOK, DeployTypeOK
      <4>2. chartsOfCurrent[n] \in Chart /\ (n = k \/ n < k)
        BY <3>3, <3>4, <4>1
      <4>3. CASE chartsOfCurrent[n] = chartsOfCurrent[k]
        BY <2>3, <3>1, <3>2, <4>3 DEF TypeOK, StateTypeOK
      <4>4. CASE chartsOfCurrent[n] # chartsOfCurrent[k]
        <5>1. n < k
          BY <4>2, <4>4
        <5>2. releases'[chartsOfCurrent[n]] = releases[chartsOfCurrent[n]]
          BY <2>3, <3>1, <4>2, <4>4 DEF TypeOK, StateTypeOK
        <5> QED
          BY <2>1, <5>1, <5>2 DEF RunningInv
      <4> QED
        BY <4>3, <4>4
    <3>5. done'[current'].status = "Deploying"
      BY <2>1, <3>3 DEF RunningInv
    <3> QED
      BY <2>1, <2>4, <3>3, <3>4, <3>5 DEF RunningInv
  <2> QED
    BY <1>8, <2>5, <2>6
<1>9. CASE ComponentStepFails \/ ManifestTemplateFails \/ OnSuccess
  <2>1. /\ pc \in DeployPhases /\ pc' \in {"component", "cleanup"}
        /\ UNCHANGED <<secret, releases, done, pkg>>
    BY <1>9 DEF ComponentStepFails, ManifestTemplateFails, OnSuccess, Goto
  <2>2. SoundRecord(done, pkg)'
    BY <2>1 DEF RunningInv, SoundRecord
  <2> QED
    BY <1>2, <1>3, <2>1, <2>2
<1>10. CASE ComponentSucceeds
  <2>1. /\ pc = "install" /\ pc' = "success" /\ UNCHANGED <<releases, pkg>>
        /\ done' = RecordedAs("Succeeded") /\ k > Len(chartsOfCurrent)
        /\ secret' = secret \/ (secret'.comps = done' /\ secret'.pkg = pkg)
    BY <1>10, SucceedsFacts DEF Wrote
  <2>2. \A c \in Component \ {current} : done'[c] = done[c]
    BY <2>1, RecordedFacts
  <2>3. \A x \in Range(Def[pkg].charts[current]) : Sound(releases[x], pkg)
    <3>1. chartsOfCurrent \in Seq(Chart) /\ k \in Nat
      BY <2>1, DeployFacts DEF TypeOK, DeployTypeOK
    <3>2. \A n \in DOMAIN chartsOfCurrent : n < k
      BY <2>1, <3>1
    <3> QED
      BY <2>1, <3>2 DEF RunningInv, Range, chartsOfCurrent
  <2>4. SoundRecord(done, pkg)'
    BY <2>1, <2>2, <2>3 DEF RunningInv, SoundRecord
  <2>5. SoundRecord(secret.comps, secret.pkg)'
    BY <2>1, <2>4 DEF RunningInv, SoundRecord
  <2> QED
    BY <1>3, <2>1, <2>4, <2>5
<1>11. CASE Cleanup
  <2>1. /\ pc = "cleanup" /\ pc' = "idle" /\ releases' = releases
        /\ secret' = secret \/ (secret'.comps = RecordedAs("Failed") /\ secret'.pkg = pkg)
    BY <1>11, CleanupFacts DEF Wrote
  <2>2. /\ RecordedAs("Failed")[current].status = "Failed"
        /\ \A c \in Component \ {current} : RecordedAs("Failed")[c] = done[c]
    BY <2>1, RecordedFacts
  <2>3. SoundRecord(secret.comps, secret.pkg)'
    BY <2>1, <2>2 DEF RunningInv, SoundRecord
  <2> QED
    BY <1>1, <2>1, <2>3
<1> QED
  BY <1>4, <1>5, <1>6, <1>7, <1>8, <1>9, <1>10, <1>11 DEF DeployNext, DeployStep

\* When every write reaches the API server and the CLI is not signalled, a
\* component recorded as Succeeded has all its charts running in the recorded
\* version, save those that a remove took away or was killed while taking
\* away, however deploys of other versions failed or were killed since.
THEOREM RecordedSuccessRuns ==
    ASSUME EveryWriteSucceeds
    PROVE  Spec => []SucceededIsRunning
<1>1. Init => RunningInv
  BY EmptyIsSound DEF Init, StateInit, RunningInv, DeployPhases, RemovePhases
<1>2. TypeOK /\ RecordedSoFar /\ NotCancelled /\ SecretIsCurrent /\ RunningInv /\ [Next]_vars
        => RunningInv'
  <2> SUFFICES ASSUME TypeOK, RecordedSoFar, NotCancelled, SecretIsCurrent, RunningInv, [Next]_vars
               PROVE  RunningInv'
    OBVIOUS
  <2>1. CASE Cancel
    BY <2>1 DEF Cancel, Fault, EveryWriteSucceeds
  <2>2. CASE UNCHANGED vars
    BY <2>2 DEF vars, stateVars, deployVars, removeVars, RunningInv, SoundRecord, current,
       chartsOfCurrent
  <2> QED
    BY <2>1, <2>2, RunningDeploy, RunningRemove DEF Next
<1>3. RunningInv => SucceededIsRunning
  BY DEF RunningInv, SoundRecord, Sound, SucceededIsRunning
<1> QED
  BY <1>1, <1>2, <1>3, TypeCorrect, RecordsNameTheirVersion, NeverCancelled, SecretStaysCurrent,
     PTL DEF Spec
=============================================================================
