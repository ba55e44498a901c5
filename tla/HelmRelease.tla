---------------------------- MODULE HelmRelease ----------------------------
(***************************************************************************)
(* One Helm release through installs, upgrades, rollbacks, migrations of   *)
(* removed APIs, updates of values and uninstalls: the revisions that Helm *)
(* stores as one secret each, the order in which Zarf and Helm write them, *)
(* and what a failed call, a timeout, a kill or an upgraded cluster leaves *)
(* for the next operation.  Helm is modelled from its vendored source.     *)
(*                                                                         *)
(* When the context of an install or upgrade ends, Helm marks the revision *)
(* as failed and returns, while its goroutine works on: the background.    *)
(***************************************************************************)
EXTENDS PostRenderer, FiniteSetsExt

CONSTANTS
    maxHelmHistory,  \* how many revisions an upgrade keeps
    Radix,           \* the base of the revision numbers in secret names: 10
    MaxRevision,     \* bound on revision numbers
    MaxFaults        \* bound on failed calls, timeouts and kills

ASSUME HistoryAssumption ==
    /\ maxHelmHistory \in Nat \ {0, 1}
    /\ Radix \in Nat \ {0, 1}
    /\ MaxRevision \in Nat /\ MaxRevision < Radix * Radix
    /\ MaxFaults \in Nat

VARIABLES
    history,     \* revision number -> revision
    newAPIs,     \* the cluster no longer serves the APIs that old manifests use
    pc,          \* where the operation is; "idle" between CLI processes
    op,          \* the operation
    orig,        \* currentRelease of an upgrade or rollback, 0 without
    up,          \* the revision it stored, 0 before
    background,  \* Helm's goroutine after its context ended
    faults,      \* spent faults
    clean,       \* no fault in this operation
    migration,   \* what migrateDeprecatedAPIs did in this operation
    before,      \* the release as it was when the operation began
    result       \* how the last operation ended

helmVars == <<history, newAPIs, pc, op, orig, up, background, faults, clean, migration, before, result>>
vars == <<helmVars, renderVars>>

Status == {"deployed", "superseded", "failed", "pending", "uninstalling"}

\* served: the manifest uses only APIs that an upgraded cluster still serves.
\* proven and migrated are history: Helm completed it; a migration stored it.
Revision == [status : Status, pkg : Pkg, served : BOOLEAN, proven : BOOLEAN, migrated : BOOLEAN]

NoBackground == [on |-> FALSE, orig |-> 0, status |-> "failed", up |-> 0]
NoOp == [kind |-> "none", pkg |-> NoPkg, own |-> FALSE, many |-> FALSE, able |-> FALSE]

-----------------------------------------------------------------------------
(* The revisions of a release.                                             *)

Revisions == DOMAIN history
Newest == IF Revisions = {} THEN 0 ELSE Max(Revisions)
Deployed == {r \in Revisions : history[r].status = "deployed"}

\* Secrets are listed by name, and names end in the revision number: with two
\* digits, 10 comes before 2.
NameBefore(a, b) ==
    LET aligned(r) == IF r < Radix THEN r * Radix ELSE r IN
    aligned(a) < aligned(b) \/ (aligned(a) = aligned(b) /\ a < b)

ListedLast(revs) == CHOOSE r \in revs : \A q \in revs : q = r \/ NameBefore(q, r)

\* storage.Create: with a maximum, the oldest revisions make room for the new
\* one, but never the newest deployed one.
Stored(r, revision, maximum) ==
    LET spare   == IF Deployed = {} THEN Revisions ELSE Revisions \ {Max(Deployed)}
        excess  == Cardinality(Revisions) - (maximum - 1)
        pruned  == IF maximum = 0 THEN {}
                   ELSE {q \in spare : Cardinality({o \in spare : o < q}) < excess} IN
    [q \in (Revisions \ pruned) \cup {r} |-> IF q = r THEN revision ELSE history[q]]

\* recordRelease: writing the status of a revision that was pruned fails, and
\* the error is only logged.
Marked(h, r, status) ==
    IF r \notin DOMAIN h THEN h
    ELSE [h EXCEPT ![r].status = status, ![r].proven = @ \/ status = "deployed"]

Builds(r) == history[r].served \/ ~newAPIs

\* The release as the package's commands see it.
Abstract(h) ==
    LET revs     == DOMAIN h
        deployed == {r \in revs : h[r].status = "deployed"} IN
    IF revs = {} THEN NoRelease
    ELSE [live |-> IF deployed = {} THEN NoPkg ELSE h[Max(deployed)].pkg,
          top  |-> LET status == h[Max(revs)].status IN
                   IF status \in {"deployed", "failed", "pending"} THEN status
                   ELSE IF status = "superseded" \/ deployed # {} THEN "failed"
                   ELSE "pending"]
-----------------------------------------------------------------------------
(* Starting and ending an operation.                                       *)

Goto(label) == pc' = label

\* What an upgrade or a rollback has to build is of APIs that the cluster
\* serves, or is the newest revision and the one that will be migrated.
Buildable ==
    Revisions # {} =>
        LET last == ListedLast(Revisions) IN
        IF Builds(last) THEN \A r \in Deployed \cup {Newest} : Builds(r) ELSE last = Newest

\* own: existing resources are adopted; many: several revisions were deployed;
\* able: Buildable.  The last two are history.
Operation(kind, p, own) ==
    [kind |-> kind, pkg |-> p, own |-> own, many |-> Cardinality(Deployed) > 1, able |-> Buildable]

Fault ==
    /\ faults < MaxFaults
    /\ faults' = faults + 1
    /\ clean' = FALSE

NoFault == UNCHANGED <<faults, clean>>

Returns(r) == pc' = "returned" /\ result' = r

Start(kind, p, own) ==
    /\ pc = "idle"
    /\ Newest + 3 <= MaxRevision
    /\ op' = Operation(kind, p, own)
    /\ before' = Abstract(history)
    /\ migration' = "none"
    /\ clean' = TRUE
    /\ orig' = 0 /\ up' = 0
    /\ todo' = newRenderer(own)
    /\ UNCHANGED <<history, newAPIs, background, faults, result, namespaces, bare>>

\* InstallOrUpgradeChart; without a history the chart is installed.
InstallOrUpgradeChart(p, own) ==
    /\ Start("deploy", p, own)
    /\ Goto(IF Revisions = {} THEN "prepare" ELSE "migrate")

\* UpdateReleaseValues: an upgrade to the chart of the revision that is listed
\* last, with the values of the current one; no adoption, migration or rollback.
UpdateReleaseValues ==
    /\ Revisions # {}
    /\ Start("values", history[ListedLast(Revisions)].pkg, FALSE)
    /\ Goto("prepare")

\* The client, the renderer or the history cannot be had: nothing is undone.
StartFails ==
    /\ pc = IF op.kind = "deploy" /\ Revisions # {} THEN "migrate" ELSE "prepare"
    /\ migration = "none"
    /\ Fault
    /\ Returns("failed")
    /\ todo' = {}
    /\ UNCHANGED <<history, newAPIs, op, orig, up, background, migration, before, namespaces, bare>>

\* A command ends; a goroutine of Helm ends with the process.
Exit ==
    /\ pc = "returned"
    /\ Goto("idle")
    /\ background' = NoBackground
    /\ op' = NoOp
    /\ orig' = 0 /\ up' = 0
    /\ UNCHANGED <<history, newAPIs, faults, clean, migration, before, result, renderVars>>

Killed ==
    /\ pc \notin {"idle", "returned"}
    /\ Fault
    /\ Goto("idle")
    /\ result' = "killed"
    /\ background' = NoBackground
    /\ op' = NoOp
    /\ orig' = 0 /\ up' = 0 /\ todo' = {} /\ bare' = {}
    /\ UNCHANGED <<history, newAPIs, migration, before, namespaces>>

\* The cluster is upgraded to a Kubernetes that removed old APIs.
UpgradeCluster ==
    /\ pc = "idle"
    /\ ~newAPIs
    /\ newAPIs' = TRUE
    /\ UNCHANGED <<history, pc, op, orig, up, background, faults, clean, migration, before, result, renderVars>>

\* An operation of Helm returned an error: UpdateReleaseValues and RemoveChart
\* return it, InstallOrUpgradeChart looks for a revision to roll back to.
HelmFails ==
    /\ IF op.kind = "deploy" THEN Goto("failed") /\ UNCHANGED result ELSE Returns("failed")
    /\ todo' = {} /\ bare' = {}

-----------------------------------------------------------------------------
(* migrateDeprecatedAPIs, on the revision that the history lists last.     *)

\* Nothing to migrate.
MigrateNothing ==
    /\ pc = "migrate" /\ migration = "none"
    /\ Builds(ListedLast(Revisions))
    /\ Goto("prepare")
    /\ NoFault
    /\ UNCHANGED <<history, newAPIs, op, orig, up, background, migration, before, result, renderVars>>

\* The revision is marked as superseded ...
MigrateSupersede ==
    /\ pc = "migrate" /\ migration = "none"
    /\ ~Builds(ListedLast(Revisions))
    /\ orig' = ListedLast(Revisions)
    /\ history' = Marked(history, orig', "superseded")
    /\ migration' = "begun"
    /\ NoFault
    /\ UNCHANGED <<newAPIs, pc, op, up, background, before, result, renderVars>>

\* ... and a copy that uses the new APIs stored under the next number, without
\* a maximum.  Helm refuses a number that is taken.
MigrateCreate ==
    /\ pc = "migrate" /\ migration = "begun"
    /\ IF orig + 1 \in Revisions
         THEN /\ migration' = "refused"
              /\ HelmFails
              /\ UNCHANGED <<history, namespaces>>
         ELSE /\ migration' = "done"
              /\ history' = Stored(orig + 1,
                    [history[orig] EXCEPT !.status = "deployed", !.served = TRUE, !.migrated = TRUE], 0)
              /\ Goto("prepare")
              /\ UNCHANGED <<result, renderVars>>
    /\ NoFault
    /\ UNCHANGED <<newAPIs, op, orig, up, background, before>>

MigrateFails ==
    /\ pc = "migrate"
    /\ Fault
    /\ HelmFails
    /\ UNCHANGED <<history, newAPIs, op, orig, up, background, migration, before, namespaces>>

-----------------------------------------------------------------------------
(* Helm's install and upgrade.                                             *)

\* prepareUpgrade: which revision is the current one; 0 when there is none or
\* Helm refuses.
CurrentRelease ==
    LET status == IF Revisions = {} THEN "pending" ELSE history[Newest].status IN
    IF status = "pending" THEN 0
    ELSE IF status = "deployed" THEN Newest
    ELSE IF Deployed # {} THEN Max(Deployed)
    ELSE IF status \in {"failed", "superseded"} THEN Newest
    ELSE 0

\* The manifests are rendered, which adds to the renderer's namespaces.
Prepare ==
    /\ pc = "prepare"
    /\ Revisions = {} \/ CurrentRelease # 0
    /\ orig' = CurrentRelease
    /\ todo' = todo \cup editHelmResources(op.pkg)
    /\ Goto("namespaces")
    /\ NoFault
    /\ UNCHANGED <<history, newAPIs, op, up, background, migration, before, result, namespaces, bare>>

\* Another operation is, or seems to be, in progress.
UpgradeRefused ==
    /\ pc = "prepare"
    /\ Revisions # {} /\ CurrentRelease = 0
    /\ HelmFails
    /\ NoFault
    /\ UNCHANGED <<history, newAPIs, op, orig, up, background, migration, before, namespaces>>

PrepareNamespace ==
    /\ pc = "namespaces"
    /\ \E n \in Namespace : adoptAndUpdateNamespace(n, op.own)
    /\ NoFault
    /\ UNCHANGED <<history, newAPIs, pc, op, orig, up, background, migration, before, result>>

ApplySecrets ==
    /\ pc = "namespaces"
    /\ applySecrets
    /\ NoFault
    /\ UNCHANGED <<history, newAPIs, pc, op, orig, up, background, migration, before, result>>

\* A call of the post-renderer fails, or building or validating the resources.
RenderFails ==
    /\ pc = "namespaces"
    /\ \/ Fault
       \/ RendererDone /\ orig # 0 /\ ~Builds(orig) /\ NoFault
    /\ HelmFails
    /\ UNCHANGED <<history, newAPIs, op, orig, up, background, migration, before, namespaces>>

\* The new revision is stored as pending; only then are resources applied.
CreateRevision ==
    /\ pc = "namespaces"
    /\ RendererDone
    /\ orig # 0 => Builds(orig)
    /\ up' = Newest + 1
    /\ history' = Stored(up',
          [status |-> "pending", pkg |-> op.pkg, served |-> newAPIs, proven |-> FALSE, migrated |-> FALSE],
          IF op.kind = "deploy" /\ orig # 0 THEN maxHelmHistory ELSE 0)
    /\ Goto("apply")
    /\ NoFault
    /\ UNCHANGED <<newAPIs, op, orig, background, migration, before, result, renderVars>>

\* The resources are applied and ready: the previous revision is superseded, if
\* that record is not lost ...
Applied ==
    /\ pc = "apply"
    /\ \/ NoFault /\ history' = IF orig = 0 THEN history ELSE Marked(history, orig, "superseded")
       \/ Fault /\ orig # 0 /\ UNCHANGED history
    /\ Goto("record")
    /\ UNCHANGED <<newAPIs, op, orig, up, background, migration, before, result, renderVars>>

\* ... and the new one deployed.
RecordDeployed ==
    /\ pc = "record"
    /\ history' = Marked(history, up, "deployed")
    /\ IF op.kind = "deploy" THEN Goto("health") /\ UNCHANGED result ELSE Returns("ok")
    /\ NoFault
    /\ UNCHANGED <<newAPIs, op, orig, up, background, migration, before, renderVars>>

\* That record is lost: an upgrade returns the error, an install only logs it.
RecordLost ==
    /\ pc = "record"
    /\ Fault
    /\ IF orig = 0 THEN Goto("health") /\ UNCHANGED <<result, todo, bare>> ELSE HelmFails
    /\ UNCHANGED <<history, newAPIs, op, orig, up, background, migration, before, namespaces>>

\* A hook, an apply or the wait fails; failRelease may lose its record too.
ApplyFails ==
    /\ pc = "apply"
    /\ Fault
    /\ history' \in {Marked(history, up, "failed")} \cup
                    (IF faults' < MaxFaults THEN {history} ELSE {})
    /\ HelmFails
    /\ UNCHANGED <<newAPIs, op, orig, up, background, migration, before, namespaces>>

\* The context ends while Helm's goroutine still applies or waits.
ApplyTimesOut ==
    /\ pc = "apply"
    /\ Fault
    /\ history' = Marked(history, up, "failed")
    /\ background' = [on |-> TRUE, orig |-> orig, up |-> up,
                      status |-> IF orig = 0 THEN "failed" ELSE history[orig].status]
    /\ HelmFails
    /\ UNCHANGED <<newAPIs, op, orig, up, migration, before, namespaces>>

\* The goroutine's resources become ready after all: an install stores its
\* revision as deployed; an upgrade supersedes the previous one and then
\* waits for ever to report its own.
BackgroundSucceeds ==
    /\ background.on
    /\ history' = IF background.orig = 0 THEN Marked(history, background.up, "deployed")
                  ELSE Marked(history, background.orig, "superseded")
    /\ background' = NoBackground
    /\ UNCHANGED <<newAPIs, pc, op, orig, up, faults, clean, migration, before, result, renderVars>>

\* Its own wait fails: an upgrade writes the previous revision back as it was
\* read, and its own as failed.
BackgroundFails ==
    /\ background.on
    /\ history' = IF background.orig = 0 THEN history
                  ELSE Marked(Marked(history, background.orig, background.status), background.up, "failed")
    /\ background' = NoBackground
    /\ UNCHANGED <<newAPIs, pc, op, orig, up, faults, clean, migration, before, result, renderVars>>

\* The health checks of the new manifest.
HealthChecked ==
    /\ pc = "health"
    /\ \/ NoFault /\ Returns("ok")
       \/ Fault /\ Returns("failed")
    /\ UNCHANGED <<history, newAPIs, op, orig, up, background, migration, before, renderVars>>

-----------------------------------------------------------------------------
(* The rollback of InstallOrUpgradeChart.                                  *)

\* Mutated: the status of the revision is not looked at.
RollbackCandidatesAll == Revisions \ {up}

\* Mutated: nothing is rolled back.
RollbackCandidatesNone == {}

\* Previous releases that successfully deployed.
RollbackCandidates == Deployed

\* The last of them in the list is the target; without one, or when the
\* history cannot be read, the error is returned.
ChooseRollback ==
    /\ pc = "failed"
    /\ \/ /\ RollbackCandidates # {}
          /\ orig' = ListedLast(RollbackCandidates)
          /\ Goto("rollback")
          /\ NoFault
          /\ UNCHANGED result
       \/ /\ RollbackCandidates = {}
          /\ Returns("failed")
          /\ NoFault
          /\ UNCHANGED orig
       \/ /\ Fault
          /\ Returns("failed")
          /\ UNCHANGED orig
    /\ UNCHANGED <<history, newAPIs, op, up, background, migration, before, renderVars>>

\* The target is stored again as the newest revision.
RollbackCreate ==
    /\ pc = "rollback"
    /\ orig \in Revisions
    /\ up' = Newest + 1
    /\ history' = Stored(up', [history[orig] EXCEPT !.status = "pending", !.proven = FALSE], maxHelmHistory)
    /\ Goto("rollingback")
    /\ NoFault
    /\ UNCHANGED <<newAPIs, op, orig, background, migration, before, result, renderVars>>

\* Creating it fails; or, once it is stored, its manifest or that of the
\* revision before cannot be built, a hook fails, or the last record is lost:
\* then it stays pending.
RollbackStops ==
    /\ \/ pc \in {"rollback", "rollingback", "rolledback"} /\ Fault
       \/ pc = "rollingback" /\ \E r \in {up - 1, up} : r \in Revisions /\ ~Builds(r) /\ NoFault
    /\ Returns("failed")
    /\ UNCHANGED <<history, newAPIs, op, orig, up, background, migration, before, renderVars>>

\* Applying fails, and the revision before is superseded; or the wait does.
RollbackFails ==
    /\ pc = "rollingback"
    /\ Fault
    /\ history' \in {Marked(Marked(history, up - 1, "superseded"), up, "failed"),
                     Marked(history, up, "failed")}
    /\ Returns("failed")
    /\ UNCHANGED <<newAPIs, op, orig, up, background, migration, before, renderVars>>

\* Every deployed revision is superseded ...
RollbackApplied ==
    /\ pc = "rollingback"
    /\ \A r \in {up - 1, up} \cap Revisions : Builds(r)
    /\ history' = [r \in Revisions |->
          IF r \in Deployed THEN [history[r] EXCEPT !.status = "superseded"] ELSE history[r]]
    /\ Goto("rolledback")
    /\ NoFault
    /\ UNCHANGED <<newAPIs, op, orig, up, background, migration, before, result, renderVars>>

\* ... and the copy deployed; the error of the upgrade is returned.
RollbackRecorded ==
    /\ pc = "rolledback"
    /\ history' = Marked(history, up, "deployed")
    /\ Returns("failed")
    /\ NoFault
    /\ UNCHANGED <<newAPIs, op, orig, up, background, migration, before, renderVars>>

-----------------------------------------------------------------------------
(* RemoveChart: Helm's uninstall without keeping the history.              *)

RemoveChart ==
    /\ pc = "idle"
    /\ Revisions # {}
    /\ op' = Operation("remove", NoPkg, FALSE)
    /\ before' = Abstract(history)
    /\ migration' = "none"
    /\ clean' = TRUE
    /\ Goto("uninstall")
    /\ UNCHANGED <<history, newAPIs, orig, up, background, faults, result, renderVars>>

\* The newest revision is marked, a failure to do so being only logged, and the
\* resources of its manifest are deleted.
Uninstalling ==
    /\ pc = "uninstall"
    /\ \/ NoFault /\ history' = Marked(history, Newest, "uninstalling")
       \/ Fault /\ UNCHANGED history
    /\ Goto("purge")
    /\ UNCHANGED <<newAPIs, op, orig, up, background, migration, before, result, renderVars>>

\* The revisions are deleted from the oldest to the newest.
Purge ==
    /\ pc = "purge"
    /\ Revisions # {}
    /\ history' = [r \in Revisions \ {Min(Revisions)} |-> history[r]]
    /\ NoFault
    /\ UNCHANGED <<newAPIs, pc, op, orig, up, background, migration, before, result, renderVars>>

Uninstalled ==
    /\ pc = "purge"
    /\ Revisions = {}
    /\ \/ NoFault /\ Returns("ok")
       \/ Fault /\ Returns("failed")
    /\ UNCHANGED <<history, newAPIs, op, orig, up, background, migration, before, renderVars>>

\* A hook, the deletion of a resource or of a revision fails.
UninstallFails ==
    /\ \/ pc = "uninstall"
       \/ pc = "purge" /\ Revisions # {}
    /\ Fault
    /\ Returns("failed")
    /\ UNCHANGED <<history, newAPIs, op, orig, up, background, migration, before, renderVars>>

-----------------------------------------------------------------------------
Init ==
    /\ history = [r \in {} |-> 0]
    /\ newAPIs = FALSE
    /\ pc = "idle"
    /\ op = NoOp
    /\ orig = 0 /\ up = 0
    /\ background = NoBackground
    /\ faults = 0
    /\ clean = TRUE
    /\ migration = "none"
    /\ before = NoRelease
    /\ result = "none"
    /\ RendererInit

Next ==
    \/ \E p \in Pkg, own \in BOOLEAN : InstallOrUpgradeChart(p, own)
    \/ UpdateReleaseValues \/ RemoveChart \/ UpgradeCluster
    \/ StartFails \/ MigrateNothing \/ MigrateSupersede \/ MigrateCreate \/ MigrateFails
    \/ Prepare \/ UpgradeRefused \/ PrepareNamespace \/ ApplySecrets \/ RenderFails \/ CreateRevision
    \/ Applied \/ RecordDeployed \/ RecordLost \/ ApplyFails \/ ApplyTimesOut
    \/ BackgroundSucceeds \/ BackgroundFails \/ HealthChecked
    \/ ChooseRollback \/ RollbackCreate \/ RollbackStops \/ RollbackFails
    \/ RollbackApplied \/ RollbackRecorded
    \/ Uninstalling \/ Purge \/ Uninstalled \/ UninstallFails
    \/ Exit \/ Killed

Spec == Init /\ [][Next]_vars

-----------------------------------------------------------------------------
\* Revision numbers and statuses are Helm's, and no operation outgrows the
\* revisions it reserved: a migration, an upgrade and a rollback at most.
TypeOK ==
    /\ Revisions \subseteq 1..MaxRevision
    /\ \A r \in Revisions : history[r] \in Revision
    /\ namespaces \in [Namespace -> NamespaceState]
    /\ todo \subseteq Namespace /\ bare \subseteq Namespace
    /\ op.pkg \in Pkg \cup {NoPkg}
    /\ {orig, up} \subseteq 0..MaxRevision
    /\ faults \in 0..MaxFaults
    /\ before \in Release
    /\ migration \in {"none", "begun", "done", "refused"}
    /\ result \in {"none", "ok", "failed", "killed"}

\* InstallOrUpgradeChart only rolls back to a revision that Helm completed at
\* some time, or that a migration stored as deployed: never to one that failed,
\* whatever a timed-out goroutine of an earlier or of this upgrade writes.
RollbackIsProven ==
    pc = "rollback" /\ orig \in Revisions => history[orig].proven \/ history[orig].migrated

\* When Helm begins to apply resources, every namespace that the manifests name
\* exists and holds the pull secrets, also after an earlier attempt that
\* created the namespace and failed before the secrets.
SecretsBeforeResources ==
    pc = "apply" => \A n \in Named[op.pkg] : namespaces[n].exists /\ namespaces[n].secrets

\* A deploy in which nothing fails repairs what an earlier one left: if some
\* revision is deployed it ends with the newest one deployed, be it by the
\* rollback, and it succeeds unless the newest was pending at its start.  On an
\* upgraded cluster this takes a release that Helm can still build: the migration
\* looks at one revision only, and not always at the newest (see NameBefore).
DeployRecovers ==
    pc = "returned" /\ op.kind = "deploy" /\ clean /\ op.able =>
        /\ before.live # NoPkg => history[Newest].status = "deployed"
        /\ before.top # "pending" => result = "ok"

\* A deploy over whatever an earlier one left ends in a revision that works.
RecoveryIsSound == RollbackIsProven /\ DeployRecovers

\* However an operation ends, it leaves the release as the package commands
\* expect (ReleaseOutcomes), when at most one revision was deployed at its
\* start and nothing was migrated.  An install whose last record is lost is
\* reported as a success and stays pending: Helm only logs it.
OutcomesAreKnown ==
    [][LET after == Abstract(history') IN
       pc # "idle" /\ pc' = "idle" /\ migration = "none" /\ ~op.many =>
         IF op.kind = "remove"
           THEN after \in {NoRelease} \cup (IF result' = "ok" THEN {} ELSE UninstallFailures(before))
           ELSE after \in Upgraded(before, op.pkg) \cup
                          (IF result' = "ok" /\ clean THEN {}
                           ELSE IF result' = "ok" THEN Interrupted(before, op.pkg)
                           ELSE InstallFailures(before, op.pkg))]_vars
=============================================================================
