# TLA+ models of Zarf

Zarf packages charts, manifests, images, repositories and files for air-gapped
clusters (`zarf package create`), moves such packages through archives and
registries, and deploys, redeploys and removes them. Its lasting state is in
many stores that no transaction joins: the definition and the files of a
package, tarballs and their parts, OCI registries, and in the cluster one
secret per package, the secret with the Zarf state, Helm's revisions,
namespaces, certificates and what the agent's webhook writes into resources.
The CLI writes them one after the other and can fail, be cancelled or be killed
between any two writes. That is what these modules are about.

Paths below are relative to the repository. `PROJECT.json` maps every
definition to the lines it models.

## Inventory

| Part | State it keeps | Operations | What is hard about it | What makes it correct |
|---|---|---|---|---|
| Package deploy (`src/pkg/packager/deploy.go`) | the local list of deployed components; writes the package secret | `Deploy`, `deployComponents`, `deployComponent`, `deployInitComponent`, `installCharts`, `installManifests` | a record before and after every component, errors of records only logged, cleanup with another context after a cancel; goroutines inside a component | what Helm was given is in the secret; Succeeded means running |
| Package remove (`src/pkg/packager/remove.go`) | its copy of the package secret | `Remove` | edits the list it walks; two ways to build the record; retries | complete, reverse order, forgets only what is gone |
| Package secret (`src/pkg/cluster/zarf.go`, `src/pkg/state/state.go`) | `DeployedPackage` | get, record, update, delete, merge of charts | the whole secret is replaced by each write | no chart lost over any sequence of deploys |
| Helm operations (`src/internal/packager/helm`) | revisions, one secret each; namespaces with secrets | install, upgrade, rollback, migration of removed APIs, update of values, uninstall, post-render | timeouts whose goroutine goes on, pending revisions, order of revisions | rollback to what was deployed; a later deploy works |
| Signal handling (`main.go`) | the root context | cancel on the first signal, exit on the second | races every step; calls that do not look at the context go on | what a cancelled command leaves behind is still recorded |
| Component actions (`src/pkg/packager/actions`) | retry counter, timers | `Run`, `runAction` | nested timeouts, output held open by children | the limit (which the code does not keep), retries |
| Image push and pull (`src/pkg/images`) | registry contents, tunnels | `Push`, `Pull`, `Unpack` | nested retries through a tunnel, tags that move meanwhile | every image under both names; what is copied is what is described |
| Data injection (`src/pkg/cluster/data.go`) | goroutines of an error group | `HandleDataInjection` | waits for pods while charts are deployed, goes on when the component has failed | the marker means the data; joined before the component succeeds |
| Health checks and wait (`src/internal/healthchecks`, `src/pkg/wait`) | status collector | `WaitForReady`, wait | cancel races the event channel | verdict is of the last statuses |
| Zarf state and init (`src/pkg/cluster/cluster.go`, `src/cmd/initialize.go`) | the zarf-state secret | `InitState`, `LoadState`, `SaveState` | repeated init over an old state | credentials in use survive |
| Injector (`src/pkg/cluster/injector.go`) | pod, config maps, service | `StartInjection`, `StopInjection` | left-overs of a failed attempt, port collisions | serves this package's payload, nothing left behind |
| Credential updates (`src/cmd/zarf_tools.go`, `src/pkg/cluster/secrets.go`) | old and new state during a command | `update-creds registry`, `git`, `agent`, each with a rollback | three kinds of store, a rollback that can fail, a release that Helm calls pending, a login with the password being changed | what the command reports is true of all stores |
| Registry certificates (`src/pkg/cluster/cluster.go`, `src/pkg/pki`) | one server, one client secret, one client secret per namespace | apply, renew by age | several secrets, one CA, namespaces listed by a label | every listed client is of the server's CA |
| Package definitions (`src/internal/pkgcfg`, `src/internal/api`, `src/api`) | `zarf.yaml` in one or two documents | parse, migrate, convert, change, write, upgrade | two API versions that must agree over any sequence of reads and writes | nothing is lost, doubled or reordered |
| Loading and imports (`src/pkg/packager/load`) | the stack of imports | resolve, override, rebase paths, fill templates, validate | recursion, paths relative to each level | every path resolves, nothing is lost or composed twice |
| Component filters (`src/pkg/packager/filters`) | none | `Apply` | groups, defaults, globs, filters after one another | one per group, required kept |
| Values (`src/pkg/value`, `src/pkg/packager/values_preflight.go`) | the merged values of a deployment | merge, set, preflight, `setValues` | values that actions set on the way | no missing key after the preflight |
| Layout, assembly, archives, split, OCI, signing (`src/pkg/packager/layout`, `assemble`, `src/pkg/zoci`, `src/internal/split`) | directories, tarballs, parts, registries | create, sign, archive, split, publish, copy, pull, load | half-done commands, partial pulls, two-file signing | whole, verified as claimed, published at once |
| Agent (`src/internal/agent`, `src/pkg/transform`) | the mutated resources | one hook per kind, a reverse proxy | re-admission, a state that changes | points to what was pushed; mutating again changes nothing |
| Git repositories, tunnels, variables, features, lint, inspect, destroy, command line | little or none | | I/O and text | see "Not modelled" |

How they interact: within one process a deploy loads a definition, filters it,
checks its values, and per component runs actions, pushes images, starts
injections, hands charts to Helm and waits for health, all under the one context
that the signal handler cancels. Between processes everything goes through the
stores: deploy and remove share the package secret and the releases; `init` and
`update-creds` write the Zarf state that every deploy, the agent and the
proxy read; create and publish leave archives and registries to pull and load.

`PROJECT.json` lists the hazards, each at its line, with the properties that
would catch it, and a note where the code does not have the property in general.

## Modules

| Group | Modules | Run |
|---|---|---|
| Package lifecycle | `PackageState` (the secret, the releases, the process), `PackageDeploy`, `PackageRemove`, composed by `PackageLifecycle`; `MCPackageLifecycle`, `PackageLifecycle_proofs` | `lifecycle_*`, `orphan_on_redeploy` |
| One release | `ReleaseOutcomes` (what a Helm operation may leave behind; used by `PackageState`), `PostRenderer`, `HelmRelease` (shows that these are the outcomes); `MCHelmRelease`, `HelmRelease_proofs` | `helm` |
| One component | `ActionRun`, `ImagePush`, `HealthChecks`, `DataInjection`, composed by `ComponentDeploy`; `ComponentDeploy_proofs` | `component`, `action_limit` |
| Init | `Injector`, composed by `ZarfInit`; `MCZarfInit`, `ZarfInit_proofs` | `init` |
| Credentials | `Credentials`; `MCCredentials`, `Credentials_proofs` | `creds` |
| Definitions | `PackageConvert` (both versions), `PackageDefinition`; `MCPackageDefinition`, `PackageDefinition_proofs` | `definition` |
| Loading | `PackageImport` (of v1alpha1 and of v1beta1 packages), `ComponentFilter`, `PackageValues`, composed by `PackageLoad`, which validates the outcome; `MCPackageLoad` | `load` |
| Packages outside a cluster | `PackageLayout`, `PackageArchive`, `PackageRegistry`, `PackageAssemble` (with the pull of images), composed by `PackagePipeline`, which implements the abstract `PackageCatalog`; `MCPackagePipeline`, `PackagePipeline_proofs` | `pipeline` |
| Agent | `AgentHooks` (with the transformation of references), `AgentProxy`, composed by `Agent`; `MCAgent`, `Agent_proofs` | `agent` |

Definitions commented `Mutated:` are plausible errors in the definition that
follows; a property is kept only if such a change violates it.

### Deploy and remove

`secret` is the package secret (`NoSecret` when it does not exist): version,
generation and, per component, status, generation and the list of installed
charts. Lists of charts are functions from charts to a status, since the code
rebuilds them from a Go map, in arbitrary order, whenever it records a
component. `releases` gives for each chart the version of its deployed
revision and the status of its newest one. `pc` is the phase of the running
command and `last` how the last one ended.

* Deploy: `Deploy` starts a command, `BeginComponent` is the head of the loop
  (connect, read the generation, append the component, record it as
  Deploying), `InstallChart` and `InstallChartFails` are one chart or manifest,
  `ComponentStepFails` is the failure of anything else in the component,
  `ManifestTemplateFails` is the failure between two manifests,
  `ComponentSucceeds` and `Cleanup` are the two records at the end of a
  component, `OnSuccess` runs the success actions, `DeployEnds` and
  `DeployKilled` end the process. `connected` says whether the cluster client
  exists: a component that needs no cluster, before the first that does, records nothing.
* Remove: `Remove` reads or makes up the record, `BeginRemoveComponent` clones
  the component's list, `UninstallChart` and `UpdateAfterChart` alternate (the
  crash between them is the point), `RemoveComponent` drops the component and
  updates the secret, `RemoveEnds` deletes the secret of a package
  all of whose components are gone. `DeleteChart` keeps what `slices.DeleteFunc` does to
  the array it shares with the record: a zero entry `Blank` is left behind.
* Failures: `Faults` says which kinds of step may fail in a run, at most
  `MaxFaults` times: `connect`, `read` and `write` (the Kubernetes API), `helm`,
  `step`, `render`, `cancel` and `crash`. A call with a cancelled context always
  fails and costs nothing.

Abstracted: components of an init package that are skipped because
the registry is external are components without charts; failures of several
API calls at the head of one iteration count as one fault; a remove without a
cluster changes none of this state. A failed write of the package secret has no effect.

### One release

`history` holds Helm's stored revisions, at most `maxHelmHistory` of them;
Helm's own steps (prepare, create the pending revision, apply, supersede,
record, roll back, purge) are translated from its vendored source, Zarf's
around them from `chart.go` and `post-render.go`. `background` is the goroutine
of an install or upgrade whose context ended: Helm has marked the revision as
failed and returned, and the goroutine may still finish and write. `Radix`
stands for ten, so that the order of `v10` and `v2` matters early. `Abstract`
maps a history to the pair that `PackageState` keeps per chart, and the action
property `OutcomesAreKnown` says that an operation takes it from one to the next
only as `ReleaseOutcomes` allows: this is what entitles `PackageLifecycle` to
treat a Helm operation as one step.

### One component

A clock that ticks while an action runs, a channel of status events, a tunnel
that breaks, and one goroutine per data injection run beside the main line
`deployComponent`, which is the variable `phase` with one action per stage:
before actions, push, injections, charts, manifests, `ready` (Helm waits for the manifests),
after actions, health checks, `wait` (`g.Wait`) and `cleanup`. With data injections the
charts are installed with `NoWait`, so the after actions and the health checks run
beside injections into their pods; manifests are waited for, and a pod of theirs may need
the injected data to become ready (`ByManifest`). Every return, early ones too, goes through
`cleanup`, where `os.RemoveAll` takes the temporary directories away entry by entry (`RemoveTemp`)
under goroutines that may still be copying from them, until the process exits. An injection copies file
by file; a file that is gone when tar gets to it is left out without an error, since only
the status of the second command of the pipe counts.

Abstracted: one action before and one after; the pods of an injection are one; a status event is
one of three statuses.

### Init

Every Kubernetes call of `StartInjection` and `StopInjection` is an action.
Credentials and CAs are the number of the init that generated them, so that a
service that runs with one and a state that holds another differ.
`mem` is the state in the command, `state` the saved one. Copies of the client
certificate in the namespaces of packages belong to `Credentials`.

### Credentials

`zarfState` holds for each service whether it is the one that Zarf deploys and
its credentials; `live` what the deployed services accept (Gitea has two users);
`secrets` the pull and git secrets of the namespaces; `trusted` the holders of a
client certificate of the registry server's CA. `Listed` are the namespaces labelled as Zarf's, the
only ones whose certificate is renewed; one that existed before Zarf has the secret (from the
post-renderer) and no label. `pending` are the services whose newest Helm revision is left
pending, by a kill or by a lost record of a failed upgrade: Helm refuses to upgrade them. Credentials are tokens, a fresh
one for every password that `state.Merge` draws. The actions follow
`applyState`: service, secrets, state, each one possibly failing before or
after it took effect; `StepFails` is `runWithRollback`, which runs the same
steps with the old entry. `UpdateCreds` is one command with its options
merged and confirmed. `agreed` and `unlucky` are history: whether all stores
agreed at the start, and whether a call of the rollback itself failed or the record of a failed upgrade was lost.

Abstracted: push and pull passwords of the registry are one token (both are
written together); `Namespace` are the namespaces that have the secrets; usernames (taken to stay) and addresses do not matter.

### Definitions

A package has one component, with the fields in which the versions differ;
those that every conversion copies as they are stand together as one field.
`DeployOrder` is the order in which deploy runs actions and health checks, over which an upgrade is judged.
`file` is what is on disk (a v1alpha1 document, a v1beta1 document, or both),
`def` the definition in memory. Commands parse, change and write it in any order.

### Loading

The recursion of `resolveImports` is a stack of frames, one action per step of
the loop. An import names a directory, or the file in it, whose path the guard against
cycles does not recognise, or a skeleton. A directory is a position and a relative path a displacement, so
that a path is right when the position of the package plus the path is that of
the package that declared it. Loading is followed by a filter, and a deployment
by the merge of the values, the preflight, and the actions and templates of
each component in order.

### Packages outside a cluster

A file is its kind and name, a directory a function from files to contents, and
a digest the content it is of. `dir` is the directory of the running command,
`tar`, `parts` and `registry` the stores that outlive it. A command is the
sequence `cmd.todo` of its remaining steps; a step that fails, or a process
killed at it, leaves the stores as they are. `PackageCatalog` is the abstract
specification: a registry maps tags and architectures to whole packages, and a
publish adds one at once. The refinement mapping takes the index
entries, with nothing of use under a tag whose layers are not all there.

### Agent

A tag or name is the sequence of its first word and the hosts in the names it
was hashed with, so that hashing twice is visible. Resources of every hooked
kind are created, applied, touched, re-created from what was read back,
debugged and deleted, while the Zarf state and the namespace's label change.

## Runs

`tlc -config <run>.cfg <module>`; the module of each run is its group's `MC` module, and `ComponentDeploy` for `component` and `action_limit`.

| Run | Checks | Shows |
|---|---|---|
| `lifecycle_faults` | `RemoveUninstallsTarget`, `UninstalledBeforeForgotten`, `RemoveReversesComponents` | two components, charts dropped and reordered between versions, the second an init package, every kind of fault: removes are complete, in order and never forget a living release |
| `lifecycle_tracking` | `DeployRecordsWhatItInstalled`, `SucceededIsRunning`, `RecordKeepsCharts` | whatever a deploy that ended by itself gave to Helm is in the secret, Succeeded components run the recorded version, and redeploys over kills and shared release names lose no chart of a component they record |
| `orphan_on_redeploy` | `NoOrphan` (violated) | a redeploy failing in its first component drops the others, still running, from the secret; the comment at `deploy.go:275` says that no chart data is overwritten (see `findings`) |
| `helm` | `RecoveryIsSound`, `SecretsBeforeResources`, `OutcomesAreKnown` | a rollback goes to a revision that worked and a later deploy repairs what an earlier one left; namespaces have their secrets before Helm applies anything; operations leave what the lifecycle modules assume |
| `component` | `MarkerMeansData`, `SuccessIsComplete`, `ComponentEnds` | until the component fails a pod never sees the marker without the data; success means all images and data, and objects reported current; manifests and injections do not wait for each other, and `g.Wait` ends |
| `action_limit` | `ActionTimeBound` (violated) | an action runs longer than `maxTotalSeconds`, which `site/src/content/docs/ref/actions.mdx:42` calls "the maximum total time to allow the command to run" (see `findings`) |
| `init` | `InjectorServesPayload`, `InjectorRemoved`, `ServicesMatchState`, `ProxyCertsAgree`, `InitEnds` | inits over what earlier, failed or killed ones left, with other flags and packages |
| `creds` | `UpdateTakesEffect`, `RollbackRestores`, `ClientsTrusted`, `FailedUpdateRestores`, `RepeatedUpdateRepairs` | reported successes and rollbacks are true of every store; the certificates of listed namespaces agree; a failed update of the registry or the agent is undone, and repeating one repairs what a crash left, unless Helm refuses |
| `definition` | `WrittenIsRead`, `ScriptsRunOnce`, `MeaningIsKept` | definitions of both versions through any sequence of reads, changes, writes and upgrades; only health checks lose their place |
| `load` | `ImportsResolve`, `SelectionIsRight`, `NearestWins`, `NoLateMissingKey` | chains of imports by directory, by file and from skeletons, filters, values and the preflight of a deployment |
| `pipeline` | `SelectionIsComplete`, `MovedTagsAreMet`, `SignaturesAreTrue`, `SplitIsWhole`, `ImplementsCatalog` | sequences of create, sign, split, publish, copy, pull and load; publishing implements `PackageCatalog` |
| `agent` | `AskedIsPushed`, `FollowedIsServed`, `NothingLeftToDo` | admissions of every kind while the state changes, and what clients of the proxy follow |

Several of these are conjunctions of named parts, each with its own comment
(`ImportsResolve` of `FilesResolve`, `ComposedOnce` and `ActionsKeepDirs`).
`NoLateMissingKey`, `MarkerMeansData`, `ComponentEnds`, `MeaningIsKept` and others state as part of the formula where the code stops having
the property.
`TypeOK` in each composed module gives the shape of its state; for the lifecycle,
a release, a component, an init and the credentials it is proved. No run lists it: add `INVARIANT TypeOK` to a
cfg after a change of its module, which is the fastest way to find a slip.

### Bounds

* Lifecycle: `MaxDeploys` 2 or 3, for a first deploy, a redeploy of another
  version that goes wrong, and one that meets what it left; `MaxFaults` 2, one to
  break a command and one to break its cleanup or the next command. Removes are not
  bounded. Two versions, two components, three charts: dropped, kept, reordered, shared names.
* `helm`: a history of 3 revisions instead of 10 and numbers to base 3, so that pruning and
  the order of `v10` and `v2` happen within `MaxRevision` 6; `MaxFaults` 3: a failed
  update, an uninstall that could not write its status and was killed is an outcome of its own; two versions;
  three namespaces: the chart's, another named one, one that exists before.
* `component`: two images, injections and objects; two attempts of the push instead of
  three; two files per injection, so that a copy can be half done; one injection whose pods a chart
  brings and one whose pods a manifest brings; limits of 0 (none) and 1 tick with a clock of 2, so that an action can outlast its limit;
  `MaxFaults` 2, so that a retry can fail as well. `action_limit`: a limit of 2 ticks, two retries and a clock
  of 6, and no faults.
* `init`: three inits, two payloads of which the second has fewer chunks, three
  ports, 2 draws instead of 10 (the last draw is the case of interest).
* `creds`: one credential more than a service has stores, so that a fresh one
  always exists; commands are not bounded. A behaviour updates one service: commands
  run one after the other, and the stores of two services are disjoint. The theorems do without.
  Two namespaces, one with Zarf's label and one without.
* `definition`: each field that the versions treat differently in each of its
  values, one at a time and in the combinations that interact; two writes, since the
  second one meets what the first left.
* `load`: three packages and a cache of remote ones, with chains of two imports, cycles by
  directory and, up to `MaxDepth` 4, by file; actions and waits that set values; deployments are followed only for packages that use values.
* `pipeline`: two commands after one another, two faults, two attempts, one registry,
  three images of different origin and kind, a local key and a keyless identity; `MaxParts` 3
  instead of 1000, and five builds, one of them too large to split and one that fits in a part.
* `agent`: two follow-ups of links, two debug containers, one denied admission; states that differ in mode,
  address and credentials.

Symmetry is not used: versions, components, charts and the like have
different roles in the definitions, and fresh credentials are chosen.

`CHECK_DEADLOCK FALSE` where a user may stop: the budget of commands is used up,
or the one component or load has ended. `creds` and `agent` check deadlock.

### Fairness

* `WF(CLIStep)` (init; the lifecycle states it as well, without a property that needs it), `WF(CommandStep)` (credentials): a
  process that is neither killed nor blocked goes on; every call it makes has a timeout or the context.
* `WF(Kubelet)` (init): a deleted pod terminates.
* `WF` of the main line, of each injection goroutine and of the scheduler for each
  pod (component): the Go scheduler and Kubernetes make progress. A timeout is fair only where what is
  awaited cannot come any more (a lost pod, a failed injection, a cancelled group), so `ComponentEnds`
  shows that nothing else needs one.
* `RepeatedUpdateRepairs` is about a user who repeats the update and says
  so with strong fairness of that command (`RetrySpec` in `MCCredentials`).

Starting a command, faults, signals and kills are never fair.

## Proofs

Each proof module extends the component it is about. The theorems hold for all
constants that satisfy the named assumptions of the modules; the runs evaluate
these assumptions on their instances. Every inductive invariant below was
checked with TLC on the small instance before it was proved.

### Deploy and remove (`PackageLifecycle_proofs`)

* `TypeCorrect`: `TypeOK`, which includes that both loops stay within their lists.
* `RecordsAreConsistent`: a component that is not recorded lists no charts.
* `RemoveIsComplete`: `RemoveUninstallsTarget`, if every component needs the
  cluster. The property only speaks of the end of a remove; the inductive
  `RemoveProgress` says where each chart is in between: gone, in the rest of the
  cloned list, or listed for a component whose turn has not come.
* `RemoveForgetsOnlyTheUninstalled`: `UninstalledBeforeForgotten`, if moreover
  release names are distinct. `RecordCoversReleases` relates the
  command's copy to the secret it read: what the copy lacks is uninstalled.
* `RemoveIsReversed`: `RemoveReversesComponents`, if release names are distinct.
  `RemovesLastFirst` says that the components left are those before the current one.
* `DeployKeepsCharts`: `RecordKeepsCharts`, without `read` and `cancel` faults. A deploy knows the charts of a component only
  after it read them, so `ChartsKept` says, per phase, that the list it is
  about to write covers the one in the secret, whatever writes were lost.
* `DeployTracksReleases`: `DeployRecordsWhatItInstalled`, if every write succeeds, no
  template fails and no version is an init package. Needs that the secret is the
  command's own list while it runs (`SecretIsCurrent`) and that what Helm was
  given is in that list or in the charts of the current component (`TouchedIsTracked`).
* `RecordedSuccessRuns`: `SucceededIsRunning`, if every write succeeds. `RunningInv`
  says of each phase which components' records are about the releases as they are.

The faults that a theorem excludes are those with which the code does not have
the property (see "Where the properties stop").

### One release (`HelmRelease_proofs`)

`HelmInv` is proved for any number of versions and namespaces, any maximum of the
history and any radix. It says that a revision marked deployed is one that Helm
completed or a migration stored, that the revision numbers left are enough for
what the operation may still create, and for each phase which revisions
the operation and a timed-out goroutine refer to and which namespaces are ready.

* `RevisionsAreReserved`: `TypeOK`; three revisions suffice for the migration, the
  upgrade and the rollback of one operation.
* `SecretsComeFirst`: `SecretsBeforeResources`.
* `UpgradeKeepsCurrent`: pruning never removes the revision that is upgraded.
* `DeployRecovery`: `RecoveryIsSound`. That a rollback goes to a revision that worked is part of
  `HelmInv`. That a deploy without a fault recovers is said of its end, so `RecoverInv` says where it
  is before (`Recovering`): until the upgrade begins there is a revision that Helm can
  upgrade from (`Usable`), or none at all (`Absent`), or Helm will refuse and what is deployed can be rolled
  back to (`Refusable`); from then on the revision in work is the newest one.
* `OutcomesAreComplete`: `OutcomesAreKnown`, which compares the end of an operation with its start,
  `before`. `OutcomeInv` carries the comparison through the phases: nothing is touched yet
  (`Untouched`), a new revision is stored over the old ones (`Underway`), it is recorded or its record is
  lost (`Completed`, `LostInstall`), or the operation has failed and whatever is marked deployed is of the
  version that was (`Loose`). `BackgroundKnown` bounds what a timed-out goroutine may still write and
  `Purged` what an uninstall leaves half done. The attempt to prove it found an outcome that
  `ReleaseOutcomes` did not have, and that a run with two faults does not reach: an uninstall
  of a release whose update had failed, killed after it purged the deployed revision and before
  the failed one, with the write of its own status lost. `VersionsAssumption`
  says that no version is called like the absence of one.

### One component (`ComponentDeploy_proofs`)

The parts own disjoint variables, so each has its own invariant; a frame
lemma per part says that the others leave its variables alone, and `ResultInv` relates what
the finished parts left behind to the phase.

* `MarkersAreTrue`: `MarkerMeansData`. `InjectionInv` says what each goroutine has copied: as long as nobody
  takes the source away (`Working`), the pod has all files but those still to be read, and the marker comes after.
* `ComponentTypes`: `TypeOK`.
* `SuccessMeansComplete`: `SuccessIsComplete`. Charts, after actions and health checks say nothing about
  the injections; that all are complete follows from `g.Wait` alone, before which the source is not removed.

### Init (`ZarfInit_proofs`)

`InitInv` has a part each for the types, the control of the command, the
credentials, the certificates, the removal and the start of the injector.

* `InitTypes`: `TypeOK`.
* `ServicesAlwaysMatch`: `ServicesMatchState`. The state in memory extends the
  saved one and the saved one covers what runs, at every step in between.
* `ReinitKeepsCredentials`: no step changes a saved credential; this is the action
  property behind the previous one.
* `InjectorAlwaysServes`, `InjectorAlwaysRemoved`: `InjectorServesPayload`,
  `InjectorRemoved`. The objects of an earlier attempt are removed one by one, and
  `StopInv` says which are gone; there is a payload with the most chunks (`InjectorAssumption`).
* `ProxyCertsAlwaysAgree`: `ProxyCertsAgree`.

### Credentials (`Credentials_proofs`)

* `CredentialsTypeCorrect`: `TypeOK`.
* `SuccessfulUpdateTakesEffect` and `ReportedRollbackRestores`:
  `UpdateTakesEffect` and `RollbackRestores`, if secrets can be read
  (`"read" \notin Faults`). The inductive `UpdateProgress` says, per phase, what
  `applyState` has done: the service holds the target's credentials before the
  first secret is written (or, in a rollback that leaves the registry alone,
  still the old ones), every visited namespace holds them, and a cancelled
  command, which may have passed over namespaces, never saves the state.
* `CertificatesAgree`: `ClientsTrusted`, by the part of `UpdateProgress` about the certificates: of the
  namespaces exactly the listed ones.
* `FailedUpdateIsUndone`: `FailedUpdateRestores`, by the same invariant, which also says what a rollback has found, and by
  `RefusalInv`: an update that Helm refuses because an earlier command left the release pending has changed nothing yet when it is
  refused, neither forward nor back, and one whose own upgrade is left pending is unlucky.

### Packages outside a cluster (`PackagePipeline_proofs`)

`Inv` (`PipelineInvariant`) is proved for any builds, images, keys, registries and
sequences of commands, under `PipelineAssumption`: builds are sequences of components, none of them is
a skeleton until it is published as one, and no registry has the name of the split output.
A property here is about the end of a command, but depends on what
an earlier command left in a store, so `Inv` follows the package all the way:

* `Control`: in which order a command takes its steps (`Leads`) and which options it has.
* `Stores`: every whole tarball, every part and every tag is a `Package`. Its definition
  has checksums that name the tarball and all blobs of each component, it has the signature over the
  definition if that says signed, and no file is there that `AssembleLayers` would not
  push. A tag moreover has every file as the checksums have it (`Matches`) and all layers.
* `Fetching`, `Opened`: what is unpacked or pulled. A partial load lacks files, and `Inv` says that
  what it lacks does not belong to the selected components.
* `Making`: the package in the making, component by component and image by image.
* `Using`, `Pushing`, `Archiving`: the layout between it was opened and stored, in each step
  of signing, of a push and of writing parts.
* `Ended`: what is left to be said of the directory and the parts when a command is over.

From it follow

* `LoadedIsComplete`: `SelectionIsComplete`. `Integrity` compares the directory with the
  checksums, and these are complete by `Stores`.
* `TagMovesAreMet`: `MovedTagsAreMet`. The requirements are collected from the images as they were saved.
* `SignaturesHold`: `SignaturesAreTrue`. Between `RenameYAML` and `RenameBundle` the directory
  is one that is sound with the saved definition put back, so `RestoreYAML` leaves a sound one.
* `SplitsAreWhole`: `SplitIsWhole`. The old parts are removed before the first is written (`Written`).
* `PublishIsOneStep`: the refinement of `PackageCatalog`. Blobs are only ever added, so what can be pulled
  stays so; only `TagIndex` changes an index, and then the manifest is sound
  and all its layers are in the registry (`Pushing`).

### Agent (`Agent_proofs`)

* `AdmittedIsLeftAlone`: `NothingLeftToDo`. `Settled` says per kind when the webhook
  has nothing left to do to a resource; one lemma per hook shows that what it returns is
  settled and that it returns a settled resource as it is, and `SettledInv` keeps
  this of the resource admitted last. The hypothesis `HostsApart` says that no two registry addresses
  of the states differ in the port only and that no author of an OCIRepository wrote the registry's
  own name: an update compares hosts without the port
  (`DoHostnamesMatch`) and a create with it, and such a URL would be transformed by one and not the other.
* `AdmittedIsPushed`: `AskedIsPushed`. `OriginInv` relates every resource in the cluster, not only the one
  admitted last, to its author's manifest: a URL is the author's or the place where that one is found
  (`URLStands`, `OCIStands`), and the images of a pod are all untouched, or all transformed in some state
  (`PodStands`). So no chain of hashes arises: one lemma per hook (`PodLed` to `SecretLed`, `LegacyLed`
  for what an earlier version left at the service's IP) shows that the hook takes the author's reference to its place and
  leaves one that is there. That two images are never mistaken follows because the hash in a tag gives back what
  was hashed (`HashedApart`, `ImagesApart`). The hypotheses are about the cluster, and hold in the instance of the run:
  `AuthoredElsewhere` (what authors write does not lead to the registry or the Git server, nor do
  they label pods as patched), `LegacyByIP` (an earlier version left nothing but OCIRepositories at the service's IP, with the image that the author named), `SameServices`
  (a change of the state moves neither the registry nor the Git server, nor renames the Git user), and `HostsApart`. Without
  `SameServices` a patched URL leads to the old place, as said below. An OCIRepository at the service's IP that is
  created anew is the exception that the property states (`HashedAgain`): the invariant follows what becomes of it, too.
  The proof found that the property was too strict: `nginx` and `nginx:latest` are one image, so
  two pods may share it; `Unmistakable` compares what `ParseImageRef` reads, and the run has such a pair.
* `FollowedIsAlwaysServed`: `FollowedIsServed`. A client that follows a link asks for
  the marked path, which `NoTransformTarget` takes as it is.

### Definitions (`PackageDefinition_proofs`)

The documents are any records of the shape `AlphaPackage` or `BetaPackage`, with lists of any
length. `DefinitionAssumption` says of them that authors do not record migrations, do not give a digest as
the version of a chart (the model's words for the two must differ), and that actions of
v1beta1 set no variables. What makes these proofs long is that a conversion is a record
of some thirty fields: a lemma per constructor says what each field of the result is
(`AlphaGenericIs`, `FromFields`, `AuthoredIs`, `UpgradedIs`), and no later step unfolds a conversion.

* `PackagesSurviveWriting`: `WrittenIsRead`. `WriteInv` says what can be on disk: one v1alpha1 document that
  was authored, or written from memory with its migrations recorded (`AlphaFile`), one v1beta1
  document (`BetaFile`), or two that one definition was written to (`BothFiles`); and that the
  definition in memory has the shape which reading one of these gives (`DefInv`). Then each round trip is the identity on
  what deploy looks at: a recorded migration leaves the document as it is, converting to
  v1alpha1 and back loses nothing (`AlphaReadAgain`, for which a recorded list of values files has
  to be split the way it was joined), nor does v1beta1 (`BetaAgain`).
* `MigratedScriptsRunOnce`: `ScriptsRunOnce`. `ScriptInv` says that the four lists of
  actions, in the file and in memory, hold the authored commands and, once migrated, those of the scripts
  (`Ran`). How often a command is in a list is a cardinality, so the lemmas are about counting: of
  a concatenation (`TimesConcat`), of mapped and cleared lists, and of what each change does to them.
* `UpgradesAndOverridesKeepMeaning`: `MeaningIsKept`, for init packages whose component Zarf knows
  by name (`InitIsKnown`). `MeaningInv` adds to `WriteInv` that a lone v1beta1 document of a v1alpha1 author is the one that
  upgrade-schema printed (`UpgradedFile`) and that only a definition in memory has been moved. The upgrade puts `after` before
  `success` in one list and appends the health checks as waits; `ShownConcat`, `PluralShown`, `FilledShown` and `HealthShown`
  say what deploy runs for a joined list, for a list whose waits are read back, and for health checks, so that the order is the
  old one without health checks, and with them the one that the property states;
  `SourceAgain` and `RefAgain` that a structured source is inferred again from the
  fields it is flattened to, and `WaitsOverridden` that no wait of any list stays behind.

### Only model-checked

* Liveness (`RepeatedUpdateRepairs`, `ComponentEnds`, `InitEnds`), which is out of the prover's reach.
* All properties of `load`. Imports, groups and values are composed by folds over lists
  (`FoldLeft`, `FlattenSeq`, `SelectSeq`): what these compute for lists of any length is
  proved by induction over data, which is out of the prover's reach.
* `TypeOK` of the pipeline, the agent, `definition` and `load`; `Inv` and `WriteInv` have the shapes that their proofs use.

Worth proving next: the parts of `load` that are about its stack of frames rather than about what is composed.

## Where the properties stop

The passing runs leave out, on purpose, the cases in which the code does not
have the property. Each was found with TLC or while translating the code.

**Deploy and remove.**
* `NoOrphan` fails with several components (`orphan_on_redeploy`).
* `DeployRecordsWhatItInstalled` needs no cancel (`deploy.go:334`: a cancel after the last
  chart loses the record that the comments at 321 and 330 promise), no `render` fault
  (`installManifests` returns nil instead of the manifests installed so far, 709), no
  lost write (287) and no init package (`deployInitComponent` returns no charts when it fails, 447).
* `SucceededIsRunning` needs no lost write: errors of a record are only logged.
* `RecordKeepsCharts` needs no failed read (`deploy.go:277`) and is about components that still need the
  cluster: one that becomes a component of files and actions only, deployed before the connection, loses
  its charts from the record. A component that needs no cluster is
  recorded with generation 1.
* `UninstalledBeforeForgotten` needs release names used in one namespace only
  (`remove.go:154` compares the name alone) and components that all need the
  cluster: removing only one that does not makes up a record and deletes the secret of
  the others (102-109, 198, against the comment at 197).
* A first signal only cancels the context, which `helm.RemoveChart` does not look at: a cancelled remove goes on uninstalling
  charts whose removal it can no longer record.
* A first install whose last record Helm loses is recorded as Succeeded and stays pending.
* A remove that fails after an uninstall cannot be repeated: `slices.DeleteFunc`
  leaves a zeroed entry in the array shared with the record (149, 157).

**Helm.**
* Revisions are listed by the names of their secrets, so that from the tenth on the last
  one listed is not the newest (`chart.go:128`, also for `UpdateReleaseValues`). A migration
  of removed APIs can then mark the deployed revision as superseded and be refused, and it can promote a failed revision to deployed.
* Zarf's context ends before Helm's own wait: the goroutine goes on and may supersede a revision, or leave two deployed.
* After a kill between superseding and recording, or of a first install, every
  deploy is refused until the package is removed.
* The chart's own namespace, when no manifest names it, keeps lacking the
  secrets after a partial failure. Adopting an existing namespace drops its labels and annotations.
* An install whose last record is lost is reported as a success and stays pending.
* On an upgraded cluster a deploy recovers only if the migration looks at the revision that Helm will have
  to build: it looks at the one listed last, and leaves the deployed one or the newest with removed APIs
  (`Buildable` is the case in which it does not matter).

**One component.**
* `maxTotalSeconds` is not the maximum total time (`action_limit`): every try has the whole limit
  (`actions.go:152`), and output held open by a child of the killed shell is waited for without end (`exec.go:133`).
* After a failed return, which waits for no injection, a goroutine may copy what `os.RemoveAll` has not got to,
  and then the marker: the pod takes part of the data for all of it, where
  `site/src/content/docs/ref/components.mdx:239` says that the marker signals that the injection is complete.
  `MarkerMeansData` is about the time before.
* Read errors of the first tar go unnoticed, since the shell returns the status of the second command.
* The final wait of an injection has no limit of its own (`data.go:145`): if the pod is lost after it got its marker,
  `g.Wait` waits until a signal. `ComponentEnds` states the exception.
* A health check is a report: an object that was current may have failed before the component ends.

**Init and credentials.**
* `cluster.go:338` looks at the mode in the flags and not at the one in the state, so an init without the
  flag renews no certificate of a cluster in proxy mode; `ProxyCertsAgree` is about inits that are given it.
* `UpdateTakesEffect` needs secrets that can be read: an unreadable git secret is passed over
  (`secrets.go:168`, against the comment at 155; the registry's loop returns the error, 134).
* `FailedUpdateRestores` leaves out git: the rollback logs in with a password that
  Gitea may never have taken (`zarf_tools.go:743`, against 529). So does
  `RepeatedUpdateRepairs`: a crash after Gitea took a random password loses it.
* `RollbackRestores` speaks of clusters whose stores agreed at the start.
* The client certificate is renewed in namespaces with Zarf's label (`secrets.go:205`), not in "all namespaces that have
  the mTLS client secret" as the comment at 187 says; those that existed before Zarf keep one of the old CA, which the registry no
  longer trusts, until the next deploy into them.
* A release that Helm was left to call pending, by a kill or a lost record, refuses the rollback and every later update until it is
  deployed anew (`chart.go:212` does not roll back, as the deploy at 142 does).

**Definitions.**
* A v1beta1 wait without a condition, also one made from a health check, waits for existence
  (`src/pkg/wait/wait.go:82`), where `src/api/v1beta1/component.go:376` and the comment of
  `backfillWaitExists` say readiness.
* `dev upgrade-schema` turns an init package none of whose components has a well-known name into an
  ordinary one: v1beta1 tells it by the service of a component.
* `dev upgrade-schema` puts health checks behind the `onSuccess` actions (`convert.go:481`), when the component is already
  recorded as Succeeded, where deploy runs them before these (`deploy.go:582`); `UpgradeKeepsMeaning` states this order.
* Migrating a deprecated script overwrites the defaults of its action set (`migrate.go:91-126`), which the
  model does not keep.
* `dev upgrade-schema` drops deprecated scripts; plain and templated values files of a chart lose
  their common order as v1alpha1; an override of the namespace leaves health checks and data
  injections where they were.

**Loading.**
* A cycle through a path to the file of a package, rather than its directory, is never found (`import.go:87`): the
  model cuts the chain at `MaxDepth`, and no property speaks of such a load. An import by file that leads
  back to the package itself brings its values files in again, which then lose the last place.
* An importing chart's `localPath`, `gitPath` and `noWait` are dropped when the imported component has a chart
  of that name (`import.go:456`), where `site/src/content/docs/ref/components.mdx:285` describes a merge; `ComposedOnce` states the exception.
* A required component that has the name of a group is dropped by the default
  choice without prompts; declining a component of a group, and the order of the result, differ from
  `site/src/content/docs/ref/components.mdx:315` and 317.
* A values file that is imported and also the package's own keeps its first place.
* The preflight counts the `setValues` of a wait (`values_preflight.go:115`), which validation lets pass
  (`validate.go:229`) and which sets nothing (`actions.go:62`), so that a package does half-deploy, against the comment
  at `values_preflight.go:24`; and those that only an `onFailure` action sets (81). `NoLateMissingKey` states both. It takes any
  reference below a value printed by a command as defined, and refuses `.a` when only `a.b` is set.

**Packages outside a cluster.**
* Reassembling removes the parts before the tarball is loaded or moved
  (`split.go:216`, against the comment at `packager/load.go:126`).
* Whether a pull is partial is told by the number of layers (`src/pkg/packager/pull.go:180`), among
  which a component without a tarball counts as an empty one: a selection that leaves out as many
  layers as it has such components is opened as a whole package and refused.
* Signing a tarball in place removes it before the new one is written. A key offered for a
  package with a keyless signature counts as nothing to check unless verification is enforced.
* The test for too many parts is on whole chunks (`layout/package.go:680`), so that 1000 parts pass it. An archive that is
  not split leaves the parts of an earlier one of its name where they are.
* Two publishers at once can lose an entry of the index, which is read, changed and
  written without a lock.

**Agent.**
* Under mTLS an update of a patched OCIRepository makes it insecure again and drops the certificate
  (`flux-ocirepo.go:86`); `NothingLeftToDo` leaves it out.
* An OCIRepository that an earlier version sent to the service's IP is known as patched on an update only
  (`flux-ocirepo.go:86-99`): created anew, its hashed tag is hashed again, until its author's manifest is applied.
  `AskedIsPushed` states the exception.
* When the registry or the Git server moves to another host, an update hashes a hashed name again;
  when the Git user is renamed, the URLs that have the old name stay;
  and an image that is set on a pod already labelled as patched is not mutated.
* The proxy drops the query of a redirect that it does not transform, and leads redirects to foreign hosts to its own server.

## Not modelled

* The template language, variables in texts, schemas and file formats: text. Which
  values exist when is modelled, what they are replaced by is not.
* Cryptography: a signature is who signed what; a certificate is its CA.
* Lint, inspect, SBOM viewers, `tools` that wrap other programs, printing and flag
  parsing: they keep no state that another part depends on.
* Feature gates: constants of a process.
* Port forwarding and the calls of git and HTTP below "it may fail".
* `destroy` removes everything and is not followed by anything.
* The deprecated `update-creds` of all services at once, and two commands at the same
  time: the code has no lock and the last writer of the whole state wins, so there is no property of the stores left to state.
