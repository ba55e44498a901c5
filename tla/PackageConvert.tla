--------------------------- MODULE PackageConvert ---------------------------
(***************************************************************************)
(* The conversions of package definitions between the versions of the API. *)
(*                                                                         *)
(* internal/api/v1alpha1: the migrations of a v1alpha1 package, and its    *)
(* conversion to and from the generic package.  A package is a record with *)
(* one component; fields that every conversion copies as they are stand    *)
(* together as one field, copied.  An optional bool is "unset", "true" or  *)
(* "false", and the empty string is an empty field, as in Go.              *)
(*                                                                         *)
(* Where a chart comes from is [url, ref, version, gitPath, local]: the    *)
(* kind of its URL ("http", "oci" or "git"), the reference after the @ in  *)
(* it, and the other fields of v1alpha1.  A reference is "tag", "commit",  *)
(* "refs/heads/branch" or "digest".  An action's wait is "none" or the     *)
(* condition of its wait.cluster, and ns is the namespace it waits in.     *)
(***************************************************************************)
EXTENDS Sequences, FiniteSets, Integers

NoSource == [type |-> "none", url |-> "", urlRef |-> "", ref |-> "", path |-> ""]

\* derefBool.
IsTrue(b) == b = "true"
Bool(b) == IF b THEN "true" ELSE "false"
MapSeq(f(_), s) == [i \in DOMAIN s |-> f(s[i])]

-----------------------------------------------------------------------------
(* Migrations.                                                             *)

\* migrateScriptsToActions: prepare, before and after become actions.  (It also
\* replaces the defaults of those sets of actions by the scripts' mute, timeout
\* and retry; what an action inherits is not modelled.)
MigrateScripts(c) ==
    LET Run(cmd) == [cmd |-> cmd, wait |-> "none", ns |-> "", setVar |-> "", setVars |-> {}]
    IN  [c EXCEPT !.onCreate = @ \o MapSeq(Run, c.scripts.prepare),
                  !.before = @ \o MapSeq(Run, c.scripts.before),
                  !.after = @ \o MapSeq(Run, c.scripts.after)]

NoScripts == [prepare |-> <<>>, before |-> <<>>, after |-> <<>>]

EditActions(c, f(_)) ==
    [c EXCEPT !.onCreate = MapSeq(f, @), !.before = MapSeq(f, @),
              !.after = MapSeq(f, @), !.success = MapSeq(f, @)]

\* migrateComponentAction: setVariable becomes a list of one, unless there is one.
PluralizeSetVariable(c) ==
    EditActions(c, LAMBDA a : IF a.setVar = "" \/ a.setVars # {} THEN a
                              ELSE [a EXCEPT !.setVars = {a.setVar}])
ClearSetVariables(c) == EditActions(c, LAMBDA a : [a EXCEPT !.setVar = ""])

\* Mutated: the migrations that were run are not recorded.
MigrateDeprecatedUnrecorded(p) ==
    [p EXCEPT !.component =
        LET c == IF "scripts-to-actions" \in p.migrations
                   THEN [@ EXCEPT !.scripts = NoScripts] ELSE MigrateScripts(@)
        IN  IF "pluralize-set-variable" \in p.migrations
              THEN ClearSetVariables(c) ELSE PluralizeSetVariable(c)]

\* migrateDeprecated: what was migrated before is cleared, the rest migrated.
MigrateDeprecated(p) ==
    [p EXCEPT !.component =
        LET c == IF "scripts-to-actions" \in p.migrations
                   THEN [@ EXCEPT !.scripts = NoScripts] ELSE MigrateScripts(@)
        IN  IF "pluralize-set-variable" \in p.migrations
              THEN ClearSetVariables(c) ELSE PluralizeSetVariable(c),
              !.migrations = {"scripts-to-actions", "pluralize-set-variable"}]

-----------------------------------------------------------------------------
(* To the generic package.                                                 *)

AlphaValuesFilesToGeneric(plain, templated) ==
    MapSeq(LAMBDA p : [path |-> p, templating |-> FALSE], plain) \o
    MapSeq(LAMBDA p : [path |-> p, templating |-> TRUE], templated)

AlphaChartToGeneric(ch) ==
    [at |-> ch.at,
     source |-> NoSource,
     values |-> AlphaValuesFilesToGeneric(ch.plain, ch.templated),
     schema |-> ch.schema, skipSchema |-> ch.schema = "false", ns |-> ch.ns]

\* manifestToGeneric, and the same for files.
AlphaManifestToGeneric(m) ==
    [template |-> m.template, templating |-> IsTrue(m.template), ns |-> m.ns]

AlphaActionsToGeneric(c) ==
    [onCreate |-> c.onCreate, before |-> c.before, after |-> c.after, success |-> c.success]

AlphaReposToGeneric(r) == [url |-> r.url, urlRef |-> r.ref, ref |-> "nil"]

AlphaComponentToGeneric(c) ==
    [name |-> c.name, copied |-> c.copied, image |-> [name |-> c.image, source |-> ""],
     service |-> "", optional |-> ~IsTrue(c.required), required |-> c.required,
     import |-> [path |-> c.import, local |-> <<>>],
     health |-> c.health, scripts |-> c.scripts, removed |-> c.removed,
     repo |-> AlphaReposToGeneric(c.repo), chart |-> AlphaChartToGeneric(c.chart),
     manifest |-> AlphaManifestToGeneric(c.manifest), actions |-> AlphaActionsToGeneric(c)]

AlphaToGeneric(p) ==
    [api |-> p.api, kind |-> p.kind, copied |-> p.copied, url |-> p.url, note |-> p.note,
     override |-> p.override, prevent |-> p.override = "false",
     checksum |-> p.checksum, buildChecksum |-> "", signed |-> p.signed,
     provenance |-> p.provenance, requirements |-> p.requirements,
     migrations |-> p.migrations,
     original |-> "v1alpha1",
     component |-> AlphaComponentToGeneric(p.component)]

-----------------------------------------------------------------------------
(* And back.                                                               *)

\* A preserved field wins; else the generic one is written out when it is set.
TemplateFromGeneric(g) == IF g.template = "unset" /\ g.templating THEN "true" ELSE g.template
RequiredFromGeneric(c) == IF c.required = "unset" /\ ~c.optional THEN "true" ELSE c.required
SchemaFromGeneric(g) == IF g.schema = "unset" /\ g.skipSchema THEN "false" ELSE g.schema

\* flattenGitRef.
FlattenGitRef(ref) == IF ref = "branch" THEN "refs/heads/branch"
                      ELSE IF ref \in {"nil", "none"} THEN "" ELSE ref

\* A structured source is put back on the flat fields, a branch or a digest
\* as a part of the URL.
AlphaSourceFromGeneric(g) ==
    LET s == g.source
        flat == FlattenGitRef(s.ref)
        branch == s.type = "git" /\ flat = "refs/heads/branch"
        digest == s.type = "oci" /\ s.ref = "digest"
    IN  IF g.at.url # "" \/ g.at.local # "" \/ s.type = "none" THEN g.at
        ELSE [url |-> IF s.type = "local" THEN "" ELSE s.url,
              ref |-> IF branch THEN flat ELSE IF digest THEN "digest"
                      ELSE IF s.type \in {"oci", "helm"} THEN s.urlRef ELSE "",
              version |-> IF branch \/ digest THEN "" ELSE IF s.type = "git" THEN flat ELSE s.ref,
              gitPath |-> IF s.type = "git" THEN s.path ELSE "",
              local |-> IF s.type = "local" THEN s.path ELSE ""]

\* The paths of the files whose numbers are kept, in order.
PathsOf(values, kept) ==
    [k \in 1 .. Cardinality(kept) |->
        values[CHOOSE i \in kept : Cardinality({j \in kept : j <= i}) = k].path]

\* valuesFilesFromGeneric splits the list, which loses the order between the two.
AlphaChartFromGeneric(g) ==
    LET templated == {i \in DOMAIN g.values : g.values[i].templating}
    IN  [at |-> AlphaSourceFromGeneric(g), schema |-> SchemaFromGeneric(g), ns |-> g.ns,
         plain |-> PathsOf(g.values, DOMAIN g.values \ templated),
         templated |-> PathsOf(g.values, templated)]

AlphaManifestFromGeneric(m) == [template |-> TemplateFromGeneric(m), ns |-> m.ns]

AlphaReposFromGeneric(r) ==
    [url |-> r.url, ref |-> IF r.ref \in {"nil", "none"} THEN r.urlRef ELSE FlattenGitRef(r.ref)]

AlphaImportFromGeneric(i) == IF i.path = "" /\ i.local # <<>> THEN i.local[1] ELSE i.path

\* actionSetFromGeneric, list by list: the component's own fields again.
AlphaActionsFromGeneric(c, actions) ==
    [c EXCEPT !.onCreate = actions.onCreate, !.before = actions.before,
              !.after = actions.after, !.success = actions.success]

AlphaComponentFromGeneric(c) ==
    AlphaActionsFromGeneric(
        [name |-> c.name, copied |-> c.copied, image |-> c.image.name,
         required |-> RequiredFromGeneric(c), import |-> AlphaImportFromGeneric(c.import),
         health |-> c.health, scripts |-> c.scripts, removed |-> c.removed,
         repo |-> AlphaReposFromGeneric(c.repo), chart |-> AlphaChartFromGeneric(c.chart),
         manifest |-> AlphaManifestFromGeneric(c.manifest),
         onCreate |-> <<>>, before |-> <<>>, after |-> <<>>, success |-> <<>>],
        c.actions)

\* Mutated: only the checksum of a v1alpha1 package is looked at.
AlphaMetadataOwnChecksum(g) ==
    [url |-> IF g.url = "" THEN g.note ELSE g.url, note |-> "", override |-> g.override,
     checksum |-> g.checksum]

\* metadataFromGeneric: a reserved annotation goes back into its field, if that
\* is empty, and is dropped otherwise.
AlphaMetadataFromGeneric(g) ==
    [url |-> IF g.url = "" THEN g.note ELSE g.url, note |-> "", override |-> g.override,
     checksum |-> IF g.checksum # "" THEN g.checksum ELSE g.buildChecksum]

\* ConvertFromGeneric: a component that provides a service makes an init package.
AlphaFromGeneric(g) ==
    LET m == AlphaMetadataFromGeneric(g)
    IN  [api |-> IF g.api = "" THEN "" ELSE "v1alpha1",
         kind |-> IF g.component.service # "" THEN "ZarfInitConfig"
                  ELSE IF g.kind = "" THEN "ZarfPackageConfig" ELSE g.kind,
         copied |-> g.copied, url |-> m.url, note |-> m.note, override |-> m.override,
         checksum |-> m.checksum, signed |-> g.signed, provenance |-> g.provenance,
         requirements |-> g.requirements, migrations |-> g.migrations,
         component |-> AlphaComponentFromGeneric(g.component)]

-----------------------------------------------------------------------------
(***************************************************************************)
(* internal/api/v1beta1: conversion of a v1beta1 package to and from the   *)
(* generic one.  A chart's source is [type, url, urlRef, ref, path], where *)
(* ref is the version of a Helm repository, the tag or "digest" of an OCI  *)
(* chart, or the kind of a Git reference: "none", "tag", "commit" or       *)
(* "branch".                                                               *)
(***************************************************************************)

BetaChartToGeneric(ch) ==
    [at |-> [url |-> "", ref |-> "", version |-> "", gitPath |-> "", local |-> ""],
     source |-> [ch.source EXCEPT !.ref =
                   IF ch.source.type = "git" /\ @ = "none" THEN "nil" ELSE @],
     values |-> ch.values, schema |-> "unset", skipSchema |-> ch.skipSchema, ns |-> ch.ns]

\* actionSetToGeneric: there is no after.
BetaActionsToGeneric(a) ==
    [onCreate |-> a.onCreate, before |-> a.before, after |-> <<>>, success |-> a.success]

BetaRepositoriesToGeneric(r) == [url |-> r.url, urlRef |-> r.urlRef, ref |-> r.ref]

BetaComponentToGeneric(c) ==
    [name |-> c.name, copied |-> c.copied, image |-> c.image, service |-> c.service,
     optional |-> c.optional, required |-> "unset",
     import |-> [path |-> "", local |-> c.import],
     health |-> <<>>, scripts |-> NoScripts, removed |-> FALSE,
     repo |-> BetaRepositoriesToGeneric(c.repo), chart |-> BetaChartToGeneric(c.chart),
     manifest |-> [template |-> "unset", templating |-> c.manifest.templating, ns |-> c.manifest.ns],
     actions |-> BetaActionsToGeneric(c)]

BetaToGeneric(p) ==
    [api |-> "v1beta1", kind |-> p.kind, copied |-> p.copied, url |-> "", note |-> p.note,
     override |-> Bool(~p.prevent), prevent |-> p.prevent,
     checksum |-> "", buildChecksum |-> p.checksum, signed |-> p.signed,
     provenance |-> p.provenance, requirements |-> p.requirements,
     migrations |-> p.migrations, original |-> "v1beta1",
     component |-> BetaComponentToGeneric(p.component)]

-----------------------------------------------------------------------------
\* classifyGitRef.
ClassifyGitRef(ref) ==
    IF ref = "" THEN "none"
    ELSE IF ref = "commit" THEN "commit"
    ELSE IF ref = "refs/heads/branch" THEN "branch" ELSE "tag"

\* The flat fields of a v1alpha1 chart say what its source is: the scheme of
\* the URL, a path in a repository or a .git at the end of the URL.
InferSource(at) ==
    IF at.url = "" THEN (IF at.local = "" THEN NoSource
                         ELSE [NoSource EXCEPT !.type = "local", !.path = at.local])
    ELSE IF at.url = "oci"
      THEN [NoSource EXCEPT !.type = "oci", !.url = "oci", !.urlRef = at.ref, !.ref = at.version]
    ELSE IF at.gitPath # "" \/ at.url = "git"
      THEN [NoSource EXCEPT !.type = "git", !.url = at.url, !.path = at.gitPath,
                !.ref = ClassifyGitRef(IF at.ref # "" THEN at.ref ELSE at.version)]
    ELSE [NoSource EXCEPT !.type = "helm", !.url = at.url, !.urlRef = at.ref, !.ref = at.version]

BetaChartFromGeneric(g) ==
    [source |-> IF g.source.type = "none" THEN InferSource(g.at)
                ELSE [g.source EXCEPT !.ref =
                        IF g.source.type = "git" /\ @ = "nil" THEN "none" ELSE @],
     values |-> g.values, ns |-> g.ns,
     skipSchema |-> g.skipSchema \/ g.schema = "false"]

BetaManifestFromGeneric(m) ==
    [templating |-> m.templating \/ IsTrue(m.template), ns |-> m.ns]

BetaRepositoriesFromGeneric(r) ==
    IF r.ref # "nil" \/ r.urlRef = "" THEN r
    ELSE [url |-> r.url, urlRef |-> "", ref |-> ClassifyGitRef(r.urlRef)]

BetaImportFromGeneric(i) ==
    IF i.local = <<>> /\ i.path # "" THEN <<i.path>> ELSE i.local

\* serviceFromGeneric: well-known names of an init package provide a service.
ServiceFromGeneric(c, isInit) ==
    IF c.service # "" THEN c.service
    ELSE IF isInit /\ c.name = "zarf-registry" THEN "registry" ELSE ""

OptionalFromGeneric(c) == IF c.required # "unset" THEN ~IsTrue(c.required) ELSE c.optional

\* Mutated: the after actions are appended to those of onSuccess.
BetaActionsFromGenericSwapped(c) ==
    LET Drop(a) == [a EXCEPT !.setVar = "", !.setVars = {}]
    IN  [onCreate |-> MapSeq(Drop, c.actions.onCreate), before |-> MapSeq(Drop, c.actions.before),
         success |-> MapSeq(Drop, c.actions.success \o c.actions.after)]

\* actionSetFromGeneric: the after actions come before those of onSuccess, and
\* setVariables does not exist.
BetaActionsFromGeneric(c) ==
    LET Drop(a) == [a EXCEPT !.setVar = "", !.setVars = {}]
    IN  [onCreate |-> MapSeq(Drop, c.actions.onCreate), before |-> MapSeq(Drop, c.actions.before),
         success |-> MapSeq(Drop, c.actions.after \o c.actions.success)]

\* backfillWaitExists.
BackfillWaitExists(s) ==
    MapSeq(LAMBDA a : IF a.wait = "" THEN [a EXCEPT !.wait = "exists"] ELSE a, s)

\* A health check becomes a wait of onSuccess with an empty condition.
HealthCheckWaits(c) ==
    MapSeq(LAMBDA h : [cmd |-> "", wait |-> "", ns |-> h, setVar |-> "", setVars |-> {}], c.health)

BetaComponentFromGeneric(c, isInit, migrate) ==
    LET a == BetaActionsFromGeneric(c)
        Waits(s) == IF migrate THEN BackfillWaitExists(s) ELSE s
    IN  [name |-> c.name, copied |-> c.copied, image |-> c.image,
         service |-> ServiceFromGeneric(c, isInit), optional |-> OptionalFromGeneric(c),
         import |-> BetaImportFromGeneric(c.import), repo |-> BetaRepositoriesFromGeneric(c.repo),
         chart |-> BetaChartFromGeneric(c.chart), manifest |-> BetaManifestFromGeneric(c.manifest),
         onCreate |-> Waits(a.onCreate), before |-> Waits(a.before),
         success |-> Waits(a.success) \o HealthCheckWaits(c)]

\* metadataFromGeneric: the fields that v1beta1 lacks become annotations, but
\* an annotation of the author wins.
BetaMetadataFromGeneric(g) ==
    [note |-> IF g.note # "" THEN g.note ELSE g.url,
     prevent |-> IF g.override # "unset" THEN g.override = "false" ELSE g.prevent]

\* Mutated: the requirements on the version of Zarf are not converted.
BetaBuildWithoutRequirements(g) ==
    [checksum |-> IF g.buildChecksum # "" THEN g.buildChecksum ELSE g.checksum,
     signed |-> g.signed, provenance |-> g.provenance, requirements |-> {},
     migrations |-> g.migrations]

\* buildFromGeneric.
BetaBuildFromGeneric(g) ==
    [checksum |-> IF g.buildChecksum # "" THEN g.buildChecksum ELSE g.checksum,
     signed |-> g.signed, provenance |-> g.provenance, requirements |-> g.requirements,
     migrations |-> g.migrations]

BetaFromGeneric(g) ==
    LET m == BetaMetadataFromGeneric(g)
        b == BetaBuildFromGeneric(g)
    IN  [kind |-> "ZarfPackageConfig", copied |-> g.copied, note |-> m.note, prevent |-> m.prevent,
         checksum |-> b.checksum, signed |-> b.signed, provenance |-> b.provenance,
         requirements |-> b.requirements, migrations |-> b.migrations,
         component |-> BetaComponentFromGeneric(g.component, g.kind = "ZarfInitConfig",
                                                g.original = "v1alpha1")]
=============================================================================
