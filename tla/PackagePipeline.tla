--------------------------- MODULE PackagePipeline --------------------------
(***************************************************************************)
(* The life of packages outside a cluster: commands that create, publish,  *)
(* copy, sign, pull and load them run one after the other over the same    *)
(* tarball, parts and registries.  A step that fails, or a process that is *)
(* killed at it, leaves these stores as they are.                          *)
(***************************************************************************)
EXTENDS PackageAssemble, PackageArchive

CONSTANTS
    MaxCommands,  \* bound: how many commands are run
    Creations,    \* bound: the builds that are created, with their key and output
    Loads         \* bound: the components, layers, strategies and keys of the loads

ASSUME PipelineAssumption ==
    /\ MaxCommands \in Nat /\ "split" \notin Remotes
    /\ \A c \in Creations : c.build \in DOMAIN Builds
    /\ \A b \in DOMAIN Builds :
          /\ Builds[b].arch # "skeleton"
          /\ Len(Builds[b].comps) \in Nat
          /\ DOMAIN Builds[b].comps = 1 .. Len(Builds[b].comps)
          /\ \A k \in DOMAIN Builds[b].comps :
                DOMAIN Builds[b].comps[k] = {"name", "tar", "images", "archives"}

VARIABLE commands

vars == <<cmd, dir, mem, faults, tar, parts, registry, upstream, pulls, commands>>
stores == <<tar, parts, registry, upstream, pulls>>

NoCommand ==
    [op |-> "none", todo |-> <<>>, step |-> 0, result |-> "none",
     build |-> 0, select |-> NoFilter, types |-> "all", strategy |-> "never", key |-> NoKey,
     sign |-> NoKey, overwrite |-> FALSE, split |-> FALSE, src |-> "", dst |-> "", ref |-> <<"", "">>,
     file |-> <<"", "", "">>, tmp |-> NoTar, resolved |-> NoFiles, isPartial |-> FALSE, saved |-> NoDefinition,
     previous |-> {}, attempt |-> 0, warned |-> FALSE]

Init ==
    /\ cmd = NoCommand /\ LayoutInit /\ ArchiveInit /\ RegistryInit /\ PullInit
    /\ commands = 0

Start(c) ==
    /\ cmd.todo = <<>> /\ commands < MaxCommands
    /\ commands' = commands + 1 /\ cmd' = c
    /\ UNCHANGED <<dir, mem, faults, stores>>

\* identifySource and the order in which LoadPackage treats each kind.
Opening(kind) ==
    IF kind = "tarball" THEN <<"tarball", "untar", "open">>
    ELSE IF kind = "split" THEN <<"split", "untar", "open", "output">>
    ELSE <<"pull", "open">>
Source(kind, src, ref, file) == [kind |-> kind, src |-> src, ref |-> ref, file |-> file]
Sources ==
    {Source("tarball", "", <<"", "">>, f) : f \in DOMAIN tar}
    \cup {Source("split", "", <<"", "">>, f) : f \in DOMAIN parts}
    \cup UNION {{Source("oci", r, x, <<"", "", "">>) : x \in DOMAIN registry[r].index} : r \in Remotes}
From(s) == [NoCommand EXCEPT !.src = s.src, !.ref = s.ref, !.file = s.file]

\* zarf package create, into a tarball, into parts or into a registry, after
\* the steps that load a previous package.
CreatePackage(b, key, out, base, before) ==
    Start([base EXCEPT !.op = "create", !.build = b, !.sign = key,
             !.types = "metadata", !.strategy = "ifPossible",
             !.split = (out = "split"), !.dst = IF out \in Remotes THEN out ELSE "",
             !.todo = before \o <<"validate", "component", "images", "sbom", "docs",
                                  "checksums", "metadata", "open", "sign",
                                  IF out \in Remotes THEN "push" ELSE "archive", "end">>])

\* zarf package publish of a directory.
PublishSkeleton(b, key, r) ==
    Start([NoCommand EXCEPT !.op = "skeleton", !.build = b, !.sign = key, !.dst = r,
             !.todo = <<"skeleton", "docs", "component", "checksums", "metadata", "open", "sign",
                        "push", "end">>])

\* zarf package deploy, inspect, verify and pull: all load a package first.
LoadPackage(s, select, types, strategy, key) ==
    Start([From(s) EXCEPT !.op = "load", !.select = select, !.types = types,
                !.strategy = strategy, !.key = key, !.todo = Opening(s.kind) \o <<"end">>])

\* zarf package publish of a tarball, and of a registry's package with a key,
\* which is pulled into a tarball first.
PublishPackage(s, strategy, key, sign, r) ==
    /\ (s.kind = "oci" => sign # NoKey)
    /\ Start([From(s) EXCEPT !.op = "publish", !.strategy = strategy, !.key = key, !.sign = sign,
                !.overwrite = TRUE, !.dst = r,
                !.todo = Opening(s.kind) \o (IF s.kind = "oci" THEN <<"repack", "open">> ELSE <<>>)
                         \o <<"sign", "push", "end">>])

\* zarf package publish from registry to registry.
PublishFromOCI(s, r) ==
    /\ s.kind = "oci"
    /\ Start([From(s) EXCEPT !.op = "copy", !.dst = r, !.todo = <<"resolve", "push", "end">>])

\* zarf package sign: the package replaces its source.
SignCommand(s, sign, overwrite) ==
    Start([From(s) EXCEPT !.op = "sign", !.sign = sign, !.overwrite = overwrite,
                !.dst = s.src,
                !.todo = Opening(s.kind) \o
                         <<"signed", "sign", IF s.kind = "oci" THEN "push" ELSE "archive", "end">>])

\* The sign command's own check, before SignPackage.
CheckSigned ==
    /\ At("signed")
    /\ IF IsSigned(mem.def, dir) /\ ~cmd.overwrite THEN Refused ELSE Done
    /\ UNCHANGED <<dir, mem, faults, stores, commands>>

\* The tarball of a pulled package is loaded again.
Repack ==
    /\ At("repack")
    /\ cmd' = [cmd EXCEPT !.todo = Tail(@), !.resolved = NoFiles, !.isPartial = FALSE]
    /\ mem' = NoLayout
    /\ UNCHANGED <<dir, faults, stores, commands>>

\* The deferred removal of the temporary directories.
Cleanup ==
    /\ At("end")
    /\ cmd' = [NoCommand EXCEPT !.op = cmd.op, !.result = IF cmd.result = "failed" THEN "failed" ELSE "ok"]
    /\ dir' = NoFiles /\ mem' = NoLayout /\ pulls' = NoFiles
    /\ UNCHANGED <<faults, tar, parts, registry, upstream, commands>>

\* Any other call fails.
StepFails ==
    /\ \E p \in {"pull", "resolve", "untar", "open", "component", "images", "sbom", "docs"} : At(p)
    /\ Fault /\ Refused
    /\ UNCHANGED <<dir, mem, stores, commands>>

\* The parts are removed one by one, the header first.
RemovePartsFails ==
    /\ Step("split", 1)
    /\ Fault /\ Refused
    /\ parts' = [parts EXCEPT ![cmd.file].count = 0]
    /\ UNCHANGED <<dir, mem, tar, registry, upstream, pulls, commands>>

Invoke ==
    \/ \E c \in Creations :
          \/ CreatePackage(c.build, c.key, c.out, NoCommand, <<>>)
          \/ \E s \in Sources : CreatePackage(c.build, c.key, c.out, From(s), Opening(s.kind))
          \/ \E r \in Remotes : PublishSkeleton(c.build, c.key, r)
    \/ \E s \in Sources :
          \/ \E l \in Loads : LoadPackage(s, l.select, l.types, l.strategy, l.key)
          \/ \E sign \in Keys, overwrite \in BOOLEAN : SignCommand(s, sign, overwrite)
          \/ \E r \in Remotes :
                \/ PublishFromOCI(s, r)
                \/ \E sign \in Keys \cup {NoKey} : PublishPackage(s, "ifPossible", NoKey, sign, r)

Work ==
    \/ (LoadFromDir \/ SignStep \/ SignFails \/ RestoreFails) /\ UNCHANGED <<stores, commands>>
    \/ (ArchiveStep \/ ArchiveFails \/ LoadStep \/ CopyToOutputFails)
          /\ UNCHANGED <<registry, pullVars, commands>>
    \/ (RegistryStep \/ PushFails) /\ UNCHANGED <<archiveVars, pullVars, commands>>
    \/ (PullStep \/ PullTrouble) /\ UNCHANGED <<archiveVars, registry, commands>>
    \/ AssembleStep /\ UNCHANGED <<archiveVars, commands>>
    \/ CheckSigned \/ Repack \/ Cleanup \/ StepFails \/ RemovePartsFails

Environment == (TarRots \/ PartLost) /\ UNCHANGED <<registry, pullVars, commands>>

Next == Invoke \/ Work \/ Environment

Spec == Init /\ [][Next]_vars

-----------------------------------------------------------------------------
Succeeded(op) == At("end") /\ cmd.op = op /\ cmd.result # "failed"

\* A command stays within its steps, and the stores within their shapes.
TypeOK ==
    /\ cmd.result \in {"none", "ok", "failed"} /\ cmd.attempt \in 0 .. PushAttempts - 1
    /\ cmd.todo # <<>> => Head(cmd.todo) \in
         {"tarball", "split", "untar", "pull", "resolve", "open", "output", "validate", "skeleton",
          "component", "images", "sbom", "docs", "checksums", "metadata", "signed", "repack",
          "sign", "archive", "push", "end"}
    /\ \A f \in DOMAIN tar : tar[f].state \in {"half", "whole"}
    /\ \A i \in DOMAIN pulls : pulls[i].st \in {"archived", "todo", "found", "daemon", "saved"}
    /\ mem.pushable => mem.open

\* Everything that these components need is there and is what was built.
Complete(comps, types, build) ==
    \A k \in DOMAIN comps :
        /\ comps[k].tar /\ types # "metadata" =>
              ComponentTar(comps[k].name) \in DOMAIN dir /\ dir[ComponentTar(comps[k].name)] = build
        /\ types = "all" => \A i \in comps[k].images \cup comps[k].archives :
              /\ IndexJSON \in DOMAIN dir /\ i \in DOMAIN dir[IndexJSON]
              /\ \A b \in ImageBlobs[i][dir[IndexJSON][i].rev][dir[IndexJSON][i].whole] :
                    ImageBlob(b) \in DOMAIN dir /\ dir[ImageBlob(b)] = 1

\* A package that is created or loaded, whole or in part, from whatever store
\* and after whatever accident to it, has the resources and the images of all
\* components that are going to be deployed from it.
SelectionIsComplete ==
    /\ Succeeded("create") => Complete(mem.def.comps, "all", mem.def.build)
    /\ Succeeded("load") /\ mem.def.arch # "skeleton" =>
          Complete(mem.def.comps, cmd.types, mem.def.build)

\* A package with a multi-platform image demands a zarf that knows them, also
\* when it became one by a tag that moved while the package was built.
IndexIsRequired == Succeeded("create") /\ HasImageIndex(dir) => "index" \in mem.def.reqs

\* With a previous package, every image is in this package or in that, and the
\* ones with a moving tag are always in this one.
DifferentialCovers ==
    Succeeded("create") =>
        LET wanted == PlainImages(Builds[cmd.build].comps)
            packed == PlainImages(mem.def.comps)
        IN  wanted \subseteq packed \cup cmd.previous /\ wanted \cap Moving \subseteq packed

\* Tags that moved, while the package was built or since the package that it
\* builds on, take no image from those who deploy it.
MovedTagsAreMet == IndexIsRequired /\ DifferentialCovers

\* A load with a key succeeds only on a signature by that key over this very
\* definition; unless verification is enforced, a signature of the other kind
\* counts as one that cannot be checked.
VerifiedIsSigned ==
    Succeeded("load") /\ cmd.strategy # "never" /\ (cmd.key # NoKey \/ cmd.strategy = "always") =>
        /\ Bundle \in DOMAIN dir
        /\ \/ dir[Bundle].key = cmd.key /\ dir[Bundle].over = dir[ZarfYAML] /\ dir[Bundle].readable
           \/ cmd.strategy = "ifPossible" /\ (dir[Bundle].key \in Keyless) # (cmd.key \in Keyless)

SignatureFits(d) ==
    d[ZarfYAML].signed = "yes" => Bundle \in DOMAIN d /\ d[Bundle].over = d[ZarfYAML]

\* However SignPackage ends, the directory holds a definition and the signature
\* over it, or neither; a half signed one is left only with a warning.
SignIsAllOrNothing ==
    At("end") /\ ZarfYAML \in DOMAIN dir /\ ~cmd.warned => SignatureFits(dir)

\* Every package that is stored as signed has the signature over its definition.
SignedStoresVerify ==
    /\ \A f \in DOMAIN tar : tar[f].state = "whole" => SignatureFits(tar[f].files)
    /\ \A r \in Remotes : \A x \in DOMAIN registry[r].index : SignatureFits(registry[r].index[x])

\* Whoever loads or stores a package is told truly whether, and by whom, it is
\* signed, whichever step of signing it failed or was stopped at.
SignaturesAreTrue == VerifiedIsSigned /\ SignIsAllOrNothing /\ SignedStoresVerify

\* What the catalog has under a tag: a package, or nothing of use while a layer
\* of it is not in the registry.
Pullable(reg, x) == IF Layers(reg.index[x]) \subseteq reg.blobs THEN reg.index[x] ELSE NoFiles

\* The files that the definition vouches for are there, and its signature.
HasAllFiles(m) ==
    ZarfYAML \in DOMAIN m /\ DOMAIN m[ZarfYAML].sum \subseteq DOMAIN m /\ SignatureFits(m)

\* To those who pull, a publish is one step, whatever attempts, failures and
\* copies it is made of: the tags of the registries are a catalog, to which it
\* adds a whole package with all of its layers, keeping the other architectures
\* of the same tag.
Catalog ==
    INSTANCE PackageCatalog WITH
        Registries <- Remotes,
        Whole <- HasAllFiles,
        catalog <- [r \in Remotes |->
            [x \in DOMAIN registry[r].index |-> Pullable(registry[r], x)]]
ImplementsCatalog == Catalog!Spec

\* The parts of a package that is larger than a part, and only they, make up its
\* archive again.
SplitIsWhole ==
    Succeeded("create") /\ Splits =>
        /\ parts[Target].count = Cardinality(DOMAIN parts[Target].chunks)
        /\ Joined(parts[Target].chunks) = [state |-> "whole", files |-> dir]
=============================================================================
