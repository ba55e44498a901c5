-------------------------- MODULE PackageAssemble ---------------------------
(***************************************************************************)
(* AssemblePackage and AssembleSkeleton: the files of a package are        *)
(* collected component by component, then its images, SBOMs, values and    *)
(* documentation, and the checksums and the definition close it.           *)
(***************************************************************************)
EXTENDS PackageRegistry

(***************************************************************************)
(* images.Pull and images.Unpack: the images of a package are looked up    *)
(* concurrently, those that no registry serves are taken from the Docker   *)
(* daemon, and the others are then copied by name, which may by now stand  *)
(* for another image than the one that was looked up.                      *)
(***************************************************************************)

CONSTANTS
    Images,
    Pinned,       \* the images that are named by their digest
    Kind,         \* image and revision -> "manifest" or "index"
    InDaemon,     \* the images that the Docker daemon has
    InArchive,    \* the images that the image archives hold
    PullAttempts, \* config.ZarfDefaultRetries
    Upstream      \* the revisions that registries may serve at first; 0 is none

VARIABLES
    upstream,   \* the revision that the image's name stands for
    pulls       \* the images being pulled, and how far each has come

pullVars == <<upstream, pulls>>

PullInit == upstream \in Upstream /\ pulls = NoFiles

\* The name of an image is moved to another revision while a package is built.
TagMoves(i) ==
    /\ At("images") /\ i \in DOMAIN pulls \ Pinned /\ upstream[i] = 1
    /\ Fault
    /\ upstream' = [upstream EXCEPT ![i] = 2]
    /\ UNCHANGED <<cmd, dir, mem, pulls>>

\* An image lands in the OCI layout: its blobs, and its entry of the index.
Saved(d, i, rev, whole) ==
    LET blobs == {ImageBlob(b) : b \in ImageBlobs[i][rev][whole]}
        entries == IF IndexJSON \in DOMAIN d THEN d[IndexJSON] ELSE NoFiles
    IN  Put([f \in DOMAIN d \cup blobs |-> IF f \in blobs THEN 1 ELSE d[f]],
            IndexJSON, Put(entries, i, [rev |-> rev, whole |-> whole]))

\* copyImageFromOCILayout keeps a whole index only for a reference by its digest.
WholeIndex(i, rev) == i \in Pinned /\ Kind[i][rev] = "index"

\* Unpack: one image archive after the other, before any image is pulled.
UnpackImage(i) ==
    /\ Step("images", 0)
    /\ i \in DOMAIN pulls /\ pulls[i].st = "archived"
    /\ IF i \in InArchive
       THEN /\ dir' = Saved(dir, i, 1, WholeIndex(i, 1))
            /\ pulls' = [pulls EXCEPT ![i].st = "saved"]
            /\ UNCHANGED cmd
       ELSE Refused /\ UNCHANGED <<dir, pulls>>
    /\ UNCHANGED <<mem, faults, upstream>>

Waiting(st) == {i \in DOMAIN pulls : pulls[i].st = st}

\* A goroutine of the first loop: the platform is asked for when the name is
\* not a digest and stands for an index.
FetchInfo(i) ==
    /\ Step("images", 0)
    /\ Waiting("archived") = {} /\ i \in Waiting("todo")
    /\ pulls' = IF upstream[i] = 0
                THEN [pulls EXCEPT ![i].st = "daemon"]
                ELSE [pulls EXCEPT ![i].st = "found",
                        ![i].platform = i \notin Pinned /\ Kind[i][upstream[i]] = "index"]
    /\ UNCHANGED <<cmd, dir, mem, faults, upstream>>

\* A registry that cannot be reached is taken as one that lacks the image.
FetchUnreachable(i) ==
    /\ Step("images", 0)
    /\ Waiting("archived") = {} /\ i \in Waiting("todo")
    /\ Fault
    /\ pulls' = [pulls EXCEPT ![i].st = "daemon"]
    /\ UNCHANGED <<cmd, dir, mem, upstream>>

Looked == Step("images", 0) /\ Waiting("archived") = {} /\ Waiting("todo") = {}

\* pullFromDockerDaemon.
SaveFromDaemon(i) ==
    /\ Looked /\ i \in Waiting("daemon")
    /\ IF i \in InDaemon
       THEN /\ dir' = Saved(dir, i, 1, WholeIndex(i, 1))
            /\ pulls' = [pulls EXCEPT ![i].st = "saved"]
            /\ UNCHANGED cmd
       ELSE Refused /\ UNCHANGED <<dir, pulls>>
    /\ UNCHANGED <<mem, faults, upstream>>

\* orasSave copies what the name stands for now, for the platform found before.
OrasSave(i) ==
    /\ Looked /\ Waiting("daemon") = {} /\ i \in Waiting("found")
    /\ dir' = Saved(dir, i, upstream[i],
                    Kind[i][upstream[i]] = "index" /\ ~pulls[i].platform)
    /\ pulls' = [pulls EXCEPT ![i].st = "saved"]
    /\ UNCHANGED <<cmd, mem, faults, upstream>>

OrasSaveFails(i) ==
    /\ Looked /\ Waiting("daemon") = {} /\ i \in Waiting("found")
    /\ Fault
    /\ IF pulls[i].tries + 1 < PullAttempts
       THEN pulls' = [pulls EXCEPT ![i].tries = @ + 1] /\ UNCHANGED cmd
       ELSE Refused /\ UNCHANGED pulls
    /\ UNCHANGED <<dir, mem, upstream>>

ImagesDone ==
    /\ Looked /\ Waiting("daemon") = {} /\ Waiting("found") = {}
    /\ Done /\ pulls' = NoFiles
    /\ UNCHANGED <<dir, mem, faults, upstream>>

PullStep ==
    \/ \E i \in DOMAIN pulls : UnpackImage(i) \/ FetchInfo(i) \/ SaveFromDaemon(i) \/ OrasSave(i)
    \/ ImagesDone

PullTrouble == \E i \in DOMAIN pulls : TagMoves(i) \/ FetchUnreachable(i) \/ OrasSaveFails(i)

-----------------------------------------------------------------------------
CONSTANTS
    Builds,    \* build number -> the definition that a package is created from
    Moving     \* the images with a tag that is expected to move, such as latest

ArchivesOf(comps) == UNION {comps[k].archives : k \in DOMAIN comps}
PlainImages(comps) == UNION {comps[k].images : k \in DOMAIN comps}

\* validateImageArchivesNoDuplicates.
NoDuplicateImages(comps) == ArchivesOf(comps) \cap PlainImages(comps) = {}

\* Mutated: an image of the previous package is always left out.
IncludeNew(i, previous) == i \notin previous

\* includeDifferentialImage.
IncludeDifferentialImage(i, previous) == i \in Moving \/ i \notin previous

\* applyDifferentialResources.
Differential(comps, previous) ==
    [k \in DOMAIN comps |->
        [comps[k] EXCEPT !.images = {i \in @ : IncludeDifferentialImage(i, previous)}]]

\* The start of AssemblePackage: the previous package of a differential one has
\* been loaded by now, must have another version, and both must have one and
\* be written in the same API version.
StartAssembly ==
    /\ At("validate")
    /\ LET b == Builds[cmd.build]
           comps == IF mem.open THEN Differential(b.comps, PlainImages(mem.def.comps)) ELSE b.comps
           def == [NoDefinition EXCEPT !.build = cmd.build, !.arch = b.arch, !.version = b.version,
                                       !.comps = comps, !.docs = b.docs,
                                       !.differs = IF mem.open THEN mem.def.version ELSE ""]
           refused == \/ ~NoDuplicateImages(b.comps)
                      \/ mem.open /\ \/ mem.def.version = b.version
                                     \/ "" \in {mem.def.version, b.version}
                                     \/ Builds[mem.def.build].api # b.api
       IN  IF refused THEN Refused /\ UNCHANGED <<mem, pulls>>
           ELSE /\ mem' = [NoLayout EXCEPT !.def = def]
                /\ pulls' = [i \in ArchivesOf(comps) \cup PlainImages(comps) |->
                               [st |-> IF i \in ArchivesOf(comps) THEN "archived" ELSE "todo",
                                platform |-> FALSE, tries |-> 0]]
                /\ cmd' = [cmd EXCEPT !.todo = Tail(@), !.step = 0, !.resolved = NoFiles,
                                      !.isPartial = FALSE, !.strategy = "never",
                                      !.previous = IF mem.open THEN PlainImages(mem.def.comps) ELSE {}]
    /\ dir' = NoFiles
    /\ UNCHANGED <<faults, upstream, registry>>

\* AssembleSkeleton: another architecture, no values, no images and no image
\* archives.
StartSkeleton ==
    /\ At("skeleton")
    /\ LET b == Builds[cmd.build] IN
       IF b.values \/ ArchivesOf(b.comps) # {} THEN Refused /\ UNCHANGED mem
       ELSE /\ mem' = [NoLayout EXCEPT !.def =
                          [NoDefinition EXCEPT !.build = cmd.build, !.arch = "skeleton",
                              !.version = b.version, !.comps = b.comps, !.docs = b.docs]]
            /\ Done
    /\ UNCHANGED <<dir, faults, pullVars, registry>>

\* assemblePackageComponent: its actions, charts, files, data, manifests and
\* repositories, in a tarball unless there is nothing to put in it.
AssembleComponent ==
    /\ At("component")
    /\ IF cmd.step = Len(mem.def.comps) THEN Done /\ UNCHANGED dir
       ELSE /\ LET c == mem.def.comps[cmd.step + 1] IN
               dir' = IF c.tar THEN Put(dir, ComponentTar(c.name), cmd.build) ELSE dir
            /\ Goto(cmd.step + 1)
    /\ UNCHANGED <<mem, faults, pullVars, registry>>

\* generateSBOM and mergeAndWriteValuesFile.
AddSBOMAndValues ==
    /\ At("sbom")
    /\ dir' = LET d == IF ImagesOf(mem.def.comps) # {} \/ \E f \in DOMAIN dir : f[1] = "components"
                       THEN Put(dir, SBOMTar, cmd.build) ELSE dir
              IN  IF Builds[cmd.build].values THEN Put(d, ValuesYAML, cmd.build) ELSE d
    /\ Done
    /\ UNCHANGED <<mem, faults, pullVars, registry>>

\* createDocumentationTar.
AddDocumentation ==
    /\ At("docs")
    /\ dir' = IF mem.def.docs THEN Put(dir, DocumentationTar, cmd.build) ELSE dir
    /\ Done
    /\ UNCHANGED <<mem, faults, pullVars, registry>>

\* getChecksum and the write of checksums.txt.
WriteChecksums ==
    /\ At("checksums")
    /\ dir' = Put(dir, Checksums, Without(dir, {ZarfYAML, Checksums}))
    /\ Done
    /\ UNCHANGED <<mem, faults, pullVars, registry>>

\* HasImageIndex reads the index that was written.
HasImageIndex(d) ==
    IndexJSON \in DOMAIN d /\ \E i \in DOMAIN d[IndexJSON] : d[IndexJSON][i].whole

\* Mutated: the references tell whether an index is in the package.
RequirementsOfNames(def, d) ==
    IF \E i \in ImagesOf(def.comps) \cap Pinned : Kind[i][1] = "index" THEN {"index"} ELSE {}

\* collectVersionRequirements.
CollectVersionRequirements(def, d) ==
    (IF HasImageIndex(d) THEN {"index"} ELSE {})
    \cup (IF ArchivesOf(def.comps) # {} THEN {"archives"} ELSE {})

\* recordPackageMetadata and WritePackageDefinition.
WriteDefinition ==
    /\ At("metadata")
    /\ mem' = [mem EXCEPT !.def.sum = dir[Checksums], !.def.signed = "no",
                          !.def.prov = {Checksums},
                          !.def.reqs = CollectVersionRequirements(mem.def, dir)]
    /\ dir' = Put(dir, ZarfYAML, mem'.def)
    /\ Done
    /\ UNCHANGED <<faults, pullVars, registry>>

AssembleStep ==
    \/ StartAssembly \/ StartSkeleton \/ AssembleComponent
    \/ AddSBOMAndValues \/ AddDocumentation \/ WriteChecksums \/ WriteDefinition
=============================================================================
