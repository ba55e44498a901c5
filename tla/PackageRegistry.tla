--------------------------- MODULE PackageRegistry --------------------------
(***************************************************************************)
(* Packages in OCI registries: pushing a layout and copying a package      *)
(* between registries (PushPackage, CopyPackage), and pulling a package or *)
(* the layers of some of its components (pullOCI, AssembleLayers).         *)
(***************************************************************************)
EXTENDS PackageLayout

CONSTANTS
    Remotes,      \* the registries
    ImageBlobs,   \* image, revision and whole or not -> its blobs
    PushAttempts  \* PublishOptions.Retries

ASSUME RegistryAssumption == PushAttempts \in Nat \ {0}

VARIABLE registry  \* per registry: the blobs, and <<tag, architecture>> -> manifest

RegistryInit == registry = [r \in Remotes |-> [blobs |-> {}, index |-> NoFiles]]

Layers(m) == {<<f, m[f]>> : f \in DOMAIN m}
Ref(def) == <<def.version, def.arch>>

\* Fetch serves a layer from the file that had its digest when the manifest
\* was computed.
Served == IF cmd.op = "copy" THEN cmd.resolved
          ELSE [f \in DOMAIN mem.digest |-> dir[f]]

\* Mutated: the manifest is pushed with the tag, in place of the index.
TagManifest(index, ref, m) ==
    [x \in {y \in DOMAIN index : y[1] # ref[1]} \cup {ref} |-> IF x = ref THEN m ELSE index[x]]

\* UpdateIndex: the architecture's entry of the tag's index is added or replaced.
UpdateIndex(index, ref, m) == Put(index, ref, m)

\* The start of PushPackage.
CheckPushable ==
    /\ Step("push", 0)
    /\ IF mem.pushable \/ cmd.op = "copy" THEN Goto(1) ELSE Refused
    /\ UNCHANGED <<dir, mem, faults, registry>>

Manifested == IF cmd.op = "copy" THEN cmd.resolved ELSE mem.digest
Tagged == IF cmd.op = "copy" THEN cmd.ref ELSE Ref(mem.def)

\* oras.Copy of all blobs.
CopyLayers ==
    /\ Step("push", 1)
    /\ registry' = [registry EXCEPT ![cmd.dst].blobs = @ \cup Layers(Served)]
    /\ Goto(2)
    /\ UNCHANGED <<dir, mem, faults>>

\* Mutated: the index is updated whatever became of the layers.
TagUncopied ==
    /\ At("push") /\ cmd.step \in {1, 2}
    /\ registry' = [registry EXCEPT ![cmd.dst].index = UpdateIndex(@, Tagged, Manifested)]
    /\ Done
    /\ UNCHANGED <<dir, mem, faults>>

TagIndex ==
    /\ Step("push", 2)
    /\ registry' = [registry EXCEPT ![cmd.dst].index = UpdateIndex(@, Tagged, Manifested)]
    /\ Done
    /\ UNCHANGED <<dir, mem, faults>>

\* retry.Do: the next attempt, or the error of the last.
AttemptFailed ==
    IF cmd.attempt + 1 < PushAttempts
    THEN cmd' = [cmd EXCEPT !.step = 1, !.attempt = @ + 1] ELSE Refused

\* The registry fails: some layers may have arrived.
PushFails ==
    /\ At("push") /\ cmd.step \in {1, 2}
    /\ Fault /\ AttemptFailed
    /\ \E some \in {Layers(Served), {}} :
           registry' = [registry EXCEPT ![cmd.dst].blobs = @ \cup some]
    /\ UNCHANGED <<dir, mem>>

\* ResolveRoot of CopyPackage.
ResolveSource ==
    /\ At("resolve")
    /\ IF cmd.ref \in DOMAIN registry[cmd.src].index
       THEN cmd' = [cmd EXCEPT !.todo = Tail(@), !.resolved = registry[cmd.src].index[cmd.ref]]
       ELSE Refused
    /\ UNCHANGED <<dir, mem, faults, registry>>

-----------------------------------------------------------------------------
Metadata == {ZarfYAML, Checksums, Signature, Bundle, ValuesYAML}
ImagesOf(comps) == UNION {comps[k].images \cup comps[k].archives : k \in DOMAIN comps}

\* LayersFromImages, with the manifests and indexes below each entry.
ImageLayers(m, images) ==
    {IndexJSON} \cup
    UNION {{ImageBlob(b) : b \in ImageBlobs[i][m[IndexJSON][i].rev][m[IndexJSON][i].whole]}
           : i \in images}

\* Mutated: the documentation is left behind.
LayersWithoutDocs(m, comps, types) ==
    DOMAIN m \cap
       ( Metadata
       \cup (IF types = "metadata" THEN {} ELSE
             {SBOMTar} \cup {ComponentTar(comps[k].name) : k \in DOMAIN comps})
       \cup (IF types = "all" /\ ImagesOf(comps) # {} THEN ImageLayers(m, ImagesOf(comps)) ELSE {}))

\* AssembleLayers for the components that the filter keeps.
AssembleLayers(m, comps, types) ==
    DOMAIN m \cap
       ( Metadata
       \cup (IF types = "metadata" THEN {} ELSE
             {SBOMTar} \cup (IF m[ZarfYAML].docs THEN {DocumentationTar} ELSE {})
             \cup {ComponentTar(comps[k].name) : k \in DOMAIN comps})
       \cup (IF types = "all" /\ ImagesOf(comps) # {} THEN ImageLayers(m, ImagesOf(comps)) ELSE {}))

\* len(root.Layers) # len(layersToPull): a component without a tarball has an
\* empty layer in that list.
IsPartial(m, comps, types) ==
    LET empty == IF types = "metadata" THEN {}
                 ELSE {k \in DOMAIN comps : ComponentTar(comps[k].name) \notin DOMAIN m}
    IN  Cardinality(DOMAIN m) # Cardinality(AssembleLayers(m, comps, types)) + Cardinality(empty)

\* pullOCI up to LoadFromDir; skeletons are not filtered and have no images.
PullOCI ==
    /\ At("pull")
    /\ IF cmd.ref \notin DOMAIN registry[cmd.src].index THEN Refused /\ UNCHANGED dir ELSE
       LET m == registry[cmd.src].index[cmd.ref]
           skeleton == cmd.ref[2] = "skeleton"
           comps == (IF skeleton THEN m[ZarfYAML] ELSE Filtered(m[ZarfYAML], cmd.select)).comps
           types == IF skeleton /\ cmd.types = "all" THEN "noImages" ELSE cmd.types
           found == \A i \in ImagesOf(comps) :
                        types = "all" => IndexJSON \in DOMAIN m /\ i \in DOMAIN m[IndexJSON]
           layers == AssembleLayers(m, comps, types)
       IN  IF ~found \/ \E f \in layers : <<f, m[f]>> \notin registry[cmd.src].blobs
           THEN Refused /\ UNCHANGED dir ELSE
           /\ dir' = [f \in layers |-> m[f]]
           /\ cmd' = [cmd EXCEPT !.todo = Tail(@), !.resolved = m,
                                 !.isPartial = IsPartial(m, comps, types)]
    /\ UNCHANGED <<mem, faults, registry>>

RegistryStep == CheckPushable \/ CopyLayers \/ TagIndex \/ ResolveSource \/ PullOCI
=============================================================================
