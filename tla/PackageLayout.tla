---------------------------- MODULE PackageLayout ---------------------------
(***************************************************************************)
(* A package directory and the layout that a command holds of it: opening  *)
(* it with the checks of its integrity and signature, and signing it.  A   *)
(* file is a pair of its kind and its name, a directory a function from    *)
(* files to contents, and a digest stands for the content it is of.        *)
(***************************************************************************)
EXTENDS Integers, Sequences, FiniteSets

CONSTANTS
    Keys,      \* signing keys and keyless identities
    Keyless,   \* which of them are identities
    NoKey,     \* no key is given
    MaxFaults  \* bound: how many steps may fail

ASSUME LayoutAssumption == Keyless \subseteq Keys /\ NoKey \notin Keys /\ MaxFaults \in Nat

VARIABLES
    cmd,     \* the command under way: what is left to do, its options and result
    dir,     \* its package directory
    mem,     \* its PackageLayout
    faults

ZarfYAML  == <<"zarf.yaml", "">>
Checksums == <<"checksums.txt", "">>
Bundle    == <<"zarf.bundle.sig", "">>
Signature == <<"zarf.yaml.sig", "">>
IndexJSON == <<"images", "index.json">>
SBOMTar   == <<"sboms.tar", "">>
DocumentationTar == <<"documentation.tar", "">>
ValuesYAML == <<"values.yaml", "">>
ComponentTar(name) == <<"components", name>>
ImageBlob(name) == <<"images/blobs", name>>

NoFiles == [f \in {} |-> 0]
NoDefinition == [build |-> 0, arch |-> "", version |-> "", differs |-> "", comps |-> <<>>, docs |-> FALSE,
                 sum |-> NoFiles, signed |-> "unset", prov |-> {}, reqs |-> {}]
NoLayout == [open |-> FALSE, def |-> NoDefinition, pushable |-> FALSE, digest |-> NoFiles]

LayoutInit == dir = NoFiles /\ mem = NoLayout /\ faults = 0

At(phase) == cmd.todo # <<>> /\ Head(cmd.todo) = phase
Step(phase, n) == At(phase) /\ cmd.step = n
Goto(n) == cmd' = [cmd EXCEPT !.step = n]
Done == cmd' = [cmd EXCEPT !.todo = Tail(@), !.step = 0]
Refused == cmd' = [cmd EXCEPT !.todo = <<"end">>, !.step = 0, !.result = "failed"]
Fault == faults < MaxFaults /\ faults' = faults + 1

-----------------------------------------------------------------------------
\* PackageLayout.IsSigned.
IsSigned(def, d) == IF def.signed = "unset" THEN Signature \in DOMAIN d ELSE def.signed = "yes"

\* Mutated: a file that is missing is taken as one that was not pulled.
IntegrityOfPresent(def, d, isPartial) ==
    LET sums == d[Checksums] IN
    /\ sums = def.sum
    /\ \A f \in DOMAIN sums \cap DOMAIN d : d[f] = sums[f]

\* validatePackageIntegrity: the yaml vouches for the checksums, the checksums
\* for every other file; nothing else may be there.
Integrity(def, d, isPartial) ==
    LET sums == d[Checksums]
        excluded == {ZarfYAML, Checksums, Signature, Bundle}
                    \cup (IF IsSigned(def, d) THEN def.prov ELSE {})
        packageFiles == DOMAIN d \ excluded
    IN  /\ Checksums \in DOMAIN d /\ sums = def.sum
        /\ \A f \in DOMAIN sums : IF f \in packageFiles THEN d[f] = sums[f] ELSE isPartial
        /\ packageFiles \subseteq DOMAIN sums

\* CosignVerifyBlobWithOptions: the signature is of that key over that file.
Cosign(sig, d, key) == IF sig.key = key /\ sig.over = d[ZarfYAML] THEN "ok" ELSE "bad"

\* VerifyPackageSignature: "nothing" is ErrNoVerificationMaterial.
VerifyPackageSignature(def, d, key) ==
    IF ~IsSigned(def, d) THEN IF key = NoKey THEN "nothing" ELSE "bad"
    ELSE IF key = NoKey THEN "nothing"
    ELSE IF Bundle \in DOMAIN d
         THEN IF ~d[Bundle].readable THEN "bad"
              ELSE IF (d[Bundle].key \in Keyless) # (key \in Keyless) THEN "nothing"
              ELSE Cosign(d[Bundle], d, key)
    ELSE IF Signature \notin DOMAIN d \/ key \in Keyless THEN "bad"
    ELSE Cosign(d[Signature], d, key)

\* Mutated: every failed verification is only a warning.
ToleratedAlways(strategy, verdict) == strategy # "always" \/ verdict = "ok"

\* The strategies of LoadFromDir.
Tolerated(strategy, verdict) ==
    \/ strategy = "never" \/ verdict = "ok"
    \/ strategy = "ifPossible" /\ verdict = "nothing"

\* computeManifest takes the digests of the files that have a checksum from there.
Manifest(d) == [f \in DOMAIN d |-> IF f \in DOMAIN d[Checksums] THEN d[Checksums][f] ELSE d[f]]

\* filters.Empty keeps every component.
NoFilter == {}

\* filters.Apply and RetainComponents on the definition that is read from the
\* directory; a retained component keeps its index.
Filtered(def, names) ==
    IF names = NoFilter THEN def
    ELSE [def EXCEPT !.comps = [k \in {j \in DOMAIN def.comps : def.comps[j].name \in names} |-> @[k]]]

\* LoadFromDir.  A layout of a registry keeps the registry's digest and cannot
\* be pushed (SetRegistryDigest).
LoadFromDir ==
    /\ At("open")
    /\ LET def == Filtered(dir[ZarfYAML], cmd.select)
           loads == /\ ZarfYAML \in DOMAIN dir
                    /\ Integrity(def, dir, cmd.isPartial)
                    /\ Tolerated(cmd.strategy, VerifyPackageSignature(def, dir, cmd.key))
       IN  IF loads
           THEN /\ mem' = [open |-> TRUE, def |-> def, pushable |-> cmd.resolved = NoFiles,
                           digest |-> IF cmd.resolved = NoFiles THEN Manifest(dir) ELSE cmd.resolved]
                /\ Done
           ELSE Refused /\ UNCHANGED mem
    /\ UNCHANGED <<dir, faults>>

-----------------------------------------------------------------------------
\* SetBuildSigned, AddProvenanceFile and AddVersionRequirement.
SignedDefinition(def) ==
    [def EXCEPT !.signed = "yes", !.prov = @ \cup {Bundle}, !.reqs = @ \cup {"bundle"}]

\* Mutated: the signature is made over the file that is about to be replaced.
BundleOverOld == [readable |-> TRUE, key |-> cmd.sign, over |-> cmd.saved]

\* CosignSignBlobWithOptions over the temporary yaml.
TmpBundle == [readable |-> TRUE, key |-> cmd.sign, over |-> mem.def]

\* SignPackage up to the signature, all in temporary files.
SignTmp ==
    /\ Step("sign", 0)
    /\ IF cmd.sign = NoKey THEN Done /\ UNCHANGED mem
       ELSE IF Bundle \in DOMAIN dir /\ ~cmd.overwrite THEN Refused /\ UNCHANGED mem
       ELSE /\ cmd' = [cmd EXCEPT !.step = 1, !.saved = dir[ZarfYAML]]
            /\ mem' = [mem EXCEPT !.def = SignedDefinition(@)]
    /\ UNCHANGED <<dir, faults>>

Put(d, f, content) == [g \in DOMAIN d \cup {f} |-> IF g = f THEN content ELSE d[g]]
Without(d, F) == [g \in DOMAIN d \ F |-> d[g]]

RenameYAML ==
    /\ Step("sign", 1)
    /\ dir' = Put(dir, ZarfYAML, mem.def) /\ Goto(2)
    /\ UNCHANGED <<mem, faults>>

RenameBundle ==
    /\ Step("sign", 2)
    /\ dir' = Put(dir, Bundle, TmpBundle) /\ Goto(3)
    /\ UNCHANGED <<mem, faults>>

\* The legacy signature goes, the manifest is computed anew and makes the
\* layout pushable again.
SignDone ==
    /\ Step("sign", 3)
    /\ dir' = Without(dir, {Signature})
    /\ mem' = [mem EXCEPT !.pushable = TRUE, !.digest = Manifest(dir')]
    /\ Done
    /\ UNCHANGED faults

\* Mutated: the yaml is not restored.
RestoreNot(d) == d

\* The write of the original yaml when the bundle cannot be renamed.
RestoreYAML(d) == Put(d, ZarfYAML, cmd.saved)

\* The deferred rollback of the definition in memory.
RolledBack == [mem.def EXCEPT !.signed = cmd.saved.signed, !.prov = cmd.saved.prov,
                              !.reqs = cmd.saved.reqs]

\* A step of SignPackage fails after the definition was changed.
SignFails ==
    /\ At("sign") /\ cmd.step > 0
    /\ Fault /\ Refused
    /\ mem' = [mem EXCEPT !.def = RolledBack]
    /\ dir' = IF cmd.step = 2 THEN RestoreYAML(dir) ELSE dir

\* Restoring the yaml fails as well, which is only logged.
RestoreFails ==
    /\ Step("sign", 2)
    /\ faults + 2 <= MaxFaults /\ faults' = faults + 2
    /\ cmd' = [cmd EXCEPT !.todo = <<"end">>, !.step = 0, !.result = "failed", !.warned = TRUE]
    /\ mem' = [mem EXCEPT !.def = RolledBack]
    /\ UNCHANGED dir

SignStep == SignTmp \/ RenameYAML \/ RenameBundle \/ SignDone
=============================================================================
