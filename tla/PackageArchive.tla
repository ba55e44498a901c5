--------------------------- MODULE PackageArchive ---------------------------
(***************************************************************************)
(* Packages as files: writing a layout to a tarball, splitting that into   *)
(* parts, and loading either (PackageLayout.Archive, SplitFile,            *)
(* ReassembleFile, LoadPackage, LoadFromTar).                              *)
(***************************************************************************)
EXTENDS PackageLayout

CONSTANT MaxParts  \* the most parts that Archive lets an archive be split into

VARIABLES
    tar,     \* file name -> a tarball, half written or whole, and what it holds
    parts    \* file name -> its parts: the header's count, and the chunks

archiveVars == <<tar, parts>>

NoTar == [state |-> "none", files |-> NoFiles]
HalfTar == [state |-> "half", files |-> NoFiles]
NoParts == [count |-> 0, chunks |-> [k \in {} |-> NoFiles]]

ArchiveInit == tar = NoFiles /\ parts = NoFiles

\* PackageLayout.FileName.
FileName(def) == <<def.arch, def.differs, def.version>>

Target == FileName(mem.def)
PartsOf(name) == IF name \in DOMAIN parts THEN parts[name] ELSE NoParts

\* The chunks that an archive fills, by its size.
NumChunks(d) == 1 + Cardinality({f \in DOMAIN d : f[1] = "components"})

\* An archive that fits in one chunk is left whole.
Splits == cmd.split /\ NumChunks(dir) > 1

\* Archive removes a tarball of the same name before it compresses the files.
RemoveOldTar ==
    /\ Step("archive", 0)
    /\ tar' = Without(tar, {Target}) /\ Goto(1)
    /\ UNCHANGED <<dir, mem, faults, parts>>

\* The size is looked at once the tarball is written, which stays when the
\* archive is refused.
Compress ==
    /\ Step("archive", 1)
    /\ tar' = Put(tar, Target, [state |-> "whole", files |-> dir])
    /\ IF ~Splits THEN Done
       ELSE IF NumChunks(dir) > MaxParts THEN Refused ELSE Goto(2)
    /\ UNCHANGED <<dir, mem, faults, parts>>

\* Mutated: the parts of an earlier package are left where they are.
KeepOldParts == Step("archive", 2) /\ Goto(3) /\ UNCHANGED <<dir, mem, faults, tar, parts>>

\* SplitFile: the existing parts, the new ones, the tarball and the header.
RemoveOldParts ==
    /\ Step("archive", 2)
    /\ parts' = Without(parts, {Target}) /\ Goto(3)
    /\ UNCHANGED <<dir, mem, faults, tar>>

WritePart ==
    /\ At("archive") /\ cmd.step > 2 /\ cmd.step < NumChunks(dir) + 3
    /\ parts' = Put(parts, Target, [PartsOf(Target) EXCEPT !.chunks =
                                       Put(@, cmd.step - 2, tar[Target].files)])
    /\ Goto(cmd.step + 1)
    /\ UNCHANGED <<dir, mem, faults, tar>>

RemoveTar ==
    /\ At("archive") /\ cmd.step = NumChunks(dir) + 3
    /\ tar' = Without(tar, {Target}) /\ Goto(-1)
    /\ UNCHANGED <<dir, mem, faults, parts>>

WriteHeader ==
    /\ Step("archive", -1)
    /\ parts' = [parts EXCEPT ![Target].count = NumChunks(dir)] /\ Done
    /\ UNCHANGED <<dir, mem, faults, tar>>

ArchiveStep ==
    RemoveOldTar \/ Compress \/ RemoveOldParts \/ WritePart \/ RemoveTar \/ WriteHeader

\* A full disk, or a process that is killed, leaves what is written so far.
ArchiveFails ==
    /\ At("archive")
    /\ Fault /\ Refused
    /\ tar' = IF cmd.step = 1 THEN Put(tar, Target, HalfTar) ELSE tar
    /\ UNCHANGED <<dir, mem, parts>>

-----------------------------------------------------------------------------
\* LoadPackage of a tarball.
OpenTar ==
    /\ At("tarball")
    /\ cmd' = [cmd EXCEPT !.todo = Tail(@), !.tmp = tar[cmd.file]]
    /\ UNCHANGED <<dir, mem, faults, archiveVars>>

\* What the parts, in their order, are put together to.
Joined(chunks) ==
    LET one == chunks[1] IN
    IF 1 \in DOMAIN chunks /\ DOMAIN chunks = 1 .. NumChunks(one)
       /\ \A k \in DOMAIN chunks : chunks[k] = one
    THEN [state |-> "whole", files |-> one] ELSE HalfTar

\* ReassembleFile: without a header the first part is not JSON, and the header
\* has to agree on the number of parts; they are removed at the end.
Reassemble ==
    /\ Step("split", 0)
    /\ LET found == parts[cmd.file] IN
       IF found.count = 0 \/ found.count # Cardinality(DOMAIN found.chunks)
       THEN Refused
       ELSE cmd' = [cmd EXCEPT !.step = 1, !.tmp = Joined(found.chunks)]
    /\ UNCHANGED <<dir, mem, faults, archiveVars>>

RemoveParts ==
    /\ Step("split", 1)
    /\ parts' = Without(parts, {cmd.file}) /\ Done
    /\ UNCHANGED <<dir, mem, faults, tar>>

\* LoadFromTar: Decompress into a temporary directory.
Decompress ==
    /\ At("untar")
    /\ IF cmd.tmp.state = "whole" THEN dir' = cmd.tmp.files /\ Done ELSE Refused /\ UNCHANGED dir
    /\ UNCHANGED <<mem, faults, archiveVars>>

\* The copy of the loaded archive to opts.Output, the parts' directory by default.
CopyToOutput ==
    /\ At("output")
    /\ tar' = Put(tar, cmd.file, cmd.tmp) /\ Done
    /\ UNCHANGED <<dir, mem, faults, parts>>

LoadStep == OpenTar \/ Reassemble \/ RemoveParts \/ Decompress \/ CopyToOutput

CopyToOutputFails ==
    /\ At("output")
    /\ Fault /\ Refused
    /\ tar' = Put(tar, cmd.file, HalfTar)
    /\ UNCHANGED <<dir, mem, parts>>

-----------------------------------------------------------------------------
\* A file of the archive is damaged or lost where it is kept.
Rot(d) ==
    {Put(d, f, 0) : f \in {g \in DOMAIN d : g[1] = "components"}}
    \cup {Without(d, {f}) : f \in {g \in DOMAIN d : g[1] = "components"}}
    \cup (IF Bundle \in DOMAIN d THEN {Put(d, Bundle, [d[Bundle] EXCEPT !.readable = FALSE])} ELSE {})

TarRots ==
    /\ cmd.todo = <<>>
    /\ Fault
    /\ \E name \in DOMAIN tar : \E d \in Rot(tar[name].files) :
           tar' = [tar EXCEPT ![name].files = d]
    /\ UNCHANGED <<cmd, dir, mem, parts>>

PartLost ==
    /\ cmd.todo = <<>>
    /\ Fault
    /\ \E name \in DOMAIN parts : \E k \in DOMAIN parts[name].chunks :
           parts' = [parts EXCEPT ![name].chunks = Without(@, {k})]
    /\ UNCHANGED <<cmd, dir, mem, tar>>
=============================================================================
