----------------------- MODULE PackagePipeline_proofs -----------------------
(***************************************************************************)
(* Proofs about the life of packages outside a cluster.                    *)
(*                                                                         *)
(* Inv follows a package from its directory through the stores and back.   *)
(* Control says in which order a command takes its steps.  Stores says     *)
(* that every whole tarball, every part and every tag is a Package: its    *)
(* definition has checksums that name all files of its components, and a   *)
(* definition that says signed has the signature over itself.  A tag       *)
(* moreover has every file as the checksums have it, and every layer.      *)
(* The other parts say what the directory and the layout are at each step  *)
(* from the source to the destination.                                     *)
(***************************************************************************)
EXTENDS PackagePipeline, FiniteSetTheorems, TLAPS

Opens(op) == op \in {"load", "create", "publish", "sign"}
Makes(op) == op \in {"create", "skeleton"}

\* Which step may come after which in a command.
Leads(op, a, b) ==
    \/ Opens(op) /\ a \in {"tarball", "split"} /\ b = "untar"
    \/ Opens(op) /\ a \in {"untar", "pull"} /\ b = "open"
    \/ Opens(op) /\ a = "open" /\ b = "output"
    \/ op = "load" /\ a \in {"open", "output"} /\ b = "end"
    \/ op = "create" /\ a \in {"open", "output"} /\ b = "validate"
    \/ op = "publish" /\ a \in {"open", "output"} /\ b = "sign"
    \/ op = "publish" /\ a = "open" /\ b = "repack"
    \/ op = "publish" /\ a = "repack" /\ b = "open"
    \/ op = "sign" /\ a \in {"open", "output"} /\ b = "signed"
    \/ op = "sign" /\ a = "signed" /\ b = "sign"
    \/ op = "copy" /\ a = "resolve" /\ b = "push"
    \/ op = "create" /\ a = "validate" /\ b = "component"
    \/ op = "create" /\ a = "component" /\ b = "images"
    \/ op = "create" /\ a = "images" /\ b = "sbom"
    \/ op = "create" /\ a = "sbom" /\ b = "docs"
    \/ op = "create" /\ a = "docs" /\ b = "checksums"
    \/ op = "skeleton" /\ a = "skeleton" /\ b = "docs"
    \/ op = "skeleton" /\ a = "docs" /\ b = "component"
    \/ op = "skeleton" /\ a = "component" /\ b = "checksums"
    \/ Makes(op) /\ a = "checksums" /\ b = "metadata"
    \/ Makes(op) /\ a = "metadata" /\ b = "open"
    \/ Makes(op) /\ a = "open" /\ b = "sign"
    \/ op \in {"create", "skeleton", "publish", "sign"} /\ a = "sign" /\ b = "push"
    \/ op \in {"create", "skeleton", "publish", "sign", "copy"} /\ a = "push" /\ b = "end"
    \/ op \in {"create", "sign"} /\ a = "sign" /\ b = "archive"
    \/ op \in {"create", "sign"} /\ a = "archive" /\ b = "end"

Phases ==
    {"tarball", "split", "untar", "pull", "resolve", "open", "output", "validate", "skeleton",
     "component", "images", "sbom", "docs", "checksums", "metadata", "signed", "repack",
     "sign", "archive", "push", "end"}

\* What is left of a command.
Ordered(op, todo) ==
    /\ todo \in Seq(Phases)
    /\ \A k \in 1 .. Len(todo) - 1 : Leads(op, todo[k], todo[k + 1])
    /\ todo # <<>> => todo[Len(todo)] = "end"

\* The package that is opened before one is created is not the one that is signed.
OpenedFirst(op, todo) ==
    op = "create" => \A k \in 1 .. Len(todo) - 2 : todo[k] \in {"untar", "pull"} => todo[k + 2] # "sign"

Fields ==
    {"op", "todo", "step", "result", "build", "select", "types", "strategy", "key", "sign",
     "overwrite", "split", "src", "dst", "ref", "file", "tmp", "resolved", "isPartial", "saved",
     "previous", "attempt", "warned"}

\* A command has its options in order.
Control ==
    /\ DOMAIN cmd = Fields
    /\ Ordered(cmd.op, cmd.todo) /\ OpenedFirst(cmd.op, cmd.todo)
    /\ cmd.todo # <<>> => cmd.op \in {"load", "create", "publish", "sign", "skeleton", "copy"}
    /\ \A k \in 1 .. Len(cmd.todo) : cmd.todo[k] = "push" => cmd.dst \in Remotes /\ ~cmd.split
    /\ \A k \in 1 .. Len(cmd.todo) : cmd.todo[k] \in {"pull", "resolve"} => cmd.src \in Remotes
    /\ cmd.split \in BOOLEAN /\ (cmd.split => cmd.op = "create")
    /\ cmd.op # "load" => cmd.select = NoFilter
    /\ cmd.op \notin {"load", "create"} => cmd.types = "all"
    /\ cmd.todo # <<>> /\ Makes(cmd.op) => cmd.build \in DOMAIN Builds
    /\ cmd.step \in Int
    /\ cmd.todo # <<>> /\ Head(cmd.todo) \notin {"split", "component", "sign", "push", "archive"} =>
          cmd.step = 0
    /\ cmd.warned => At("end")

-----------------------------------------------------------------------------
DefFields == {"build", "arch", "version", "differs", "comps", "docs", "sum", "signed", "prov", "reqs"}
Apart == {ZarfYAML, Checksums, Bundle, Signature}

\* Complete, for any directory.
CompleteIn(d, comps, types, build) ==
    \A k \in DOMAIN comps :
        /\ comps[k].tar /\ types # "metadata" =>
              ComponentTar(comps[k].name) \in DOMAIN d /\ d[ComponentTar(comps[k].name)] = build
        /\ types = "all" => \A i \in comps[k].images \cup comps[k].archives :
              /\ IndexJSON \in DOMAIN d /\ i \in DOMAIN d[IndexJSON]
              /\ \A b \in ImageBlobs[i][d[IndexJSON][i].rev][d[IndexJSON][i].whole] :
                    ImageBlob(b) \in DOMAIN d /\ d[ImageBlob(b)] = 1

\* A definition and its checksums as zarf writes them.
GoodDefinition(def) ==
    /\ DOMAIN def = DefFields
    /\ def.prov \subseteq {Checksums, Bundle}
    /\ DOMAIN def.sum \cap Apart = {}
    /\ def.arch # "skeleton" => CompleteIn(def.sum, def.comps, "all", def.build)

\* A directory with a definition and, if it says so, the signature over it.
Plain(d) ==
    /\ ZarfYAML \in DOMAIN d /\ Signature \notin DOMAIN d
    /\ GoodDefinition(d[ZarfYAML])
    /\ Bundle \in DOMAIN d => DOMAIN d[Bundle] = {"readable", "key", "over"}
    /\ SignatureFits(d)

\* No file is there that AssembleLayers would not pull.
Entries(d) == IF IndexJSON \in DOMAIN d THEN DOMAIN d[IndexJSON] ELSE {}
TarFiles(d) == {f \in DOMAIN d : f[1] = "components"}
ComponentFiles(comps) == {ComponentTar(comps[k].name) : k \in DOMAIN comps}
Known(d, def) ==
    /\ DOMAIN d \subseteq
          Metadata \cup {SBOMTar} \cup (IF def.docs THEN {DocumentationTar} ELSE {})
          \cup ComponentFiles(def.comps)
          \cup (IF Entries(d) = {} THEN {} ELSE ImageLayers(d, Entries(d)))
    /\ Entries(d) \subseteq ImagesOf(def.comps)
    /\ def.arch = "skeleton" => Entries(d) = {}
    /\ IsFiniteSet(TarFiles(d))

Package(d) == Plain(d) /\ Known(d, d[ZarfYAML])

\* Every file that the definition vouches for is there as it was.
Matches(d) ==
    LET sum == d[ZarfYAML].sum IN
    /\ Checksums \in DOMAIN d /\ d[Checksums] = sum
    /\ \A f \in DOMAIN sum : f \in DOMAIN d /\ d[f] = sum[f]

Sound(d) == Package(d) /\ Matches(d)

SameFiles(m, d) == DOMAIN m = DOMAIN d /\ \A f \in DOMAIN d : m[f] = d[f]

-----------------------------------------------------------------------------
GoodTar(t) == DOMAIN t = {"state", "files"} /\ (t.state = "whole" => Package(t.files))

\* What a registry has under a tag and an architecture.
GoodEntry(m, arch) == Sound(m) /\ arch = m[ZarfYAML].arch

\* The stores hold packages only, the registries whole ones.
Stores ==
    /\ \A f \in DOMAIN tar : GoodTar(tar[f])
    /\ \A f \in DOMAIN parts :
          /\ DOMAIN parts[f] = {"count", "chunks"}
          /\ \A k \in DOMAIN parts[f].chunks : Package(parts[f].chunks[k])
    /\ DOMAIN registry = Remotes
    /\ \A r \in Remotes :
          /\ DOMAIN registry[r] = {"blobs", "index"}
          /\ \A x \in DOMAIN registry[r].index :
                /\ GoodEntry(registry[r].index[x], x[2])
                /\ Layers(registry[r].index[x]) \subseteq registry[r].blobs

-----------------------------------------------------------------------------
\* Nothing is opened yet.
Blank ==
    /\ dir = NoFiles /\ mem = NoLayout
    /\ ~cmd.isPartial /\ cmd.resolved = NoFiles /\ GoodTar(cmd.tmp)

Fetching ==
    /\ cmd.todo = <<>> => Blank
    /\ (\E p \in {"tarball", "split", "untar", "pull", "resolve", "skeleton"} : At(p)) => Blank
    /\ At("tarball") => cmd.file \in DOMAIN tar
    /\ At("split") => cmd.file \in DOMAIN parts
    /\ At("output") => GoodTar(cmd.tmp)

\* An image with all that belongs to it.
ImageIn(d, i) ==
    /\ IndexJSON \in DOMAIN d /\ i \in DOMAIN d[IndexJSON]
    /\ \A b \in ImageBlobs[i][d[IndexJSON][i].rev][d[IndexJSON][i].whole] :
          ImageBlob(b) \in DOMAIN d /\ d[ImageBlob(b)] = 1

\* With a previous package, which images are in this one.
Covers(comps, c) ==
    LET wanted == PlainImages(Builds[c.build].comps) IN
    /\ wanted \subseteq PlainImages(comps) \cup c.previous
    /\ wanted \cap Moving \subseteq PlainImages(comps)
Made(def, d, c) ==
    def.arch # "skeleton" /\ Covers(def.comps, c) /\ (HasImageIndex(d) => "index" \in def.reqs)

LayoutFields == {"open", "def", "pushable", "digest"}

\* The directory of a package in the making, without its definition.
Draft ==
    /\ DOMAIN mem = LayoutFields /\ DOMAIN mem.def = DefFields
    /\ ~cmd.isPartial /\ cmd.resolved = NoFiles /\ GoodTar(cmd.tmp)
    /\ mem.def.build = cmd.build /\ (mem.def.arch = "skeleton" <=> cmd.op = "skeleton")
    /\ Len(mem.def.comps) \in Nat /\ DOMAIN mem.def.comps = 1 .. Len(mem.def.comps)
    /\ ZarfYAML \notin DOMAIN dir /\ Bundle \notin DOMAIN dir /\ Signature \notin DOMAIN dir
    /\ Known(dir, mem.def)
    /\ cmd.op = "create" => Covers(mem.def.comps, cmd)

Pulling ==
    /\ DOMAIN pulls = ImagesOf(mem.def.comps)
    /\ \A i \in DOMAIN pulls :
          /\ DOMAIN pulls[i] = {"st", "platform", "tries"}
          /\ pulls[i].st \in {"archived", "todo", "found", "daemon", "saved"}
          /\ IF pulls[i].st = "saved" THEN ImageIn(dir, i) ELSE i \notin Entries(dir)

Making ==
    /\ (\E p \in {"component", "images", "sbom", "docs", "checksums", "metadata"} : At(p)) => Draft
    /\ At("component") =>
          /\ cmd.step \in 0 .. Len(mem.def.comps)
          /\ \A k \in 1 .. cmd.step : mem.def.comps[k].tar =>
                /\ ComponentTar(mem.def.comps[k].name) \in DOMAIN dir
                /\ dir[ComponentTar(mem.def.comps[k].name)] = cmd.build
    /\ cmd.op = "create" =>
          /\ (At("component") \/ At("images")) => Pulling
          /\ At("images") => CompleteIn(dir, mem.def.comps, "noImages", cmd.build)
          /\ (\E p \in {"sbom", "docs", "checksums", "metadata"} : At(p)) =>
                CompleteIn(dir, mem.def.comps, "all", cmd.build)
    /\ At("metadata") =>
          Checksums \in DOMAIN dir /\ SameFiles(dir[Checksums], Without(dir, {ZarfYAML, Checksums}))

Reopened == cmd.op = "create" /\ cmd.todo[2] = "sign"

Opened ==
    /\ At("open") \/ At("repack") \/ At("validate") => GoodTar(cmd.tmp)
    /\ At("open") =>
          /\ Plain(dir)
          /\ cmd.isPartial /\ dir[ZarfYAML].arch # "skeleton" =>
                CompleteIn(dir, Filtered(dir[ZarfYAML], cmd.select).comps, cmd.types, dir[ZarfYAML].build)
          /\ cmd.op \in {"publish", "sign", "skeleton"} \/ Reopened =>
                Known(dir, dir[ZarfYAML]) /\ (cmd.isPartial => Matches(dir))
          /\ Reopened => Made(dir[ZarfYAML], dir, cmd)
    /\ At("repack") => Package(dir)
    /\ cmd.op = "load" /\ (At("output") \/ At("end")) /\ cmd.result # "failed" =>
          /\ mem.def.arch # "skeleton" => CompleteIn(dir, mem.def.comps, cmd.types, mem.def.build)
          /\ cmd.strategy # "never" /\ (cmd.key # NoKey \/ cmd.strategy = "always") =>
                /\ Bundle \in DOMAIN dir
                /\ \/ dir[Bundle].key = cmd.key /\ dir[Bundle].over = dir[ZarfYAML] /\ dir[Bundle].readable
                   \/ cmd.strategy = "ifPossible" /\ (dir[Bundle].key \in Keyless) # (cmd.key \in Keyless)

\* A layout that is going to be stored.
InUse ==
    \/ cmd.op # "copy" /\ \E p \in {"signed", "sign", "push", "archive"} : At(p)
    \/ cmd.op \in {"publish", "sign"} /\ At("output")
SignStarted == At("sign") /\ cmd.step # 0

Using ==
    /\ InUse =>
          /\ DOMAIN mem = LayoutFields
          /\ At("sign") => cmd.step \in 0 .. 3
          /\ ~SignStarted => Sound(dir) /\ mem.def = dir[ZarfYAML]
          /\ mem.pushable /\ ~SignStarted => SameFiles(mem.digest, dir)
          /\ cmd.op = "create" => Made(mem.def, dir, cmd)
    /\ Step("sign", 1) => Sound(dir) /\ cmd.saved = dir[ZarfYAML] /\ mem.def = SignedDefinition(cmd.saved)
    /\ Step("sign", 2) =>
          /\ Sound(Put(dir, ZarfYAML, cmd.saved)) /\ mem.def = SignedDefinition(cmd.saved)
          /\ ZarfYAML \in DOMAIN dir /\ dir[ZarfYAML] = mem.def
    /\ Step("sign", 3) => Sound(dir) /\ mem.def = dir[ZarfYAML]

Pushing ==
    At("push") =>
        /\ cmd.step \in 0 .. 2
        /\ cmd.op = "copy" => GoodEntry(cmd.resolved, cmd.ref[2])
        /\ cmd.step # 0 => mem.pushable \/ cmd.op = "copy"
        /\ cmd.step = 2 => Layers(Served) \subseteq registry[cmd.dst].blobs

\* The parts that are written so far.
Written(n) ==
    IF n = 0 THEN Target \notin DOMAIN parts
    ELSE /\ Target \in DOMAIN parts /\ DOMAIN parts[Target].chunks = 1 .. n
         /\ \A k \in 1 .. n : parts[Target].chunks[k] = dir

Archiving ==
    At("archive") =>
        /\ cmd.step \in -1 .. NumChunks(dir) + 3
        /\ cmd.step \notin {0, 1} => cmd.split
        /\ cmd.step > 1 => Target \in DOMAIN tar /\ tar[Target].files = dir
        /\ cmd.step > 2 => Written(cmd.step - 3)
        /\ cmd.step = -1 => Written(NumChunks(dir))

Ended ==
    /\ ZarfYAML \in DOMAIN dir /\ ~Step("sign", 2) /\ ~cmd.warned => Plain(dir)
    /\ Succeeded("create") =>
          /\ Made(mem.def, dir, cmd) /\ CompleteIn(dir, mem.def.comps, "all", mem.def.build)
          /\ Splits => /\ Written(NumChunks(dir)) /\ parts[Target].count = NumChunks(dir)
                       /\ NumChunks(dir) \in Nat \ {0}

Inv == /\ Control /\ Stores /\ Fetching /\ Making /\ Opened /\ Using /\ Pushing
       /\ Archiving /\ Ended

-----------------------------------------------------------------------------
\* What every step of a command leaves alone but the ones that set it.
Options ==
    /\ DOMAIN cmd' = Fields
    /\ cmd'.op = cmd.op /\ cmd'.build = cmd.build /\ cmd'.select = cmd.select
    /\ cmd'.types = cmd.types /\ cmd'.key = cmd.key /\ cmd'.sign = cmd.sign
    /\ cmd'.overwrite = cmd.overwrite /\ cmd'.split = cmd.split /\ cmd'.src = cmd.src
    /\ cmd'.dst = cmd.dst /\ cmd'.ref = cmd.ref /\ cmd'.file = cmd.file
Results ==
    /\ cmd'.strategy = cmd.strategy /\ cmd'.previous = cmd.previous
    /\ cmd'.resolved = cmd.resolved /\ cmd'.isPartial = cmd.isPartial
    /\ cmd'.tmp = cmd.tmp
Marks == cmd'.saved = cmd.saved /\ cmd'.warned = cmd.warned /\ cmd'.attempt = cmd.attempt

LEMMA DoneCmd ==
    ASSUME DOMAIN cmd = Fields, Done
    PROVE  /\ Options /\ Results /\ Marks /\ cmd'.result = cmd.result
           /\ cmd'.todo = Tail(cmd.todo) /\ cmd'.step = 0
  BY DEF Done, Options, Results, Marks, Fields

LEMMA GotoCmd ==
    ASSUME DOMAIN cmd = Fields, NEW n, Goto(n)
    PROVE  /\ Options /\ Results /\ Marks /\ cmd'.result = cmd.result
           /\ cmd'.todo = cmd.todo /\ cmd'.step = n
  BY DEF Goto, Options, Results, Marks, Fields

LEMMA RefusedCmd ==
    ASSUME DOMAIN cmd = Fields, Refused
    PROVE  /\ Options /\ Results /\ Marks
           /\ cmd'.todo = <<"end">> /\ cmd'.step = 0 /\ cmd'.result = "failed"
  BY DEF Refused, Options, Results, Marks, Fields

LEMMA TailOrdered ==
    ASSUME NEW op, NEW todo, Ordered(op, todo), todo # <<>>, Head(todo) # "end"
    PROVE  /\ Tail(todo) # <<>> /\ Head(Tail(todo)) = todo[2]
           /\ Leads(op, Head(todo), Head(Tail(todo)))
           /\ Ordered(op, Tail(todo))
  <1>1. Len(todo) \in Nat /\ Len(todo) > 1 /\ Head(todo) = todo[1]
    BY DEF Ordered
  <1>2. Tail(todo) \in Seq(Phases) /\ Len(Tail(todo)) = Len(todo) - 1
    BY <1>1 DEF Ordered
  <1>3. \A k \in 1 .. Len(todo) - 1 : Tail(todo)[k] = todo[k + 1]
    BY <1>1 DEF Ordered
  <1>4. Leads(op, todo[1], todo[2])
    BY <1>1 DEF Ordered
  <1>5. Tail(todo) # <<>> /\ Head(Tail(todo)) = todo[2]
    <2>1. Len(Tail(todo)) > 0 /\ Len(<<>>) = 0
      BY <1>1, <1>2
    <2>2. Tail(todo)[1] = todo[2]
      BY <1>1, <1>3
    <2>3. Tail(todo) # <<>>
      BY <2>1
    <2> QED BY <2>2, <2>3, <1>2
  <1>6. ASSUME NEW k \in 1 .. Len(Tail(todo)) - 1
        PROVE  Leads(op, Tail(todo)[k], Tail(todo)[k + 1])
    <2>1. Leads(op, todo[k + 1], todo[(k + 1) + 1])
      BY <1>1, <1>2 DEF Ordered
    <2> QED BY <2>1, <1>1, <1>2, <1>3
  <1>7. Tail(todo)[Len(Tail(todo))] = "end"
    BY <1>1, <1>2, <1>3 DEF Ordered
  <1> QED BY <1>1, <1>2, <1>4, <1>5, <1>6, <1>7 DEF Ordered

LEMMA AdvanceControl ==
    ASSUME Control, Options, cmd.todo # <<>>, Head(cmd.todo) # "end",
           cmd'.todo = Tail(cmd.todo), cmd'.step = 0, cmd'.warned = cmd.warned
    PROVE  /\ Control' /\ cmd'.todo # <<>> /\ Head(cmd'.todo) = cmd.todo[2]
           /\ Leads(cmd.op, Head(cmd.todo), Head(cmd'.todo))
  <1>1. Ordered(cmd.op, cmd.todo) BY DEF Control
  <1>2. /\ cmd'.todo # <<>> /\ Head(cmd'.todo) = cmd.todo[2]
        /\ Leads(cmd.op, Head(cmd.todo), Head(cmd'.todo))
        /\ Ordered(cmd'.op, cmd'.todo)
    BY <1>1, TailOrdered DEF Options
  <1>3. /\ Len(cmd.todo) \in Nat /\ Len(cmd'.todo) = Len(cmd.todo) - 1
        /\ \A k \in 1 .. Len(cmd.todo) - 1 : cmd'.todo[k] = cmd.todo[k + 1]
    BY <1>1 DEF Ordered
  <1>4. OpenedFirst(cmd'.op, cmd'.todo)
    <2> SUFFICES ASSUME cmd.op = "create", NEW k \in 1 .. Len(cmd'.todo) - 2,
                        cmd'.todo[k] \in {"untar", "pull"}
                 PROVE  cmd'.todo[k + 2] # "sign"
      BY DEF OpenedFirst, Options
    <2>1. k + 1 \in 1 .. Len(cmd.todo) - 2 /\ cmd'.todo[k] = cmd.todo[k + 1]
          /\ cmd'.todo[k + 2] = cmd.todo[(k + 1) + 2]
      BY <1>3
    <2> QED BY <2>1 DEF Control, OpenedFirst
  <1>5. \A k \in 1 .. Len(cmd'.todo) : cmd'.todo[k] = cmd.todo[k + 1] /\ k + 1 \in 1 .. Len(cmd.todo)
    BY <1>3
  <1> QED BY <1>2, <1>4, <1>5 DEF Control, Options, At

LEMMA RefusedControl ==
    ASSUME Control, Options, cmd'.todo = <<"end">>, cmd'.step = 0, cmd.todo # <<>>
    PROVE  Control'
  <1> DEFINE e == <<"end">>
  <1>0. e \in Seq(Phases) /\ Len(e) = 1 /\ e[1] = "end"
    BY DEF Phases
  <1>9. e # <<>> /\ Head(e) = "end"
    OBVIOUS
  <1>1. /\ cmd'.todo \in Seq(Phases) /\ Len(cmd'.todo) = 1 /\ cmd'.todo[1] = "end"
        /\ Head(cmd'.todo) = "end" /\ cmd'.todo # <<>>
    BY <1>0, <1>9
  <1>2. Ordered(cmd'.op, cmd'.todo) /\ OpenedFirst(cmd'.op, cmd'.todo)
    BY <1>1 DEF Ordered, OpenedFirst
  <1> QED BY <1>1, <1>2 DEF Control, Options, At

LEMMA StayControl ==
    ASSUME Control, Options, cmd'.todo = cmd.todo, cmd'.warned = cmd.warned, cmd'.step \in Int,
           Head(cmd.todo) \in {"split", "component", "sign", "push", "archive"}
    PROVE  Control'
  BY DEF Control, Options, At

\* A command that fails ends with what it has so far.
LEMMA EndsFailed ==
    ASSUME Control', Stores', cmd'.todo = <<"end">>, cmd'.result = "failed",
           ZarfYAML \in DOMAIN dir' /\ ~cmd'.warned => Plain(dir)'
    PROVE  Inv'
  <1>1. cmd'.todo # <<>> /\ Head(cmd'.todo) = "end"
    OBVIOUS
  <1> QED BY <1>1 DEF Inv, Fetching, Making, Opened, Using, InUse, Pushing, Archiving, Ended,
                      SignStarted, At, Step, Succeeded

LEMMA EntersFetching ==
    ASSUME Control', Stores', Fetching', cmd'.todo # <<>>,
           Head(cmd'.todo) \in {"tarball", "split", "untar", "pull", "resolve", "skeleton"}
    PROVE  Inv'
  <1>1. dir' = NoFiles /\ ZarfYAML \notin DOMAIN dir'
    BY DEF Fetching, Blank, At, NoFiles
  <1> QED BY <1>1 DEF Inv, Making, Opened, Using, InUse, Pushing, Archiving, Ended,
                      SignStarted, At, Step, Succeeded

LEMMA EntersMaking ==
    ASSUME Control', Stores', Making', cmd'.todo # <<>>, ZarfYAML \notin DOMAIN dir',
           Head(cmd'.todo) \in {"component", "images", "sbom", "docs", "checksums", "metadata"}
    PROVE  Inv'
  BY DEF Inv, Fetching, Opened, Using, InUse, Pushing, Archiving, Ended,
         SignStarted, At, Step, Succeeded

LEMMA EntersOpen ==
    ASSUME Control', Stores', Opened', cmd'.todo # <<>>, ZarfYAML \in DOMAIN dir' => Plain(dir)',
           Head(cmd'.todo) \in {"open", "repack", "validate"}
    PROVE  Inv'
  BY DEF Inv, Fetching, Making, Using, InUse, Pushing, Archiving, Ended,
         SignStarted, At, Step, Succeeded

LEMMA EntersOutput ==
    ASSUME Control', Stores', Opened', Using', cmd'.todo # <<>>, Plain(dir)',
           Head(cmd'.todo) = "output", GoodTar(cmd.tmp)'
    PROVE  Inv'
  BY DEF Inv, Fetching, Making, InUse, Pushing, Archiving, Ended,
         SignStarted, At, Step, Succeeded

LEMMA EntersUse ==
    ASSUME Control', Stores', Using', Pushing', Archiving', cmd'.todo # <<>>,
           ZarfYAML \in DOMAIN dir' /\ ~Step("sign", 2)' => Plain(dir)',
           Head(cmd'.todo) \in {"signed", "sign", "push", "archive"}
    PROVE  Inv'
  BY DEF Inv, Fetching, Making, Opened, Ended, SignStarted, At, Step, Succeeded

LEMMA EntersEnd ==
    ASSUME Control', Stores', Opened', Ended', cmd'.todo # <<>>, Head(cmd'.todo) = "end"
    PROVE  Inv'
  BY DEF Inv, Fetching, Making, Using, InUse, Pushing, Archiving, SignStarted, At, Step, Succeeded

-----------------------------------------------------------------------------
\* The plans of the commands are in order.
LEMMA ConcatSteps ==
    ASSUME NEW s \in Seq(Phases), NEW t \in Seq(Phases)
    PROVE  /\ s \o t \in Seq(Phases) /\ Len(s \o t) = Len(s) + Len(t)
           /\ Len(s) \in Nat /\ Len(t) \in Nat
           /\ \A k \in 1 .. Len(s) : (s \o t)[k] = s[k]
           /\ \A k \in 1 .. Len(t) : (s \o t)[Len(s) + k] = t[k]
  OBVIOUS

LEMMA ConcatOrdered ==
    ASSUME NEW op, NEW s \in Seq(Phases), NEW t \in Seq(Phases), s # <<>>, t # <<>>,
           \A k \in 1 .. Len(s) - 1 : Leads(op, s[k], s[k + 1]),
           Ordered(op, t), Leads(op, s[Len(s)], t[1])
    PROVE  Ordered(op, s \o t)
  <1> DEFINE u == s \o t
  <1>1. /\ u \in Seq(Phases) /\ Len(u) = Len(s) + Len(t) /\ Len(s) \in Nat /\ Len(t) \in Nat
        /\ \A k \in 1 .. Len(s) : u[k] = s[k]
        /\ \A k \in 1 .. Len(t) : u[Len(s) + k] = t[k]
    BY ConcatSteps
  <1>2. Len(s) > 0 /\ Len(t) > 0
    OBVIOUS
  <1> HIDE DEF u
  <1>3. ASSUME NEW k \in 1 .. Len(u) - 1 PROVE Leads(op, u[k], u[k + 1])
    <2>1. CASE k < Len(s)
      <3>1. k \in 1 .. Len(s) /\ k + 1 \in 1 .. Len(s) /\ k \in 1 .. Len(s) - 1
        BY <1>1, <2>1
      <3>2. u[k] = s[k] /\ u[k + 1] = s[k + 1]
        BY <1>1, <3>1
      <3> QED BY <3>1, <3>2
    <2>2. CASE k = Len(s)
      <3>1. u[k] = s[Len(s)] /\ u[k + 1] = t[1]
        BY <1>1, <1>2, <2>2
      <3> QED BY <3>1
    <2>3. CASE k > Len(s)
      <3>1. PICK j \in 1 .. Len(t) - 1 : k = Len(s) + j
        <4>1. k - Len(s) \in 1 .. Len(t) - 1 /\ k = Len(s) + (k - Len(s))
          BY <1>1, <2>3
        <4> QED BY <4>1
      <3>2. j \in 1 .. Len(t) /\ j + 1 \in 1 .. Len(t) /\ k + 1 = Len(s) + (j + 1)
        BY <1>1, <3>1
      <3>3. u[k] = t[j] /\ u[k + 1] = t[j + 1]
        BY <1>1, <3>1, <3>2
      <3> QED BY <3>1, <3>3 DEF Ordered
    <2> QED BY <2>1, <2>2, <2>3, <1>1
  <1>4. u[Len(u)] = "end"
    <2>1. Len(t) \in 1 .. Len(t)
      BY <1>1, <1>2
    <2>2. u[Len(s) + Len(t)] = t[Len(t)]
      BY <1>1, <2>1
    <2> QED BY <1>1, <2>2 DEF Ordered
  <1>5. Ordered(op, u)
    BY <1>1, <1>3, <1>4 DEF Ordered
  <1> QED BY <1>5 DEF u

CreateTail(last) ==
    <<"validate", "component", "images", "sbom", "docs", "checksums", "metadata", "open", "sign",
      last, "end">>
SkeletonPlan ==
    <<"skeleton", "docs", "component", "checksums", "metadata", "open", "sign", "push", "end">>

LEMMA CreateTailOrdered ==
    ASSUME NEW last \in {"push", "archive"}
    PROVE  LET t == CreateTail(last) IN
           /\ Ordered("create", t) /\ t # <<>> /\ t[1] = "validate" /\ Head(t) = "validate"
           /\ \A k \in 1 .. Len(t) : t[k] \notin {"untar", "pull", "resolve"} /\ (t[k] = "push" => last = "push")
           /\ \A k \in 1 .. Len(t) : t[k] = "sign" => k = 9
  <1> DEFINE t == CreateTail(last)
  <1>1. t \in Seq(Phases) /\ Len(t) = 11 /\ t # <<>> /\ Head(t) = "validate"
    BY DEF CreateTail, Phases
  <1>2. /\ t[1] = "validate" /\ t[2] = "component" /\ t[3] = "images" /\ t[4] = "sbom"
        /\ t[5] = "docs" /\ t[6] = "checksums" /\ t[7] = "metadata" /\ t[8] = "open"
        /\ t[9] = "sign" /\ t[10] = last /\ t[11] = "end"
    BY DEF CreateTail
  <1> HIDE DEF t
  <1>3. ASSUME NEW k \in 1 .. 10 PROVE Leads("create", t[k], t[k + 1])
    <2>1. k \in {1, 2, 3, 4, 5, 6, 7, 8, 9, 10} OBVIOUS
    <2> QED BY <2>1, <1>2 DEF Leads, Makes
  <1>4. ASSUME NEW k \in 1 .. 11
        PROVE  /\ t[k] \notin {"untar", "pull", "resolve"} /\ (t[k] = "push" => last = "push")
               /\ t[k] = "sign" => k = 9
    <2>1. k \in {1, 2, 3, 4, 5, 6, 7, 8, 9, 10, 11} OBVIOUS
    <2> QED BY <2>1, <1>2
  <1>5. Ordered("create", t)
    BY <1>1, <1>2, <1>3 DEF Ordered
  <1> QED BY <1>1, <1>2, <1>4, <1>5 DEF t

Kinds == {"tarball", "split", "oci"}

LEMMA OpeningSteps ==
    ASSUME NEW op, Opens(op), NEW kind \in Kinds
    PROVE  LET o == Opening(kind) IN
           /\ o \in Seq(Phases) /\ o # <<>> /\ o[1] = (IF kind = "oci" THEN "pull" ELSE kind)
           /\ Len(o) = (IF kind = "oci" THEN 2 ELSE IF kind = "split" THEN 4 ELSE 3)
           /\ \A k \in 1 .. Len(o) - 1 : Leads(op, o[k], o[k + 1])
           /\ o[Len(o)] = (IF kind = "split" THEN "output" ELSE "open")
           /\ \A k \in 1 .. Len(o) :
                 /\ o[k] \notin {"push", "resolve", "sign"} /\ (o[k] = "pull" => kind = "oci")
                 /\ o[k] \in {"untar", "pull"} => k = (IF kind = "oci" THEN 1 ELSE 2)
  <1> DEFINE o == Opening(kind)
  <1>1. CASE kind = "tarball"
    <2>1. /\ o \in Seq(Phases) /\ o # <<>> /\ Len(o) = 3
          /\ o[1] = "tarball" /\ o[2] = "untar" /\ o[3] = "open"
      BY <1>1 DEF Opening, Phases
    <2> HIDE DEF o
    <2>2. \A k \in 1 .. 3 : k \in {1, 2, 3}
      OBVIOUS
    <2> QED BY <1>1, <2>1, <2>2 DEF Leads, Opens, o
  <1>2. CASE kind = "split"
    <2>1. /\ o \in Seq(Phases) /\ o # <<>> /\ Len(o) = 4
          /\ o[1] = "split" /\ o[2] = "untar" /\ o[3] = "open" /\ o[4] = "output"
      BY <1>2 DEF Opening, Phases
    <2> HIDE DEF o
    <2>2. \A k \in 1 .. 4 : k \in {1, 2, 3, 4}
      OBVIOUS
    <2>3. \A k \in 1 .. 3 : Leads(op, o[k], o[k + 1])
      <3>1. Leads(op, "split", "untar") /\ Leads(op, "untar", "open") /\ Leads(op, "open", "output")
        BY DEF Leads, Opens
      <3> QED BY <2>1, <3>1
    <2>4. \A k \in 1 .. 4 : o[k] \notin {"push", "resolve", "sign", "pull"} /\ (o[k] = "untar" => k = 2)
      BY <2>1, <2>2
    <2> QED BY <1>2, <2>1, <2>3, <2>4 DEF o
  <1>3. CASE kind = "oci"
    <2>1. /\ o \in Seq(Phases) /\ o # <<>> /\ Len(o) = 2
          /\ o[1] = "pull" /\ o[2] = "open"
      BY <1>3 DEF Opening, Phases
    <2> HIDE DEF o
    <2>2. \A k \in 1 .. 2 : k \in {1, 2}
      OBVIOUS
    <2> QED BY <1>3, <2>1, <2>2 DEF Leads, Opens, o
  <1> QED BY <1>1, <1>2, <1>3 DEF Kinds

LEMMA PlanOrdered ==
    ASSUME NEW op, Opens(op), NEW kind \in Kinds, NEW t, Ordered(op, t), t # <<>>,
           kind = "split" => Leads(op, "output", t[1]), kind # "split" => Leads(op, "open", t[1]),
           \A k \in 1 .. Len(t) : t[k] \notin {"untar", "pull", "resolve"},
           op = "create" => t[1] # "sign"
    PROVE  LET u == Opening(kind) \o t IN
           /\ Ordered(op, u) /\ OpenedFirst(op, u) /\ u # <<>>
           /\ Head(u) = (IF kind = "oci" THEN "pull" ELSE kind)
           /\ \A k \in 1 .. Len(u) : u[k] = "push" => \E j \in 1 .. Len(t) : t[j] = "push"
           /\ \A k \in 1 .. Len(u) : u[k] \in {"pull", "resolve"} => kind = "oci"
  <1> DEFINE o == Opening(kind)
             u == o \o t
  <1>1. /\ o \in Seq(Phases) /\ o # <<>> /\ o[1] = (IF kind = "oci" THEN "pull" ELSE kind)
        /\ Len(o) = (IF kind = "oci" THEN 2 ELSE IF kind = "split" THEN 4 ELSE 3)
        /\ \A k \in 1 .. Len(o) - 1 : Leads(op, o[k], o[k + 1])
        /\ o[Len(o)] = (IF kind = "split" THEN "output" ELSE "open")
        /\ \A k \in 1 .. Len(o) :
              /\ o[k] \notin {"push", "resolve", "sign"} /\ (o[k] = "pull" => kind = "oci")
              /\ o[k] \in {"untar", "pull"} => k = (IF kind = "oci" THEN 1 ELSE 2)
    BY OpeningSteps
  <1>2. t \in Seq(Phases)
    BY DEF Ordered
  <1> HIDE DEF o
  <1>3. Ordered(op, u)
    BY <1>1, <1>2, ConcatOrdered
  <1>4. /\ u \in Seq(Phases) /\ Len(u) = Len(o) + Len(t) /\ Len(o) \in Nat /\ Len(t) \in Nat
        /\ \A k \in 1 .. Len(o) : u[k] = o[k]
        /\ \A k \in 1 .. Len(t) : u[Len(o) + k] = t[k]
    BY <1>1, <1>2, ConcatSteps
  <1> HIDE DEF u
  <1>5. ASSUME NEW k \in 1 .. Len(u)
        PROVE  \/ k \in 1 .. Len(o) /\ u[k] = o[k]
               \/ \E j \in 1 .. Len(t) : k = Len(o) + j /\ u[k] = t[j]
    <2>1. CASE k <= Len(o)
      BY <1>4, <2>1
    <2>2. CASE k > Len(o)
      <3>1. k - Len(o) \in 1 .. Len(t) /\ k = Len(o) + (k - Len(o))
        BY <1>4, <2>2
      <3> QED BY <1>4, <3>1
    <2> QED BY <2>1, <2>2, <1>4
  <1>6. OpenedFirst(op, u)
    <2> SUFFICES ASSUME op = "create", NEW k \in 1 .. Len(u) - 2, u[k] \in {"untar", "pull"}
                 PROVE  u[k + 2] # "sign"
      BY DEF OpenedFirst
    <2>1. k \in 1 .. Len(u) /\ k + 2 \in 1 .. Len(u)
      BY <1>4
    <2>2. k = (IF kind = "oci" THEN 1 ELSE 2)
      BY <1>1, <1>5, <2>1
    <2>3. CASE k + 2 \in 1 .. Len(o) /\ u[k + 2] = o[k + 2]
      BY <1>1, <2>3
    <2>4. CASE \E j \in 1 .. Len(t) : k + 2 = Len(o) + j /\ u[k + 2] = t[j]
      <3>1. PICK j \in 1 .. Len(t) : k + 2 = Len(o) + j /\ u[k + 2] = t[j]
        BY <2>4
      <3>2. j = 1
        BY <1>1, <2>2, <3>1
      <3> QED BY <3>1, <3>2
    <2> QED BY <2>1, <2>3, <2>4, <1>5
  <1>7. u # <<>> /\ Head(u) = (IF kind = "oci" THEN "pull" ELSE kind)
    <2>1. Len(u) > 0 /\ u[1] = o[1]
      BY <1>1, <1>4
    <2>2. u # <<>>
      BY <2>1
    <2> QED BY <1>1, <1>4, <2>1, <2>2
  <1>8. \A k \in 1 .. Len(u) : u[k] = "push" => \E j \in 1 .. Len(t) : t[j] = "push"
    BY <1>1, <1>5
  <1>9. \A k \in 1 .. Len(u) : u[k] \in {"pull", "resolve"} => kind = "oci"
    BY <1>1, <1>5
  <1> QED BY <1>3, <1>6, <1>7, <1>8, <1>9 DEF o, u

LEMMA StartedInv ==
    ASSUME Inv, NEW c, Start(c), DOMAIN c = Fields, c.todo # <<>>,
           Ordered(c.op, c.todo), OpenedFirst(c.op, c.todo),
           c.op \in {"load", "create", "publish", "sign", "skeleton", "copy"},
           Head(c.todo) \in {"tarball", "split", "pull", "resolve", "skeleton", "validate"},
           \A k \in 1 .. Len(c.todo) : c.todo[k] = "push" => c.dst \in Remotes /\ ~c.split,
           \A k \in 1 .. Len(c.todo) : c.todo[k] \in {"pull", "resolve"} => c.src \in Remotes,
           c.split \in BOOLEAN, c.split => c.op = "create",
           c.op # "load" => c.select = NoFilter,
           c.op \notin {"load", "create"} => c.types = "all",
           Makes(c.op) => c.build \in DOMAIN Builds,
           c.step = 0, ~c.warned, ~c.isPartial, c.resolved = NoFiles, c.tmp = NoTar,
           Head(c.todo) = "tarball" => c.file \in DOMAIN tar,
           Head(c.todo) = "split" => c.file \in DOMAIN parts
    PROVE  Inv'
  <1>1. /\ cmd' = c /\ cmd.todo = <<>> /\ dir' = dir /\ mem' = mem /\ tar' = tar
        /\ parts' = parts /\ registry' = registry
    BY DEF Start, stores
  <1>2. Control'
    BY <1>1 DEF Control, At
  <1>3. Stores'
    BY <1>1 DEF Inv, Stores
  <1>4. dir = NoFiles /\ mem = NoLayout
    BY <1>1 DEF Inv, Fetching, Blank
  <1>7. GoodTar(c.tmp)
    BY DEF GoodTar, NoTar
  <1>5. CASE Head(c.todo) = "validate"
    <2>1. Opened'
      BY <1>1, <1>5, <1>7 DEF Opened, At
    <2>2. ZarfYAML \notin DOMAIN dir'
      BY <1>1, <1>4 DEF NoFiles
    <2> QED BY <1>1, <1>2, <1>3, <1>5, <2>1, <2>2, EntersOpen
  <1>6. CASE Head(c.todo) # "validate"
    <2>1. Fetching'
      BY <1>1, <1>4, <1>6, <1>7 DEF Fetching, Blank, At
    <2> QED BY <1>1, <1>2, <1>3, <1>6, <2>1, EntersFetching
  <1> QED BY <1>5, <1>6

LEMMA NoCommandFields == DOMAIN NoCommand = Fields
  BY DEF NoCommand, Fields

LEMMA FromSource ==
    ASSUME NEW s
    PROVE  LET c == From(s) IN
           /\ DOMAIN c = Fields /\ c.src = s.src /\ c.ref = s.ref /\ c.file = s.file
           /\ c.step = 0 /\ ~c.warned /\ ~c.isPartial /\ c.resolved = NoFiles /\ c.tmp = NoTar
           /\ c.select = NoFilter /\ c.types = "all" /\ c.split = FALSE
  BY DEF NoCommand, Fields, From

LEMMA SourceFacts ==
    ASSUME NEW s \in Sources
    PROVE  /\ s.kind \in Kinds
           /\ s.kind = "tarball" => s.file \in DOMAIN tar
           /\ s.kind = "split" => s.file \in DOMAIN parts
           /\ s.kind = "oci" => s.src \in Remotes
  <1>1. CASE \E f \in DOMAIN tar : s = Source("tarball", "", <<"", "">>, f)
    <2>1. PICK f \in DOMAIN tar : s = Source("tarball", "", <<"", "">>, f)
      BY <1>1
    <2> QED BY <2>1 DEF Source, Kinds
  <1>2. CASE \E f \in DOMAIN parts : s = Source("split", "", <<"", "">>, f)
    <2>1. PICK f \in DOMAIN parts : s = Source("split", "", <<"", "">>, f)
      BY <1>2
    <2> QED BY <2>1 DEF Source, Kinds
  <1>3. CASE \E r \in Remotes : \E x \in DOMAIN registry[r].index : s = Source("oci", r, x, <<"", "", "">>)
    <2>1. PICK r \in Remotes : \E x \in DOMAIN registry[r].index : s = Source("oci", r, x, <<"", "", "">>)
      BY <1>3
    <2>2. PICK x \in DOMAIN registry[r].index : s = Source("oci", r, x, <<"", "", "">>)
      BY <2>1
    <2> QED BY <2>2 DEF Source, Kinds
  <1> QED BY <1>1, <1>2, <1>3 DEF Sources

LEMMA PlannedInv ==
    ASSUME Inv, NEW s \in Sources, NEW t, NEW c, Start(c), DOMAIN c = Fields,
           c.todo = Opening(s.kind) \o t, Opens(c.op), Ordered(c.op, t), t # <<>>,
           s.kind = "split" => Leads(c.op, "output", t[1]),
           s.kind # "split" => Leads(c.op, "open", t[1]),
           \A k \in 1 .. Len(t) : t[k] \notin {"untar", "pull", "resolve"},
           \A k \in 1 .. Len(t) : t[k] = "push" => c.dst \in Remotes /\ ~c.split,
           c.op = "create" => t[1] # "sign" /\ c.build \in DOMAIN Builds,
           c.src = s.src, c.file = s.file,
           c.split \in BOOLEAN, c.split => c.op = "create",
           c.op # "load" => c.select = NoFilter,
           c.op \notin {"load", "create"} => c.types = "all",
           c.step = 0, ~c.warned, ~c.isPartial, c.resolved = NoFiles, c.tmp = NoTar
    PROVE  Inv'
  <1>1. /\ s.kind \in Kinds
        /\ s.kind = "tarball" => s.file \in DOMAIN tar
        /\ s.kind = "split" => s.file \in DOMAIN parts
        /\ s.kind = "oci" => s.src \in Remotes
    BY SourceFacts
  <1>2. LET u == Opening(s.kind) \o t IN
        /\ Ordered(c.op, u) /\ OpenedFirst(c.op, u) /\ u # <<>>
        /\ Head(u) = (IF s.kind = "oci" THEN "pull" ELSE s.kind)
        /\ \A k \in 1 .. Len(u) : u[k] = "push" => \E j \in 1 .. Len(t) : t[j] = "push"
        /\ \A k \in 1 .. Len(u) : u[k] \in {"pull", "resolve"} => s.kind = "oci"
    BY <1>1, PlanOrdered
  <1>3. /\ Ordered(c.op, c.todo) /\ OpenedFirst(c.op, c.todo) /\ c.todo # <<>>
        /\ Head(c.todo) = (IF s.kind = "oci" THEN "pull" ELSE s.kind)
        /\ \A k \in 1 .. Len(c.todo) : c.todo[k] = "push" => \E j \in 1 .. Len(t) : t[j] = "push"
        /\ \A k \in 1 .. Len(c.todo) : c.todo[k] \in {"pull", "resolve"} => s.kind = "oci"
    BY <1>2
  <1>4. c.op \in {"load", "create", "publish", "sign", "skeleton", "copy"} /\ (Makes(c.op) => c.op = "create")
    BY DEF Opens, Makes
  <1> QED BY <1>1, <1>3, <1>4, StartedInv DEF Kinds

LEMMA LoadPackageInv ==
    ASSUME Inv, NEW s \in Sources, NEW select, NEW types, NEW strategy, NEW key,
           LoadPackage(s, select, types, strategy, key)
    PROVE  Inv'
  <1> DEFINE t == <<"end">>
             c == [From(s) EXCEPT !.op = "load", !.select = select, !.types = types,
                !.strategy = strategy, !.key = key, !.todo = Opening(s.kind) \o <<"end">>]
  <1>1. /\ DOMAIN c = Fields /\ c.op = "load" /\ c.todo = Opening(s.kind) \o t /\ c.src = s.src /\ c.file = s.file
        /\ c.step = 0 /\ ~c.warned /\ ~c.isPartial /\ c.resolved = NoFiles /\ c.tmp = NoTar /\ c.split = FALSE
    BY FromSource DEF Fields
  <1>2. t \in Seq(Phases) /\ Len(t) = 1 /\ t[1] = "end"
    BY DEF Phases
  <1>3. t # <<>>
    OBVIOUS
  <1>4. Start(c)
    BY DEF LoadPackage
  <1> HIDE DEF t, c
  <1>5. Ordered("load", t)
    BY <1>2 DEF Ordered
  <1>6. Leads("load", "output", t[1]) /\ Leads("load", "open", t[1]) /\ Opens("load")
    BY <1>2 DEF Leads, Opens
  <1>7. \A k \in 1 .. Len(t) : t[k] = "end"
    BY <1>2
  <1> QED BY <1>1, <1>3, <1>4, <1>5, <1>6, <1>7, PlannedInv

LEMMA CreateInv ==
    ASSUME Inv, NEW c0 \in Creations, NEW s \in Sources,
           CreatePackage(c0.build, c0.key, c0.out, From(s), Opening(s.kind))
    PROVE  Inv'
  <1> DEFINE last == IF c0.out \in Remotes THEN "push" ELSE "archive"
             t == CreateTail(last)
             c == [From(s) EXCEPT !.op = "create", !.build = c0.build, !.sign = c0.key,
                     !.types = "metadata", !.strategy = "ifPossible",
                     !.split = (c0.out = "split"), !.dst = IF c0.out \in Remotes THEN c0.out ELSE "",
                     !.todo = Opening(s.kind) \o t]
  <1>1. /\ DOMAIN c = Fields /\ c.op = "create" /\ c.todo = Opening(s.kind) \o t /\ c.src = s.src
        /\ c.file = s.file /\ c.build = c0.build
        /\ c.step = 0 /\ ~c.warned /\ ~c.isPartial /\ c.resolved = NoFiles /\ c.tmp = NoTar /\ c.select = NoFilter
    BY FromSource DEF Fields
  <1>2. c.split = (c0.out = "split") /\ (c0.out \in Remotes => c.dst = c0.out)
    BY FromSource DEF Fields
  <1>3. Start(c)
    BY DEF CreatePackage, CreateTail
  <1>4. /\ Ordered("create", t) /\ t # <<>> /\ t[1] = "validate"
        /\ \A k \in 1 .. Len(t) : t[k] \notin {"untar", "pull", "resolve"} /\ (t[k] = "push" => last = "push")
    BY CreateTailOrdered
  <1>5. last = "push" => c.dst \in Remotes /\ ~c.split
    BY <1>2, PipelineAssumption
  <1> HIDE DEF t, c, last
  <1>6. Leads("create", "output", t[1]) /\ Leads("create", "open", t[1]) /\ Opens("create")
    BY <1>4 DEF Leads, Opens
  <1>7. c.build \in DOMAIN Builds /\ c.split \in BOOLEAN
    BY <1>1, <1>2, PipelineAssumption
  <1> QED BY <1>1, <1>3, <1>4, <1>5, <1>6, <1>7, PlannedInv

LEMMA CreateAnewInv ==
    ASSUME Inv, NEW c0 \in Creations,
           CreatePackage(c0.build, c0.key, c0.out, NoCommand, <<>>)
    PROVE  Inv'
  <1> DEFINE last == IF c0.out \in Remotes THEN "push" ELSE "archive"
             t == CreateTail(last)
             c == [NoCommand EXCEPT !.op = "create", !.build = c0.build, !.sign = c0.key,
                     !.types = "metadata", !.strategy = "ifPossible",
                     !.split = (c0.out = "split"), !.dst = IF c0.out \in Remotes THEN c0.out ELSE "",
                     !.todo = <<>> \o t]
  <1>1. /\ DOMAIN c = Fields /\ c.op = "create" /\ c.todo = <<>> \o t /\ c.build = c0.build
        /\ c.step = 0 /\ ~c.warned /\ ~c.isPartial /\ c.resolved = NoFiles /\ c.tmp = NoTar /\ c.select = NoFilter
    BY DEF Fields, NoCommand
  <1>2. c.split = (c0.out = "split") /\ (c0.out \in Remotes => c.dst = c0.out)
    BY DEF Fields, NoCommand
  <1>3. Start(c)
    BY DEF CreatePackage, CreateTail
  <1>4. /\ Ordered("create", t) /\ t # <<>> /\ t[1] = "validate" /\ Head(t) = "validate"
        /\ \A k \in 1 .. Len(t) : t[k] \notin {"untar", "pull", "resolve"} /\ (t[k] = "push" => last = "push")
    BY CreateTailOrdered
  <1>5. last = "push" => c.dst \in Remotes /\ ~c.split
    BY <1>2, PipelineAssumption
  <1> HIDE DEF t, c, last
  <1>6. t \in Seq(Phases) /\ Len(t) \in Nat
    BY <1>4 DEF Ordered
  <1>7. c.todo = t
    BY <1>1, <1>6
  <1>8. c.build \in DOMAIN Builds /\ c.split \in BOOLEAN
    BY <1>1, <1>2, PipelineAssumption
  <1>9. OpenedFirst("create", t)
    BY <1>4, <1>6 DEF OpenedFirst
  <1> QED BY <1>1, <1>3, <1>4, <1>5, <1>7, <1>8, <1>9, StartedInv

LEMMA SkeletonInv ==
    ASSUME Inv, NEW c0 \in Creations, NEW r \in Remotes, PublishSkeleton(c0.build, c0.key, r)
    PROVE  Inv'
  <1> DEFINE t == SkeletonPlan
             c == [NoCommand EXCEPT !.op = "skeleton", !.build = c0.build, !.sign = c0.key, !.dst = r,
                                    !.todo = t]
  <1>1. /\ DOMAIN c = Fields /\ c.op = "skeleton" /\ c.todo = t /\ c.build = c0.build /\ c.dst = r
        /\ c.step = 0 /\ ~c.warned /\ ~c.isPartial /\ c.resolved = NoFiles /\ c.tmp = NoTar /\ c.select = NoFilter
        /\ c.types = "all" /\ c.split = FALSE
    BY DEF Fields, NoCommand
  <1>2. Start(c)
    BY DEF PublishSkeleton, SkeletonPlan
  <1>3. t \in Seq(Phases) /\ Len(t) = 9 /\ t # <<>> /\ Head(t) = "skeleton"
    BY DEF SkeletonPlan, Phases
  <1>4. /\ t[1] = "skeleton" /\ t[2] = "docs" /\ t[3] = "component" /\ t[4] = "checksums"
        /\ t[5] = "metadata" /\ t[6] = "open" /\ t[7] = "sign" /\ t[8] = "push" /\ t[9] = "end"
    BY DEF SkeletonPlan
  <1> HIDE DEF t, c
  <1>5. ASSUME NEW k \in 1 .. 8 PROVE Leads("skeleton", t[k], t[k + 1])
    <2>1. k \in {1, 2, 3, 4, 5, 6, 7, 8} OBVIOUS
    <2> QED BY <2>1, <1>4 DEF Leads, Makes
  <1>6. ASSUME NEW k \in 1 .. 9 PROVE t[k] \notin {"pull", "resolve"}
    <2>1. k \in {1, 2, 3, 4, 5, 6, 7, 8, 9} OBVIOUS
    <2> QED BY <2>1, <1>4
  <1>7. Ordered("skeleton", t) /\ OpenedFirst("skeleton", t)
    BY <1>3, <1>4, <1>5 DEF Ordered, OpenedFirst
  <1>8. c.build \in DOMAIN Builds
    BY <1>1, PipelineAssumption
  <1> QED BY <1>1, <1>2, <1>3, <1>6, <1>7, <1>8, StartedInv

LEMMA CopyInv ==
    ASSUME Inv, NEW s \in Sources, NEW r \in Remotes, PublishFromOCI(s, r)
    PROVE  Inv'
  <1> DEFINE t == <<"resolve", "push", "end">>
             c == [From(s) EXCEPT !.op = "copy", !.dst = r, !.todo = t]
  <1>1. /\ DOMAIN c = Fields /\ c.op = "copy" /\ c.todo = t /\ c.dst = r /\ c.src = s.src
        /\ c.step = 0 /\ ~c.warned /\ ~c.isPartial /\ c.resolved = NoFiles /\ c.tmp = NoTar /\ c.select = NoFilter
        /\ c.types = "all" /\ c.split = FALSE
    BY FromSource DEF Fields
  <1>2. Start(c) /\ s.kind = "oci"
    BY DEF PublishFromOCI
  <1>3. t \in Seq(Phases) /\ Len(t) = 3 /\ t # <<>> /\ Head(t) = "resolve"
    BY DEF Phases
  <1>4. t[1] = "resolve" /\ t[2] = "push" /\ t[3] = "end"
    OBVIOUS
  <1> HIDE DEF t, c
  <1>5. ASSUME NEW k \in 1 .. 2 PROVE Leads("copy", t[k], t[k + 1])
    <2>1. k \in {1, 2} OBVIOUS
    <2> QED BY <2>1, <1>4 DEF Leads
  <1>7. Ordered("copy", t) /\ OpenedFirst("copy", t)
    BY <1>3, <1>4, <1>5 DEF Ordered, OpenedFirst
  <1>8. c.src \in Remotes
    BY <1>1, <1>2, SourceFacts
  <1> QED BY <1>1, <1>2, <1>3, <1>7, <1>8, StartedInv DEF Makes

LEMMA PublishInv ==
    ASSUME Inv, NEW s \in Sources, NEW sign, NEW r \in Remotes,
           PublishPackage(s, "ifPossible", NoKey, sign, r)
    PROVE  Inv'
  <1> DEFINE t2 == <<"sign", "push", "end">>
             t1 == IF s.kind = "oci" THEN <<"repack", "open">> ELSE <<>>
             t == t1 \o t2
             c == [From(s) EXCEPT !.op = "publish", !.strategy = "ifPossible", !.key = NoKey,
                     !.sign = sign, !.overwrite = TRUE, !.dst = r,
                     !.todo = Opening(s.kind) \o t1 \o t2]
  <1>1. /\ DOMAIN c = Fields /\ c.op = "publish" /\ c.todo = (Opening(s.kind) \o t1) \o t2 /\ c.dst = r
        /\ c.src = s.src /\ c.file = s.file
        /\ c.step = 0 /\ ~c.warned /\ ~c.isPartial /\ c.resolved = NoFiles /\ c.tmp = NoTar /\ c.select = NoFilter
        /\ c.types = "all" /\ c.split = FALSE
    BY FromSource DEF Fields
  <1>2. Start(c)
    BY DEF PublishPackage
  <1>3. s.kind \in Kinds
    BY SourceFacts
  <1>4. Opening(s.kind) \in Seq(Phases)
    BY <1>3, OpeningSteps DEF Opens
  <1>5. t2 \in Seq(Phases) /\ Len(t2) = 3 /\ t2[1] = "sign" /\ t2[2] = "push" /\ t2[3] = "end"
    BY DEF Phases
  <1>6. t1 \in Seq(Phases)
    <2>1. <<"repack", "open">> \in Seq(Phases)
      BY DEF Phases
    <2>2. <<>> \in Seq(Phases)
      OBVIOUS
    <2> QED BY <2>1, <2>2
  <1>7. s.kind = "oci" => Len(t1) = 2 /\ t1[1] = "repack" /\ t1[2] = "open"
    OBVIOUS
  <1>8. s.kind # "oci" => t1 = <<>>
    OBVIOUS
  <1> HIDE DEF c, t1, t2
  <1>9. c.todo = Opening(s.kind) \o t
    BY <1>1, <1>4, <1>5, <1>6
  <1>10. Ordered("publish", t2)
    <2>1. ASSUME NEW k \in 1 .. 2 PROVE Leads("publish", t2[k], t2[k + 1])
      <3>1. k \in {1, 2} OBVIOUS
      <3> QED BY <3>1, <1>5 DEF Leads
    <2> QED BY <1>5, <2>1 DEF Ordered
  <1>11. \A k \in 1 .. 3 : t2[k] \notin {"untar", "pull", "resolve"}
    <2>1. \A k \in 1 .. 3 : k \in {1, 2, 3} OBVIOUS
    <2> QED BY <2>1, <1>5
  <1>12. t2 # <<>>
    BY <1>5
  <1>13. CASE s.kind # "oci"
    <2>1. t = t2
      BY <1>13, <1>5, <1>8
    <2>2. Leads("publish", "output", t[1]) /\ Leads("publish", "open", t[1]) /\ Opens("publish")
      BY <2>1, <1>5 DEF Leads, Opens
    <2> HIDE DEF t
    <2> QED BY <1>1, <1>2, <1>5, <1>9, <1>10, <1>11, <1>12, <2>1, <2>2, PlannedInv
  <1>14. CASE s.kind = "oci"
    <2>1. /\ t \in Seq(Phases) /\ Len(t) = 5 /\ t[1] = "repack" /\ t[2] = "open"
          /\ t[3] = t2[1] /\ t[4] = t2[2] /\ t[5] = t2[3]
      <3>1. /\ t \in Seq(Phases) /\ Len(t) = Len(t1) + Len(t2)
            /\ \A k \in 1 .. Len(t1) : t[k] = t1[k]
            /\ \A k \in 1 .. Len(t2) : t[Len(t1) + k] = t2[k]
        BY <1>5, <1>6, ConcatSteps
      <3>2. Len(t1) = 2 /\ Len(t2) = 3
        BY <1>5, <1>7, <1>14
      <3>3. t[1] = t1[1] /\ t[2] = t1[2] /\ t[2 + 1] = t2[1] /\ t[2 + 2] = t2[2] /\ t[2 + 3] = t2[3]
        BY <3>1, <3>2
      <3> QED BY <1>7, <1>14, <3>1, <3>2, <3>3
    <2> HIDE DEF t
    <2>2. t # <<>>
      BY <2>1
    <2>3. Ordered("publish", t)
      <3>1. ASSUME NEW k \in 1 .. 4 PROVE Leads("publish", t[k], t[k + 1])
        <4>1. k \in {1, 2, 3, 4} OBVIOUS
        <4> QED BY <4>1, <2>1, <1>5 DEF Leads
      <3> QED BY <2>1, <3>1, <1>5 DEF Ordered
    <2>4. \A k \in 1 .. 5 : t[k] \notin {"untar", "pull", "resolve"}
      <3>1. \A k \in 1 .. 5 : k \in {1, 2, 3, 4, 5} OBVIOUS
      <3> QED BY <3>1, <2>1, <1>5
    <2>5. Leads("publish", "open", t[1]) /\ Opens("publish")
      BY <2>1 DEF Leads, Opens
    <2> QED BY <1>1, <1>2, <1>9, <1>14, <2>1, <2>2, <2>3, <2>4, <2>5, PlannedInv
  <1> QED BY <1>13, <1>14

LEMMA SignCommandInv ==
    ASSUME Inv, NEW s \in Sources, NEW sign, NEW overwrite, SignCommand(s, sign, overwrite)
    PROVE  Inv'
  <1> DEFINE last == IF s.kind = "oci" THEN "push" ELSE "archive"
             t == <<"signed", "sign", last, "end">>
             c == [From(s) EXCEPT !.op = "sign", !.sign = sign, !.overwrite = overwrite, !.dst = s.src,
                     !.todo = Opening(s.kind) \o t]
  <1>1. /\ DOMAIN c = Fields /\ c.op = "sign" /\ c.todo = Opening(s.kind) \o t /\ c.dst = s.src
        /\ c.src = s.src /\ c.file = s.file
        /\ c.step = 0 /\ ~c.warned /\ ~c.isPartial /\ c.resolved = NoFiles /\ c.tmp = NoTar /\ c.select = NoFilter
        /\ c.types = "all" /\ c.split = FALSE
    BY FromSource DEF Fields
  <1>2. Start(c)
    BY DEF SignCommand
  <1>3. last \in {"push", "archive"} /\ (last = "push" => s.src \in Remotes)
    BY SourceFacts
  <1> HIDE DEF last
  <1>4. t \in Seq(Phases) /\ Len(t) = 4 /\ t[1] = "signed" /\ t[2] = "sign" /\ t[3] = last /\ t[4] = "end"
    BY <1>3 DEF Phases
  <1> HIDE DEF c, t
  <1>5. Ordered("sign", t)
    <2>1. ASSUME NEW k \in 1 .. 3 PROVE Leads("sign", t[k], t[k + 1])
      <3>1. k \in {1, 2, 3} OBVIOUS
      <3> QED BY <3>1, <1>3, <1>4 DEF Leads
    <2> QED BY <1>4, <2>1 DEF Ordered
  <1>6. \A k \in 1 .. 4 : t[k] \notin {"untar", "pull", "resolve"} /\ (t[k] = "push" => last = "push")
    <2>1. \A k \in 1 .. 4 : k \in {1, 2, 3, 4} OBVIOUS
    <2> QED BY <2>1, <1>3, <1>4
  <1>7. t # <<>>
    <2>1. Len(t) # 0 BY <1>4
    <2> QED BY <2>1
  <1>8. Leads("sign", "output", t[1]) /\ Leads("sign", "open", t[1]) /\ Opens("sign")
    BY <1>4 DEF Leads, Opens
  <1> QED BY <1>1, <1>2, <1>3, <1>4, <1>5, <1>6, <1>7, <1>8, PlannedInv

LEMMA InvokeInv ==
    ASSUME Inv, Invoke
    PROVE  Inv'
  BY CreateInv, CreateAnewInv, SkeletonInv, LoadPackageInv, CopyInv, PublishInv, SignCommandInv
     DEF Invoke

-----------------------------------------------------------------------------
\* Directories.
LEMMA FileKinds ==
    /\ ZarfYAML[1] = "zarf.yaml" /\ Checksums[1] = "checksums.txt" /\ Bundle[1] = "zarf.bundle.sig"
    /\ Signature[1] = "zarf.yaml.sig" /\ IndexJSON[1] = "images" /\ SBOMTar[1] = "sboms.tar"
    /\ DocumentationTar[1] = "documentation.tar" /\ ValuesYAML[1] = "values.yaml"
    /\ \A n : ComponentTar(n)[1] = "components" /\ ImageBlob(n)[1] = "images/blobs"
  BY DEF ZarfYAML, Checksums, Bundle, Signature, IndexJSON, SBOMTar, DocumentationTar, ValuesYAML,
         ComponentTar, ImageBlob

LEMMA PutFacts ==
    ASSUME NEW d, NEW f, NEW content
    PROVE  LET e == Put(d, f, content) IN
           /\ DOMAIN e = DOMAIN d \cup {f} /\ e[f] = content
           /\ \A g \in DOMAIN d : g # f => e[g] = d[g]
  BY DEF Put

LEMMA WithoutFacts ==
    ASSUME NEW d, NEW F
    PROVE  LET e == Without(d, F) IN
           DOMAIN e = DOMAIN d \ F /\ \A g \in DOMAIN d \ F : e[g] = d[g]
  BY DEF Without

LEMMA PlainKept ==
    ASSUME NEW d, NEW e, Plain(d), ZarfYAML \in DOMAIN e, e[ZarfYAML] = d[ZarfYAML],
           Signature \notin DOMAIN e, Bundle \in DOMAIN e <=> Bundle \in DOMAIN d,
           Bundle \in DOMAIN d => DOMAIN e[Bundle] = DOMAIN d[Bundle] /\ e[Bundle].over = d[Bundle].over
    PROVE  Plain(e)
  BY DEF Plain, SignatureFits

\* The files of a directory that has no image more may be fewer, or more of a
\* kind that every package may have.
LEMMA KnownKept ==
    ASSUME NEW d, NEW e, NEW def, NEW new, Known(d, def),
           new.docs = def.docs, new.comps = def.comps, new.arch = def.arch,
           \A f \in DOMAIN e : f \in DOMAIN d \/ f \in Metadata \/ f = SBOMTar
                               \/ (f = DocumentationTar /\ def.docs) \/ f \in ComponentFiles(def.comps),
           IndexJSON \in DOMAIN e <=> IndexJSON \in DOMAIN d,
           IndexJSON \in DOMAIN d => e[IndexJSON] = d[IndexJSON],
           IsFiniteSet(TarFiles(e))
    PROVE  Known(e, new)
  <1>1. Entries(e) = Entries(d)
    BY DEF Entries
  <1>2. Entries(d) # {} => ImageLayers(e, Entries(e)) = ImageLayers(d, Entries(d))
    BY <1>1 DEF ImageLayers, Entries
  <1> QED BY <1>1, <1>2 DEF Known

LEMMA FewerTarFiles ==
    ASSUME NEW d, NEW e, IsFiniteSet(TarFiles(d)), \A f \in DOMAIN e : f[1] = "components" => f \in DOMAIN d
    PROVE  IsFiniteSet(TarFiles(e))
  <1>1. TarFiles(e) \subseteq TarFiles(d)
    BY DEF TarFiles
  <1> QED BY <1>1, FS_Subset

LEMMA FewerKnown ==
    ASSUME NEW d, NEW e, NEW def, Known(d, def), DOMAIN e \subseteq DOMAIN d,
           IndexJSON \in DOMAIN d => IndexJSON \in DOMAIN e /\ e[IndexJSON] = d[IndexJSON]
    PROVE  Known(e, def)
  <1>1. Entries(e) = Entries(d)
    BY DEF Entries
  <1>2. Entries(d) # {} => ImageLayers(e, Entries(e)) = ImageLayers(d, Entries(d))
    BY <1>1 DEF ImageLayers, Entries
  <1>3. IsFiniteSet(TarFiles(d))
    BY DEF Known
  <1>4. IsFiniteSet(TarFiles(e))
    BY <1>3, FewerTarFiles
  <1> QED BY <1>1, <1>2, <1>4 DEF Known

LEMMA RotKeeps ==
    ASSUME NEW d, Package(d), NEW e \in Rot(d)
    PROVE  Package(e)
  <1>0. Plain(d) /\ Known(d, d[ZarfYAML]) /\ IsFiniteSet(TarFiles(d)) /\ ZarfYAML \in DOMAIN d
        /\ Signature \notin DOMAIN d
    BY DEF Package, Known, Plain
  <1>1. CASE \E f \in DOMAIN d : f[1] = "components" /\ e = Put(d, f, 0)
    <2>1. PICK f \in DOMAIN d : f[1] = "components" /\ e = Put(d, f, 0)
      BY <1>1
    <2>2. DOMAIN e = DOMAIN d /\ \A g \in DOMAIN d : g # f => e[g] = d[g]
      BY <2>1 DEF Put
    <2>3. f # ZarfYAML /\ f # Bundle /\ f # IndexJSON
      BY <2>1, FileKinds
    <2>4. IsFiniteSet(TarFiles(e)) /\ e[ZarfYAML] = d[ZarfYAML]
      BY <1>0, <2>2, <2>3 DEF TarFiles
    <2>5. Plain(e)
      BY <1>0, <2>2, <2>3, <2>4, PlainKept
    <2>6. Known(e, e[ZarfYAML])
      BY <1>0, <2>2, <2>3, <2>4, FewerKnown
    <2> QED BY <2>5, <2>6 DEF Package
  <1>2. CASE \E f \in DOMAIN d : f[1] = "components" /\ e = Without(d, {f})
    <2>1. PICK f \in DOMAIN d : f[1] = "components" /\ e = Without(d, {f})
      BY <1>2
    <2>2. DOMAIN e = DOMAIN d \ {f} /\ \A g \in DOMAIN d \ {f} : e[g] = d[g]
      BY <2>1, WithoutFacts
    <2>3. f # ZarfYAML /\ f # Bundle /\ f # IndexJSON
      BY <2>1, FileKinds
    <2>4. IsFiniteSet(TarFiles(e)) /\ e[ZarfYAML] = d[ZarfYAML]
      BY <1>0, <2>2, <2>3, FewerTarFiles
    <2>5. Plain(e)
      BY <1>0, <2>2, <2>3, <2>4, PlainKept
    <2>6. Known(e, e[ZarfYAML])
      BY <1>0, <2>2, <2>3, <2>4, FewerKnown
    <2> QED BY <2>5, <2>6 DEF Package
  <1>3. CASE Bundle \in DOMAIN d /\ e = Put(d, Bundle, [d[Bundle] EXCEPT !.readable = FALSE])
    <2>2. /\ DOMAIN e = DOMAIN d /\ \A g \in DOMAIN d : g # Bundle => e[g] = d[g]
          /\ e[Bundle] = [d[Bundle] EXCEPT !.readable = FALSE]
      BY <1>3 DEF Put
    <2>3. ZarfYAML # Bundle /\ Bundle # IndexJSON
      BY FileKinds
    <2>4. IsFiniteSet(TarFiles(e)) /\ e[ZarfYAML] = d[ZarfYAML]
      BY <1>0, <2>2, <2>3 DEF TarFiles
    <2>5. DOMAIN e[Bundle] = DOMAIN d[Bundle] /\ e[Bundle].over = d[Bundle].over
      BY <1>0, <1>3, <2>2 DEF Plain
    <2>6. Plain(e)
      BY <1>0, <1>3, <2>2, <2>3, <2>4, <2>5, PlainKept
    <2>7. Known(e, e[ZarfYAML])
      BY <1>0, <2>2, <2>3, <2>4, FewerKnown
    <2> QED BY <2>6, <2>7 DEF Package
  <1> QED BY <1>1, <1>2, <1>3 DEF Rot

LEMMA EnvironmentInv ==
    ASSUME Inv, Environment
    PROVE  Inv'
  <1>1. cmd' = cmd /\ dir' = dir /\ mem' = mem /\ registry' = registry /\ cmd.todo = <<>>
    BY DEF Environment, TarRots, PartLost
  <1>2. Control' /\ cmd'.todo = <<>>
    BY <1>1 DEF Inv, Control, At
  <1>3. Stores'
    <2>1. CASE TarRots
      <3>1. PICK name \in DOMAIN tar : \E d \in Rot(tar[name].files) : tar' = [tar EXCEPT ![name].files = d]
        BY <2>1 DEF TarRots
      <3>2. PICK d \in Rot(tar[name].files) : tar' = [tar EXCEPT ![name].files = d]
        BY <3>1
      <3>3. GoodTar(tar[name])
        BY DEF Inv, Stores
      <3>4. /\ DOMAIN tar' = DOMAIN tar /\ \A f \in DOMAIN tar : f # name => tar'[f] = tar[f]
            /\ DOMAIN tar'[name] = {"state", "files"} /\ tar'[name].state = tar[name].state
            /\ tar'[name].files = d
        BY <3>2, <3>3 DEF GoodTar
      <3>5. GoodTar(tar'[name])
        BY <3>2, <3>3, <3>4, RotKeeps DEF GoodTar
      <3>6. parts' = parts
        BY <2>1 DEF TarRots
      <3> QED BY <1>1, <3>4, <3>5, <3>6 DEF Inv, Stores
    <2>2. CASE PartLost
      <3>1. PICK name \in DOMAIN parts : \E k \in DOMAIN parts[name].chunks :
                parts' = [parts EXCEPT ![name].chunks = Without(@, {k})]
        BY <2>2 DEF PartLost
      <3>2. PICK k \in DOMAIN parts[name].chunks :
                parts' = [parts EXCEPT ![name].chunks = Without(parts[name].chunks, {k})]
        BY <3>1
      <3>3. DOMAIN parts[name] = {"count", "chunks"}
        BY DEF Inv, Stores
      <3>4. /\ DOMAIN parts' = DOMAIN parts /\ \A f \in DOMAIN parts : f # name => parts'[f] = parts[f]
            /\ DOMAIN parts'[name] = {"count", "chunks"}
            /\ parts'[name].chunks = Without(parts[name].chunks, {k})
        BY <3>2, <3>3
      <3>5. \A j \in DOMAIN parts'[name].chunks : Package(parts'[name].chunks[j])
        <4>1. DOMAIN parts'[name].chunks = DOMAIN parts[name].chunks \ {k}
              /\ \A j \in DOMAIN parts[name].chunks \ {k} : parts'[name].chunks[j] = parts[name].chunks[j]
          BY <3>4 DEF Without
        <4> QED BY <4>1 DEF Inv, Stores
      <3>6. tar' = tar
        BY <2>2 DEF PartLost
      <3> QED BY <1>1, <3>4, <3>5, <3>6 DEF Inv, Stores
    <2> QED BY <2>1, <2>2 DEF Environment
  <1>4. dir' = NoFiles /\ ZarfYAML \notin DOMAIN dir' /\ Blank'
    BY <1>1 DEF Inv, Fetching, Blank, NoFiles
  <1> QED BY <1>2, <1>3, <1>4 DEF Inv, Fetching, Making, Opened, Using, InUse, Pushing, Archiving, Ended,
                      SignStarted, At, Step, Succeeded

-----------------------------------------------------------------------------
\* Steps that fetch a package.
LEMMA StoresKept ==
    ASSUME Inv, tar' = tar, parts' = parts, registry' = registry
    PROVE  Stores'
  BY DEF Inv, Stores

LEMMA RefusedInv ==
    ASSUME Inv, Refused, cmd.todo # <<>>, ~Step("sign", 2), Head(cmd.todo) # "end", dir' = dir, Stores'
    PROVE  Inv'
  <1>1. /\ Options /\ Marks /\ cmd'.todo = <<"end">> /\ cmd'.step = 0 /\ cmd'.result = "failed"
    BY RefusedCmd DEF Inv, Control
  <1>2. Control'
    BY <1>1, RefusedControl DEF Inv
  <1>3. ZarfYAML \in DOMAIN dir' /\ ~cmd'.warned => Plain(dir)'
    BY <1>1 DEF Inv, Ended, Marks
  <1> QED BY <1>1, <1>2, <1>3, EndsFailed

LEMMA InitInv ==
    ASSUME Init
    PROVE  Inv
  <1>1. cmd = NoCommand /\ dir = NoFiles /\ mem = NoLayout /\ tar = NoFiles /\ parts = NoFiles
        /\ registry = [r \in Remotes |-> [blobs |-> {}, index |-> NoFiles]]
    BY DEF Init, LayoutInit, ArchiveInit, RegistryInit
  <1>2. /\ DOMAIN cmd = Fields /\ cmd.todo = <<>> /\ cmd.op = "none" /\ cmd.split = FALSE
        /\ cmd.select = NoFilter /\ cmd.types = "all" /\ cmd.step = 0 /\ cmd.warned = FALSE
        /\ cmd.isPartial = FALSE /\ cmd.resolved = NoFiles /\ cmd.tmp = NoTar
    BY <1>1 DEF NoCommand, Fields
  <1>3. <<>> \in Seq(Phases) /\ Len(<<>>) = 0
    OBVIOUS
  <1>8. Ordered(cmd.op, cmd.todo) /\ OpenedFirst(cmd.op, cmd.todo)
    BY <1>2, <1>3 DEF Ordered, OpenedFirst
  <1>4. Control
    <2>1. \A k \in 1 .. Len(cmd.todo) : FALSE
      BY <1>2, <1>3
    <2>2. cmd.split \in BOOLEAN /\ (cmd.split => cmd.op = "create")
      BY <1>2, Zenon
    <2>3. cmd.warned => At("end")
      BY <1>2, Zenon
    <2>4. cmd.step \in Int
      BY <1>2
    <2> QED BY <1>2, <1>8, <2>1, <2>2, <2>3, <2>4 DEF Control
  <1>5. DOMAIN NoFiles = {} /\ ZarfYAML \notin DOMAIN dir
    BY <1>1 DEF NoFiles
  <1>6. Stores
    BY <1>1, <1>5 DEF Stores
  <1>7. Blank
    BY <1>1, <1>2 DEF Blank, GoodTar, NoTar
  <1> QED BY <1>2, <1>4, <1>5, <1>6, <1>7 DEF Inv, Fetching, Making, Opened, Using, InUse, Pushing,
                      Archiving, Ended, SignStarted, At, Step, Succeeded

LEMMA CleanupInv ==
    ASSUME Inv, Cleanup
    PROVE  Inv'
  <1>1. dir' = NoFiles /\ mem' = NoLayout /\ tar' = tar /\ parts' = parts /\ registry' = registry
    BY DEF Cleanup
  <1>2. /\ DOMAIN cmd' = Fields /\ cmd'.todo = <<>> /\ cmd'.split = FALSE
        /\ cmd'.select = NoFilter /\ cmd'.types = "all" /\ cmd'.step = 0 /\ cmd'.warned = FALSE
        /\ cmd'.isPartial = FALSE /\ cmd'.resolved = NoFiles /\ cmd'.tmp = NoTar
    BY DEF Cleanup, NoCommand, Fields
  <1>3. <<>> \in Seq(Phases) /\ Len(<<>>) = 0
    OBVIOUS
  <1>8. Ordered(cmd'.op, cmd'.todo) /\ OpenedFirst(cmd'.op, cmd'.todo)
    BY <1>2, <1>3 DEF Ordered, OpenedFirst
  <1>4. Control'
    <2>1. \A k \in 1 .. Len(cmd'.todo) : FALSE
      BY <1>2, <1>3
    <2>2. cmd'.split \in BOOLEAN /\ (cmd'.split => cmd'.op = "create")
      BY <1>2, Zenon
    <2>3. cmd'.warned => At("end")'
      BY <1>2, Zenon
    <2>4. cmd'.step \in Int
      BY <1>2
    <2> QED BY <1>2, <1>8, <2>1, <2>2, <2>3, <2>4 DEF Control
  <1>5. ZarfYAML \notin DOMAIN dir'
    BY <1>1 DEF NoFiles
  <1>6. Stores'
    BY <1>1, StoresKept
  <1>7. Blank'
    BY <1>1, <1>2 DEF Blank, GoodTar, NoTar
  <1> QED BY <1>2, <1>4, <1>5, <1>6, <1>7 DEF Inv, Fetching, Making, Opened, Using, InUse, Pushing,
                      Archiving, Ended, SignStarted, At, Step, Succeeded

LEMMA OpenTarInv ==
    ASSUME Inv, OpenTar, registry' = registry
    PROVE  Inv'
  <1>1. /\ Control /\ cmd.todo # <<>> /\ Head(cmd.todo) = "tarball" /\ cmd.step = 0
    BY DEF Inv, Control, OpenTar, At
  <1>2. /\ Options /\ cmd'.todo = Tail(cmd.todo) /\ cmd'.step = 0 /\ Marks /\ cmd'.tmp = tar[cmd.file]
        /\ cmd'.isPartial = cmd.isPartial /\ cmd'.resolved = cmd.resolved
    BY <1>1 DEF OpenTar, Control, Options, Marks, Fields
  <1>3. Control' /\ cmd'.todo # <<>> /\ Head(cmd'.todo) = "untar"
    BY <1>1, <1>2, AdvanceControl DEF Leads, Marks
  <1>4. dir' = dir /\ mem' = mem /\ tar' = tar /\ parts' = parts
    BY DEF OpenTar, archiveVars
  <1>5. GoodTar(tar[cmd.file]) /\ Blank
    BY <1>1 DEF Inv, Fetching, Stores, At
  <1>6. Fetching'
    BY <1>2, <1>3, <1>4, <1>5 DEF Fetching, Blank, At
  <1> QED BY <1>3, <1>4, <1>6, StoresKept, EntersFetching

LEMMA ReassembleInv ==
    ASSUME Inv, Reassemble, registry' = registry
    PROVE  Inv'
  <1>1. Control /\ cmd.todo # <<>> /\ Head(cmd.todo) = "split" /\ cmd.step = 0
    BY DEF Inv, Reassemble, At, Step
  <1>2. dir' = dir /\ mem' = mem /\ tar' = tar /\ parts' = parts /\ Stores'
    BY StoresKept DEF Reassemble, archiveVars
  <1>3. CASE Refused
    BY <1>1, <1>2, <1>3, RefusedInv DEF Step, At
  <1>4. CASE cmd' = [cmd EXCEPT !.step = 1, !.tmp = Joined(parts[cmd.file].chunks)]
    <2>1. /\ Options /\ cmd'.todo = cmd.todo /\ cmd'.step = 1 /\ Marks
          /\ cmd'.tmp = Joined(parts[cmd.file].chunks)
          /\ cmd'.isPartial = cmd.isPartial /\ cmd'.resolved = cmd.resolved
      BY <1>1, <1>4 DEF Control, Options, Marks, Fields
    <2>2. Control'
      BY <1>1, <2>1, StayControl DEF Marks
    <2>3. Blank /\ cmd.file \in DOMAIN parts
      BY <1>1 DEF Inv, Fetching, At
    <2>4. GoodTar(Joined(parts[cmd.file].chunks))
      BY <2>3 DEF Joined, GoodTar, HalfTar, Inv, Stores
    <2>5. Fetching'
      BY <1>1, <1>2, <2>1, <2>3, <2>4 DEF Fetching, Blank, At, Options
    <2> QED BY <1>1, <1>2, <2>1, <2>2, <2>5, EntersFetching
  <1> QED BY <1>3, <1>4 DEF Reassemble

LEMMA RemovePartsInv ==
    ASSUME Inv, RemoveParts, registry' = registry
    PROVE  Inv'
  <1>1. Control /\ cmd.todo # <<>> /\ Head(cmd.todo) = "split" /\ cmd.step = 1 /\ Done
    BY DEF Inv, RemoveParts, At, Step
  <1>2. /\ Options /\ Results /\ Marks /\ cmd'.todo = Tail(cmd.todo) /\ cmd'.step = 0
    BY <1>1, DoneCmd DEF Control
  <1>3. Control' /\ cmd'.todo # <<>> /\ Head(cmd'.todo) = "untar"
    BY <1>1, <1>2, AdvanceControl DEF Leads, Marks
  <1>4. dir' = dir /\ mem' = mem /\ tar' = tar /\ parts' = Without(parts, {cmd.file})
    BY DEF RemoveParts
  <1>5. DOMAIN parts' \subseteq DOMAIN parts /\ \A f \in DOMAIN parts' : parts'[f] = parts[f]
    BY <1>4 DEF Without
  <1>6. Stores'
    BY <1>4, <1>5 DEF Inv, Stores
  <1>7. GoodTar(cmd.tmp) /\ Blank
    BY <1>1 DEF Inv, Fetching, Blank, At
  <1>8. Fetching'
    BY <1>2, <1>3, <1>4, <1>7 DEF Fetching, Blank, At, Results
  <1> QED BY <1>3, <1>6, <1>8, EntersFetching

LEMMA NotReopened ==
    ASSUME Control, Control', Options, cmd.todo # <<>>, Head(cmd.todo) \in {"untar", "pull"},
           cmd'.todo = Tail(cmd.todo), cmd'.todo # <<>>, Head(cmd'.todo) = "open"
    PROVE  ~Reopened'
  <1>1. Ordered(cmd'.op, cmd'.todo) /\ Ordered(cmd.op, cmd.todo)
    BY DEF Control
  <1>2. /\ Len(cmd'.todo) \in Nat /\ Len(cmd'.todo) = Len(cmd.todo) - 1 /\ Len(cmd.todo) \in Nat
        /\ cmd.todo[1] = Head(cmd.todo) /\ cmd'.todo[1] = "open"
        /\ \A k \in 1 .. Len(cmd.todo) - 1 : cmd'.todo[k] = cmd.todo[k + 1]
    BY <1>1 DEF Ordered
  <1>3. Len(cmd'.todo) # 0 /\ Len(cmd'.todo) # 1
    BY <1>1, <1>2 DEF Ordered
  <1>4. 2 \in 1 .. Len(cmd.todo) - 1 /\ 1 \in 1 .. Len(cmd.todo) - 2
    <2> DEFINE m == Len(cmd'.todo)
               n == Len(cmd.todo)
    <2>1. m \in Nat /\ n \in Nat /\ m = n - 1 /\ m # 0 /\ m # 1
      BY <1>2, <1>3
    <2> HIDE DEF m, n
    <2>2. 2 \in 1 .. n - 1 /\ 1 \in 1 .. n - 2
      BY <2>1
    <2> QED BY <2>2 DEF n
  <1>5. cmd'.todo[2] = cmd.todo[3]
    BY <1>2, <1>4
  <1>6. cmd.op = "create" => cmd.todo[3] # "sign"
    <2>1. OpenedFirst(cmd.op, cmd.todo)
      BY DEF Control
    <2> QED BY <1>2, <1>4, <2>1 DEF OpenedFirst
  <1> QED BY <1>5, <1>6 DEF Reopened, Options

LEMMA DecompressInv ==
    ASSUME Inv, Decompress, registry' = registry
    PROVE  Inv'
  <1>1. Control /\ cmd.todo # <<>> /\ Head(cmd.todo) = "untar"
    BY DEF Inv, Decompress, At
  <1>2. mem' = mem /\ tar' = tar /\ parts' = parts /\ Stores'
    BY StoresKept DEF Decompress, archiveVars
  <1>3. CASE Refused /\ dir' = dir
    BY <1>1, <1>2, <1>3, RefusedInv DEF Step, At
  <1>4. CASE cmd.tmp.state = "whole" /\ dir' = cmd.tmp.files /\ Done
    <2>1. /\ Options /\ Results /\ Marks /\ cmd'.todo = Tail(cmd.todo) /\ cmd'.step = 0
      BY <1>1, <1>4, DoneCmd DEF Control
    <2>2. Control' /\ cmd'.todo # <<>> /\ Head(cmd'.todo) = "open"
      BY <1>1, <2>1, AdvanceControl DEF Leads, Marks
    <2>3. Package(dir') /\ Plain(dir)'
      BY <1>1, <1>4 DEF Inv, Fetching, Blank, GoodTar, At, Package
    <2>4. ~cmd'.isPartial /\ GoodTar(cmd'.tmp)
      BY <1>1, <2>1 DEF Inv, Fetching, Blank, At, Results
    <2>5. ~Reopened'
      BY <1>1, <2>1, <2>2, NotReopened
    <2>6. Opened'
      BY <2>2, <2>3, <2>4, <2>5 DEF Opened, At, Package
    <2> QED BY <1>2, <2>2, <2>3, <2>6, EntersOpen
  <1> QED BY <1>3, <1>4 DEF Decompress

LEMMA CoversKept ==
    ASSUME NEW comps, NEW c, NEW e, Covers(comps, c), e.build = c.build, e.previous = c.previous
    PROVE  Covers(comps, e)
  BY DEF Covers

LEMMA MadeKept ==
    ASSUME NEW def, NEW d, NEW c, NEW e, Made(def, d, c), e.build = c.build, e.previous = c.previous
    PROVE  Made(def, d, e)
  BY CoversKept DEF Made

LEMMA OutputStores ==
    ASSUME Inv, NEW t, GoodTar(t), NEW f, tar' = Put(tar, f, t), parts' = parts, registry' = registry
    PROVE  Stores'
  <1>1. DOMAIN tar' = DOMAIN tar \cup {f} /\ tar'[f] = t /\ \A g \in DOMAIN tar : g # f => tar'[g] = tar[g]
    BY DEF Put
  <1> QED BY <1>1 DEF Inv, Stores

LEMMA HalfTarGood == GoodTar(HalfTar)
  BY DEF GoodTar, HalfTar

LEMMA CopyToOutputInv ==
    ASSUME Inv, CopyToOutput, registry' = registry
    PROVE  Inv'
  <1>1. Control /\ cmd.todo # <<>> /\ Head(cmd.todo) = "output" /\ Done
    BY DEF Inv, CopyToOutput, At
  <1>2. Options /\ Results /\ Marks /\ cmd'.todo = Tail(cmd.todo) /\ cmd'.step = 0 /\ cmd'.result = cmd.result
    BY <1>1, DoneCmd DEF Control
  <1>3. Control' /\ cmd'.todo # <<>> /\ Leads(cmd.op, "output", Head(cmd'.todo))
    BY <1>1, <1>2, AdvanceControl DEF Marks
  <1>4. dir' = dir /\ mem' = mem /\ parts' = parts /\ tar' = Put(tar, cmd.file, cmd.tmp)
    BY DEF CopyToOutput
  <1>5. Stores'
    BY <1>1, <1>4, OutputStores DEF Inv, Fetching, At
  <1>6. ZarfYAML \in DOMAIN dir => Plain(dir)
    BY <1>1 DEF Inv, Ended, Step, At, Control
  <1>7. CASE cmd.op = "load"
    <2>1. Head(cmd'.todo) = "end"
      BY <1>3, <1>7 DEF Leads, Opens
    <2>2. Opened'
      BY <1>1, <1>2, <1>3, <1>4, <1>7, <2>1 DEF Inv, Opened, Options, Results, Reopened, At
    <2>3. Ended'
      BY <1>2, <1>3, <1>4, <1>6, <1>7, <2>1 DEF Ended, Options, Succeeded, At
    <2> QED BY <1>3, <1>5, <2>1, <2>2, <2>3, EntersEnd
  <1>8. CASE cmd.op = "create"
    <2>1. Head(cmd'.todo) = "validate"
      BY <1>3, <1>8 DEF Leads, Opens
    <2>2. Opened'
      BY <1>1, <1>2, <1>8, <2>1 DEF Inv, Fetching, Opened, At, Options, Results
    <2> QED BY <1>3, <1>4, <1>5, <1>6, <2>1, <2>2, EntersOpen
  <1>9. CASE cmd.op \in {"publish", "sign"}
    <2>1. Head(cmd'.todo) \in {"sign", "signed"}
      BY <1>3, <1>9 DEF Leads, Opens
    <2>2. /\ DOMAIN mem = LayoutFields /\ Sound(dir) /\ mem.def = dir[ZarfYAML]
          /\ mem.pushable => SameFiles(mem.digest, dir)
      BY <1>1, <1>9 DEF Inv, Using, InUse, SignStarted, At
    <2>3. Using'
      BY <1>2, <1>4, <1>9, <2>1, <2>2 DEF Using, InUse, SignStarted, At, Step, Options
    <2>4. Pushing' /\ Archiving'
      BY <2>1 DEF Pushing, Archiving, At
    <2> QED BY <1>3, <1>4, <1>5, <1>6, <2>1, <2>3, <2>4, EntersUse
  <1> QED BY <1>3, <1>7, <1>8, <1>9 DEF Leads, Opens

LEMMA CopyToOutputFailsInv ==
    ASSUME Inv, CopyToOutputFails, registry' = registry
    PROVE  Inv'
  <1>1. /\ cmd.todo # <<>> /\ Head(cmd.todo) = "output" /\ Refused /\ dir' = dir
        /\ tar' = Put(tar, cmd.file, HalfTar) /\ parts' = parts
    BY DEF CopyToOutputFails, At
  <1>2. Stores'
    BY <1>1, HalfTarGood, OutputStores
  <1> QED BY <1>1, <1>2, RefusedInv DEF Step, At

LEMMA StepFailsInv ==
    ASSUME Inv, StepFails
    PROVE  Inv'
  <1>1. /\ cmd.todo # <<>> /\ Head(cmd.todo) \notin {"end", "sign"} /\ Refused /\ dir' = dir
        /\ tar' = tar /\ parts' = parts /\ registry' = registry
    BY DEF StepFails, At, stores
  <1> QED BY <1>1, RefusedInv, StoresKept DEF Step, At

LEMMA RemovePartsFailsInv ==
    ASSUME Inv, RemovePartsFails
    PROVE  Inv'
  <1>1. /\ cmd.todo # <<>> /\ Head(cmd.todo) = "split" /\ Refused /\ dir' = dir
        /\ tar' = tar /\ parts' = [parts EXCEPT ![cmd.file].count = 0] /\ registry' = registry
    BY DEF RemovePartsFails, At, Step
  <1>2. cmd.file \in DOMAIN parts
    BY <1>1 DEF Inv, Fetching, At
  <1>3. DOMAIN parts[cmd.file] = {"count", "chunks"}
    BY <1>2 DEF Inv, Stores
  <1>4. /\ DOMAIN parts' = DOMAIN parts /\ \A f \in DOMAIN parts : f # cmd.file => parts'[f] = parts[f]
        /\ DOMAIN parts'[cmd.file] = {"count", "chunks"}
        /\ parts'[cmd.file].chunks = parts[cmd.file].chunks
    BY <1>1, <1>2, <1>3
  <1>5. Stores'
    BY <1>1, <1>2, <1>4 DEF Inv, Stores
  <1> QED BY <1>1, <1>5, RefusedInv DEF Step, At

LEMMA RepackInv ==
    ASSUME Inv, Repack
    PROVE  Inv'
  <1>1. Control /\ cmd.todo # <<>> /\ Head(cmd.todo) = "repack" /\ cmd.step = 0
    BY DEF Inv, Repack, At, Control
  <1>2. /\ Options /\ Marks /\ cmd'.todo = Tail(cmd.todo) /\ cmd'.step = 0 /\ ~cmd'.isPartial /\ cmd'.tmp = cmd.tmp
    BY <1>1 DEF Control, Repack, Options, Marks, Fields
  <1>3. Control' /\ cmd'.todo # <<>> /\ Head(cmd'.todo) = "open" /\ cmd.op = "publish"
    BY <1>1, <1>2, AdvanceControl DEF Leads, Marks
  <1>4. dir' = dir /\ tar' = tar /\ parts' = parts /\ registry' = registry
    BY DEF Repack, stores
  <1>5. Package(dir) /\ GoodTar(cmd.tmp)
    BY <1>1 DEF Inv, Opened, At
  <1>6. Opened'
    BY <1>2, <1>3, <1>4, <1>5 DEF Opened, At, Package, Reopened, Options
  <1> QED BY <1>3, <1>4, <1>5, <1>6, StoresKept, EntersOpen DEF Package

LEMMA CheckSignedInv ==
    ASSUME Inv, CheckSigned
    PROVE  Inv'
  <1>1. Control /\ cmd.todo # <<>> /\ Head(cmd.todo) = "signed"
    BY DEF Inv, CheckSigned, At
  <1>2. dir' = dir /\ mem' = mem /\ tar' = tar /\ parts' = parts /\ registry' = registry
    BY DEF CheckSigned, stores
  <1>3. CASE Refused
    BY <1>1, <1>2, <1>3, RefusedInv, StoresKept DEF Step, At
  <1>4. CASE Done
    <2>1. Options /\ Results /\ Marks /\ cmd'.todo = Tail(cmd.todo) /\ cmd'.step = 0
      BY <1>1, <1>4, DoneCmd DEF Control
    <2>2. Control' /\ cmd'.todo # <<>> /\ Head(cmd'.todo) = "sign" /\ cmd.op = "sign"
      BY <1>1, <2>1, AdvanceControl DEF Leads, Marks
    <2>3. /\ DOMAIN mem = LayoutFields /\ Sound(dir) /\ mem.def = dir[ZarfYAML]
          /\ mem.pushable => SameFiles(mem.digest, dir)
      BY <1>1, <2>2 DEF Inv, Using, InUse, SignStarted, At
    <2>4. Using'
      BY <1>2, <2>1, <2>2, <2>3 DEF Using, InUse, SignStarted, At, Step, Options
    <2>5. Pushing' /\ Archiving'
      BY <2>2 DEF Pushing, Archiving, At
    <2> QED BY <1>2, <2>2, <2>3, <2>4, <2>5, StoresKept, EntersUse DEF Sound, Package
  <1> QED BY <1>3, <1>4 DEF CheckSigned

-----------------------------------------------------------------------------
\* Pulling and opening.
LEMMA FilteredFacts ==
    ASSUME NEW def, NEW names, DOMAIN def = DefFields
    PROVE  LET e == Filtered(def, names) IN
           /\ DOMAIN e = DefFields /\ e.build = def.build /\ e.arch = def.arch /\ e.version = def.version
           /\ e.sum = def.sum /\ e.signed = def.signed /\ e.prov = def.prov /\ e.docs = def.docs
           /\ \A k \in DOMAIN e.comps : k \in DOMAIN def.comps /\ e.comps[k] = def.comps[k]
           /\ names = NoFilter => e = def
  BY DEF Filtered, DefFields

LEMMA CompleteWithin ==
    ASSUME NEW d, NEW e, NEW comps, NEW some, NEW types, NEW build, CompleteIn(d, comps, "all", build),
           \A f \in DOMAIN d : f \in DOMAIN e /\ e[f] = d[f],
           \A k \in DOMAIN some : k \in DOMAIN comps /\ some[k] = comps[k]
    PROVE  CompleteIn(e, some, types, build)
  <1> SUFFICES ASSUME NEW k \in DOMAIN some
               PROVE  /\ some[k].tar /\ types # "metadata" =>
                            ComponentTar(some[k].name) \in DOMAIN e /\ e[ComponentTar(some[k].name)] = build
                      /\ types = "all" => \A i \in some[k].images \cup some[k].archives : ImageIn(e, i)
    BY DEF CompleteIn, ImageIn
  <1>1. k \in DOMAIN comps /\ some[k] = comps[k]
    OBVIOUS
  <1>2. comps[k].tar => ComponentTar(comps[k].name) \in DOMAIN d /\ d[ComponentTar(comps[k].name)] = build
    BY <1>1 DEF CompleteIn
  <1>3. ASSUME NEW i \in comps[k].images \cup comps[k].archives PROVE ImageIn(e, i)
    <2>1. ImageIn(d, i)
      BY <1>1, <1>3 DEF CompleteIn, ImageIn
    <2> QED BY <2>1 DEF ImageIn
  <1> QED BY <1>1, <1>2, <1>3

\* What is pulled for some components has all that they need.
LEMMA PulledComplete ==
    ASSUME NEW m, NEW comps, NEW all, NEW types, NEW build, NEW e, CompleteIn(m, all, "all", build),
           \A k \in DOMAIN comps : k \in DOMAIN all /\ comps[k] = all[k],
           e = [f \in AssembleLayers(m, comps, types) |-> m[f]]
    PROVE  CompleteIn(e, comps, types, build)
  <1>1. DOMAIN e = AssembleLayers(m, comps, types) /\ \A f \in AssembleLayers(m, comps, types) : e[f] = m[f]
    OBVIOUS
  <1> SUFFICES ASSUME NEW k \in DOMAIN comps
               PROVE  /\ comps[k].tar /\ types # "metadata" =>
                            ComponentTar(comps[k].name) \in DOMAIN e /\ e[ComponentTar(comps[k].name)] = build
                      /\ types = "all" => \A i \in comps[k].images \cup comps[k].archives : ImageIn(e, i)
    BY DEF CompleteIn, ImageIn
  <1>2. k \in DOMAIN all /\ comps[k] = all[k]
    OBVIOUS
  <1>3. comps[k].tar /\ types # "metadata" =>
            ComponentTar(comps[k].name) \in DOMAIN e /\ e[ComponentTar(comps[k].name)] = build
    <2>1. comps[k].tar => ComponentTar(comps[k].name) \in DOMAIN m /\ m[ComponentTar(comps[k].name)] = build
      BY <1>2 DEF CompleteIn
    <2>2. types # "metadata" /\ ComponentTar(comps[k].name) \in DOMAIN m =>
              ComponentTar(comps[k].name) \in AssembleLayers(m, comps, types)
      BY DEF AssembleLayers
    <2> QED BY <1>1, <2>1, <2>2
  <1>4. ASSUME types = "all", NEW i \in comps[k].images \cup comps[k].archives PROVE ImageIn(e, i)
    <2>1. ImageIn(m, i)
      BY <1>2, <1>4 DEF CompleteIn, ImageIn
    <2>2. i \in ImagesOf(comps)
      BY <1>4 DEF ImagesOf
    <2>3. DOMAIN m \cap ImageLayers(m, ImagesOf(comps)) \subseteq AssembleLayers(m, comps, types)
      BY <1>4, <2>2 DEF AssembleLayers
    <2>4. IndexJSON \in ImageLayers(m, ImagesOf(comps))
      BY DEF ImageLayers
    <2>5. \A b \in ImageBlobs[i][m[IndexJSON][i].rev][m[IndexJSON][i].whole] :
              ImageBlob(b) \in ImageLayers(m, ImagesOf(comps))
      BY <2>2 DEF ImageLayers
    <2>6. IndexJSON \in DOMAIN e /\ e[IndexJSON] = m[IndexJSON]
      BY <1>1, <2>1, <2>3, <2>4 DEF ImageIn
    <2> QED BY <1>1, <2>1, <2>3, <2>5, <2>6 DEF ImageIn
  <1> QED BY <1>3, <1>4

\* All that a package has is pulled when nothing is left out.
LEMMA PulledAll ==
    ASSUME NEW m, NEW types, Known(m, m[ZarfYAML]),
           types \in {"all", "noImages"}, m[ZarfYAML].arch # "skeleton" => types = "all"
    PROVE  AssembleLayers(m, m[ZarfYAML].comps, types) = DOMAIN m
  <1> DEFINE def == m[ZarfYAML]
             layers == AssembleLayers(m, def.comps, types)
  <1>1. layers \subseteq DOMAIN m
    BY DEF AssembleLayers
  <1>2. ASSUME NEW f \in DOMAIN m PROVE f \in layers
    <2>1. CASE f \in Metadata \cup {SBOMTar} \cup (IF def.docs THEN {DocumentationTar} ELSE {})
                     \cup ComponentFiles(def.comps)
      BY <2>1 DEF AssembleLayers, ComponentFiles
    <2>2. CASE Entries(m) # {} /\ f \in ImageLayers(m, Entries(m))
      <3>1. types = "all" /\ ImagesOf(def.comps) # {} /\ Entries(m) \subseteq ImagesOf(def.comps)
        BY <2>2 DEF Known
      <3>2. f \in ImageLayers(m, ImagesOf(def.comps))
        BY <2>2, <3>1 DEF ImageLayers
      <3> QED BY <3>1, <3>2 DEF AssembleLayers
    <2> QED BY <2>1, <2>2 DEF Known
  <1> QED BY <1>1, <1>2

LEMMA MatchesComplete ==
    ASSUME NEW m, NEW some, NEW types, Sound(m), m[ZarfYAML].arch # "skeleton",
           \A k \in DOMAIN some : k \in DOMAIN m[ZarfYAML].comps /\ some[k] = m[ZarfYAML].comps[k]
    PROVE  CompleteIn(m, some, types, m[ZarfYAML].build)
  <1>1. CompleteIn(m[ZarfYAML].sum, m[ZarfYAML].comps, "all", m[ZarfYAML].build)
    BY DEF Sound, Package, Plain, GoodDefinition
  <1>2. \A f \in DOMAIN m[ZarfYAML].sum : f \in DOMAIN m /\ m[f] = m[ZarfYAML].sum[f]
    BY DEF Sound, Matches
  <1> QED BY <1>1, <1>2, CompleteWithin

LEMMA PulledPlain ==
    ASSUME NEW m, NEW comps, NEW types, Sound(m), NEW e,
           e = [f \in AssembleLayers(m, comps, types) |-> m[f]]
    PROVE  Plain(e) /\ e[ZarfYAML] = m[ZarfYAML]
  <1>1. DOMAIN e = AssembleLayers(m, comps, types) /\ \A f \in AssembleLayers(m, comps, types) : e[f] = m[f]
    OBVIOUS
  <1>2. \A f \in Metadata : f \in DOMAIN e <=> f \in DOMAIN m
    BY <1>1 DEF AssembleLayers
  <1>3. ZarfYAML \in Metadata /\ Bundle \in Metadata /\ Signature \in Metadata
    BY DEF Metadata
  <1>4. Plain(m) /\ ZarfYAML \in DOMAIN m /\ Signature \notin DOMAIN m
    BY DEF Sound, Package, Plain
  <1>5. ZarfYAML \in DOMAIN e /\ e[ZarfYAML] = m[ZarfYAML] /\ Signature \notin DOMAIN e
    BY <1>1, <1>2, <1>3, <1>4
  <1>6. (Bundle \in DOMAIN e <=> Bundle \in DOMAIN m) /\ (Bundle \in DOMAIN m => e[Bundle] = m[Bundle])
    BY <1>1, <1>2, <1>3
  <1> QED BY <1>4, <1>5, <1>6, PlainKept

LEMMA PulledSound ==
    ASSUME NEW m, NEW types, Sound(m), NEW e,
           types \in {"all", "noImages"}, m[ZarfYAML].arch # "skeleton" => types = "all",
           e = [f \in AssembleLayers(m, m[ZarfYAML].comps, types) |-> m[f]]
    PROVE  Known(e, e[ZarfYAML]) /\ Matches(e)
  <1>1. Known(m, m[ZarfYAML]) /\ ZarfYAML \in DOMAIN m /\ Matches(m)
    BY DEF Sound, Package, Plain
  <1>2. DOMAIN e = DOMAIN m /\ \A f \in DOMAIN m : e[f] = m[f]
    BY <1>1, PulledAll
  <1>3. Known(e, e[ZarfYAML])
    BY <1>1, <1>2, FewerKnown
  <1> QED BY <1>1, <1>2, <1>3 DEF Matches

LEMMA PullOCIInv ==
    ASSUME Inv, PullOCI, tar' = tar, parts' = parts
    PROVE  Inv'
  <1>1. Control /\ cmd.todo # <<>> /\ Head(cmd.todo) = "pull" /\ cmd.step = 0
    BY DEF Inv, PullOCI, At, Control
  <1>2. mem' = mem /\ registry' = registry /\ Stores'
    BY StoresKept DEF PullOCI
  <1>3. CASE Refused /\ dir' = dir
    BY <1>1, <1>2, <1>3, RefusedInv DEF Step, At
  <1>4. CASE ~(Refused /\ dir' = dir)
    <2> DEFINE m == registry[cmd.src].index[cmd.ref]
               skeleton == cmd.ref[2] = "skeleton"
               comps == (IF skeleton THEN m[ZarfYAML] ELSE Filtered(m[ZarfYAML], cmd.select)).comps
               types == IF skeleton /\ cmd.types = "all" THEN "noImages" ELSE cmd.types
    <2>1. /\ cmd.ref \in DOMAIN registry[cmd.src].index
          /\ dir' = [f \in AssembleLayers(m, comps, types) |-> m[f]]
          /\ cmd' = [cmd EXCEPT !.todo = Tail(@), !.resolved = m, !.isPartial = IsPartial(m, comps, types)]
      BY <1>4 DEF PullOCI
    <2>2. Options /\ Marks /\ cmd'.todo = Tail(cmd.todo) /\ cmd'.step = 0 /\ cmd'.tmp = cmd.tmp
      BY <1>1, <2>1 DEF Control, Options, Marks, Fields
    <2>3. /\ Control' /\ cmd'.todo # <<>> /\ Head(cmd'.todo) = "open"
          /\ cmd.op \in {"load", "create", "publish", "sign"}
      BY <1>1, <2>2, AdvanceControl DEF Leads, Marks, Opens
    <2>4. ~Reopened'
      BY <1>1, <2>2, <2>3, NotReopened
    <2>5. cmd.src \in Remotes
      <3>1. Ordered(cmd.op, cmd.todo)
        BY <1>1 DEF Control
      <3>2. 1 \in 1 .. Len(cmd.todo) /\ cmd.todo[1] = "pull"
        BY <1>1, <3>1 DEF Ordered
      <3> QED BY <1>1, <3>2 DEF Control
    <2>6. GoodEntry(m, cmd.ref[2])
      BY <2>1, <2>5 DEF Inv, Stores
    <2>7. Sound(m) /\ (skeleton <=> m[ZarfYAML].arch = "skeleton") /\ DOMAIN m[ZarfYAML] = DefFields
      BY <2>6 DEF GoodEntry, Sound, Package, Plain, GoodDefinition
    <2> HIDE DEF m, comps, types
    <2>8. Plain(dir') /\ dir'[ZarfYAML] = m[ZarfYAML]
      BY <2>1, <2>7, PulledPlain
    <2>9. m[ZarfYAML].arch # "skeleton" =>
              CompleteIn(dir', Filtered(dir'[ZarfYAML], cmd.select).comps, cmd.types, dir'[ZarfYAML].build)
      <3> SUFFICES ASSUME m[ZarfYAML].arch # "skeleton"
                   PROVE  CompleteIn(dir', comps, types, m[ZarfYAML].build)
        BY <2>7, <2>8 DEF comps, types
      <3>1. \A k \in DOMAIN comps : k \in DOMAIN m[ZarfYAML].comps /\ comps[k] = m[ZarfYAML].comps[k]
        BY <2>7, FilteredFacts DEF comps
      <3>2. CompleteIn(m, m[ZarfYAML].comps, "all", m[ZarfYAML].build)
        BY <2>7, MatchesComplete
      <3> QED BY <2>1, <3>1, <3>2, PulledComplete
    <2>10. cmd.op \in {"publish", "sign"} => Known(dir', dir'[ZarfYAML]) /\ Matches(dir')
      <3> SUFFICES ASSUME cmd.op \in {"publish", "sign"}
                   PROVE  Known(dir', dir'[ZarfYAML]) /\ Matches(dir')
        OBVIOUS
      <3>1. cmd.select = NoFilter /\ cmd.types = "all"
        BY <1>1 DEF Control
      <3>2. comps = m[ZarfYAML].comps
        BY <2>7, <3>1, FilteredFacts DEF comps
      <3>3. types \in {"all", "noImages"} /\ (m[ZarfYAML].arch # "skeleton" => types = "all")
        BY <2>7, <3>1 DEF types
      <3>4. dir' = [f \in AssembleLayers(m, m[ZarfYAML].comps, types) |-> m[f]]
        BY <2>1, <3>2
      <3> QED BY <2>7, <3>3, <3>4, PulledSound
    <2>11. GoodTar(cmd'.tmp)
      BY <1>1, <2>2 DEF Inv, Fetching, Blank, At
    <2>12. Opened'
      BY <2>2, <2>3, <2>4, <2>8, <2>9, <2>10, <2>11 DEF Opened, At, Options
    <2> QED BY <1>2, <2>3, <2>8, <2>12, EntersOpen
  <1> QED BY <1>3, <1>4

LEMMA ResolveSourceInv ==
    ASSUME Inv, ResolveSource, tar' = tar, parts' = parts
    PROVE  Inv'
  <1>1. Control /\ cmd.todo # <<>> /\ Head(cmd.todo) = "resolve" /\ cmd.step = 0
    BY DEF Inv, ResolveSource, At, Control
  <1>2. dir' = dir /\ mem' = mem /\ registry' = registry /\ Stores'
    BY StoresKept DEF ResolveSource
  <1>3. CASE Refused
    BY <1>1, <1>2, <1>3, RefusedInv DEF Step, At
  <1>4. CASE /\ cmd.ref \in DOMAIN registry[cmd.src].index
             /\ cmd' = [cmd EXCEPT !.todo = Tail(@), !.resolved = registry[cmd.src].index[cmd.ref]]
    <2>1. /\ Options /\ Marks /\ cmd'.todo = Tail(cmd.todo) /\ cmd'.step = 0
          /\ cmd'.resolved = registry[cmd.src].index[cmd.ref]
      BY <1>1, <1>4 DEF Control, Options, Marks, Fields
    <2>2. Control' /\ cmd'.todo # <<>> /\ Head(cmd'.todo) = "push" /\ cmd.op = "copy"
      BY <1>1, <2>1, AdvanceControl DEF Leads, Marks
    <2>3. cmd.src \in Remotes
      <3>1. Ordered(cmd.op, cmd.todo)
        BY <1>1 DEF Control
      <3>2. 1 \in 1 .. Len(cmd.todo) /\ cmd.todo[1] = "resolve"
        BY <1>1, <3>1 DEF Ordered
      <3> QED BY <1>1, <3>2 DEF Control
    <2>4. GoodEntry(cmd'.resolved, cmd'.ref[2])
      BY <1>4, <2>1, <2>3 DEF Inv, Stores, Options
    <2>5. Pushing' /\ Using' /\ Archiving'
      BY <2>1, <2>2, <2>4 DEF Pushing, Using, InUse, SignStarted, Archiving, At, Step, Options
    <2>6. ZarfYAML \notin DOMAIN dir'
      BY <1>1, <1>2 DEF Inv, Fetching, Blank, At, NoFiles
    <2> QED BY <1>2, <2>2, <2>5, <2>6, EntersUse
  <1> QED BY <1>3, <1>4 DEF ResolveSource

\* What validatePackageIntegrity finds out.
LEMMA IntegrityMatches ==
    ASSUME NEW d, NEW def, NEW isPartial, Plain(d), Integrity(def, d, isPartial),
           def.sum = d[ZarfYAML].sum, def.prov = d[ZarfYAML].prov, ~isPartial
    PROVE  Matches(d)
  <1> DEFINE excluded == {ZarfYAML, Checksums, Signature, Bundle}
                         \cup (IF IsSigned(def, d) THEN def.prov ELSE {})
  <1>1. /\ Checksums \in DOMAIN d /\ d[Checksums] = def.sum
        /\ \A f \in DOMAIN def.sum : f \in DOMAIN d \ excluded /\ d[f] = def.sum[f]
    BY DEF Integrity
  <1> QED BY <1>1 DEF Matches

\* The manifest of such a directory has the digests of its files.
LEMMA ManifestMatches ==
    ASSUME NEW d, Matches(d)
    PROVE  SameFiles(Manifest(d), d)
  BY DEF Matches, Manifest, SameFiles

\* What VerifyPackageSignature and the strategies find out.
LEMMA VerifiedBundle ==
    ASSUME NEW d, NEW def, NEW strategy, NEW key, Plain(d), strategy # "never",
           Tolerated(strategy, VerifyPackageSignature(def, d, key)),
           key # NoKey \/ strategy = "always"
    PROVE  /\ Bundle \in DOMAIN d
           /\ \/ d[Bundle].key = key /\ d[Bundle].over = d[ZarfYAML] /\ d[Bundle].readable
              \/ strategy = "ifPossible" /\ (d[Bundle].key \in Keyless) # (key \in Keyless)
  <1>1. Signature \notin DOMAIN d
    BY DEF Plain
  <1> DEFINE verdict == VerifyPackageSignature(def, d, key)
  <1>2. verdict = "ok" \/ (strategy = "ifPossible" /\ verdict = "nothing")
    BY DEF Tolerated
  <1>3. key # NoKey \/ verdict = "nothing"
    BY DEF VerifyPackageSignature
  <1>4. key # NoKey
    BY <1>2, <1>3
  <1>5. verdict # "bad"
    BY <1>2
  <1>6. IsSigned(def, d) /\ Bundle \in DOMAIN d
    BY <1>1, <1>4, <1>5 DEF VerifyPackageSignature
  <1>7. verdict = IF ~d[Bundle].readable THEN "bad"
                  ELSE IF (d[Bundle].key \in Keyless) # (key \in Keyless) THEN "nothing"
                  ELSE Cosign(d[Bundle], d, key)
    BY <1>4, <1>6 DEF VerifyPackageSignature
  <1>8. CASE verdict = "ok"
    BY <1>6, <1>7, <1>8 DEF Cosign
  <1>9. CASE strategy = "ifPossible" /\ verdict = "nothing"
    BY <1>6, <1>7, <1>9 DEF Cosign
  <1> QED BY <1>2, <1>8, <1>9

LEMMA LoadFromDirInv ==
    ASSUME Inv, LoadFromDir, tar' = tar, parts' = parts, registry' = registry
    PROVE  Inv'
  <1>1. Control /\ cmd.todo # <<>> /\ Head(cmd.todo) = "open" /\ dir' = dir /\ Stores'
    BY StoresKept DEF Inv, LoadFromDir, At
  <1>2. Plain(dir) /\ ZarfYAML \in DOMAIN dir /\ DOMAIN dir[ZarfYAML] = DefFields /\ GoodTar(cmd.tmp)
    BY <1>1 DEF Inv, Opened, At, Plain, GoodDefinition
  <1>3. CASE Refused /\ mem' = mem
    BY <1>1, <1>3, RefusedInv DEF Step, At
  <1>4. CASE ~(Refused /\ mem' = mem)
    <2> DEFINE def == Filtered(dir[ZarfYAML], cmd.select)
    <2>1. /\ Integrity(def, dir, cmd.isPartial)
          /\ Tolerated(cmd.strategy, VerifyPackageSignature(def, dir, cmd.key))
          /\ mem' = [open |-> TRUE, def |-> def, pushable |-> cmd.resolved = NoFiles,
                     digest |-> IF cmd.resolved = NoFiles THEN Manifest(dir) ELSE cmd.resolved]
          /\ Done
      BY <1>4 DEF LoadFromDir
    <2>2. /\ DOMAIN def = DefFields /\ def.build = dir[ZarfYAML].build /\ def.arch = dir[ZarfYAML].arch
          /\ def.sum = dir[ZarfYAML].sum /\ def.prov = dir[ZarfYAML].prov
          /\ \A k \in DOMAIN def.comps :
                k \in DOMAIN dir[ZarfYAML].comps /\ def.comps[k] = dir[ZarfYAML].comps[k]
          /\ cmd.select = NoFilter => def = dir[ZarfYAML]
      BY <1>2, FilteredFacts
    <2> HIDE DEF def
    <2>3. Options /\ Results /\ Marks /\ cmd'.todo = Tail(cmd.todo) /\ cmd'.step = 0 /\ cmd'.result = cmd.result
      BY <1>1, <2>1, DoneCmd DEF Control
    <2>4. /\ Control' /\ cmd'.todo # <<>> /\ Head(cmd'.todo) = cmd.todo[2]
          /\ Leads(cmd.op, "open", Head(cmd'.todo))
      BY <1>1, <2>3, AdvanceControl DEF Marks
    <2>5. /\ DOMAIN mem' = LayoutFields /\ mem'.def = def
          /\ mem'.pushable <=> cmd.resolved = NoFiles
          /\ cmd.resolved = NoFiles => mem'.digest = Manifest(dir)
      BY <2>1 DEF LayoutFields
    <2>6. ~cmd.isPartial => Matches(dir)
      BY <1>2, <2>1, <2>2, IntegrityMatches
    <2>7. GoodTar(cmd.tmp)' /\ Plain(dir)'
      BY <1>1, <1>2, <2>3 DEF Results
    <2>8. CASE cmd.op = "load"
      <3>1. dir[ZarfYAML].arch # "skeleton" => CompleteIn(dir, def.comps, cmd.types, def.build)
        <4> SUFFICES ASSUME dir[ZarfYAML].arch # "skeleton"
                     PROVE  CompleteIn(dir, def.comps, cmd.types, def.build)
          OBVIOUS
        <4>1. CASE cmd.isPartial
          BY <1>1, <2>2, <4>1 DEF Inv, Opened, At, def
        <4>2. CASE ~cmd.isPartial
          <5>1. CompleteIn(dir[ZarfYAML].sum, dir[ZarfYAML].comps, "all", def.build)
            BY <1>2, <2>2 DEF Plain, GoodDefinition
          <5>2. \A f \in DOMAIN dir[ZarfYAML].sum : f \in DOMAIN dir /\ dir[f] = dir[ZarfYAML].sum[f]
            BY <2>6, <4>2 DEF Matches
          <5> QED BY <2>2, <5>1, <5>2, CompleteWithin
        <4> QED BY <4>1, <4>2
      <3>2. cmd.strategy # "never" /\ (cmd.key # NoKey \/ cmd.strategy = "always") =>
                /\ Bundle \in DOMAIN dir
                /\ \/ dir[Bundle].key = cmd.key /\ dir[Bundle].over = dir[ZarfYAML] /\ dir[Bundle].readable
                   \/ cmd.strategy = "ifPossible" /\ (dir[Bundle].key \in Keyless) # (cmd.key \in Keyless)
        BY <1>2, <2>1, VerifiedBundle
      <3>3. Head(cmd'.todo) \in {"output", "end"}
        BY <2>4, <2>8 DEF Leads, Opens, Makes
      <3>4. Opened'
        BY <1>1, <2>2, <2>3, <2>5, <2>8, <3>1, <3>2, <3>3 DEF Opened, At, Options, Results
      <3>5. CASE Head(cmd'.todo) = "output"
        <4>1. Using'
          BY <2>3, <2>8, <3>5 DEF Using, InUse, At, Step, Options
        <4> QED BY <1>1, <2>4, <2>7, <3>4, <3>5, <4>1, EntersOutput
      <3>6. CASE Head(cmd'.todo) = "end"
        <4>1. Ended'
          BY <2>3, <2>7, <2>8 DEF Ended, Succeeded, Options
        <4> QED BY <1>1, <2>4, <3>4, <3>6, <4>1, EntersEnd
      <3> QED BY <3>3, <3>5, <3>6
    <2>9. CASE cmd.op = "create" /\ Head(cmd'.todo) # "sign"
      <3>1. Head(cmd'.todo) \in {"output", "validate"}
        BY <2>4, <2>9 DEF Leads, Opens, Makes
      <3>2. Opened'
        BY <2>3, <2>7, <2>9, <3>1 DEF Opened, At, Options
      <3>3. CASE Head(cmd'.todo) = "output"
        <4>1. Using'
          BY <2>3, <2>9, <3>3 DEF Using, InUse, At, Step, Options
        <4> QED BY <1>1, <2>4, <2>7, <3>2, <3>3, <4>1, EntersOutput
      <3>4. CASE Head(cmd'.todo) = "validate"
        BY <1>1, <2>4, <2>7, <3>2, <3>4, EntersOpen
      <3> QED BY <3>1, <3>3, <3>4
    <2>10. CASE cmd.op # "load" /\ (cmd.op = "create" => Head(cmd'.todo) = "sign")
      <3>1. cmd.op \in {"publish", "sign", "skeleton", "create"}
        BY <2>4, <2>10 DEF Leads, Opens, Makes
      <3>2. cmd.op = "create" => Reopened
        BY <2>4, <2>10 DEF Reopened
      <3>3. Known(dir, dir[ZarfYAML]) /\ (cmd.isPartial => Matches(dir))
        BY <1>1, <3>1, <3>2 DEF Inv, Opened, At
      <3>4. Sound(dir) /\ def = dir[ZarfYAML]
        BY <1>1, <1>2, <2>2, <2>6, <2>10, <3>3 DEF Sound, Package, Control
      <3>5. mem'.pushable => SameFiles(mem'.digest, dir)
        BY <2>5, <3>4, ManifestMatches DEF Sound
      <3>6. cmd.op = "create" => Made(mem'.def, dir', cmd')
        <4>1. cmd.op = "create" => Made(dir[ZarfYAML], dir, cmd)
          BY <1>1, <3>2 DEF Inv, Opened, At
        <4>2. cmd'.build = cmd.build /\ cmd'.previous = cmd.previous
          BY <2>3 DEF Options, Results
        <4> QED BY <1>1, <2>5, <3>4, <4>1, <4>2, MadeKept
      <3>7. Head(cmd'.todo) \in {"output", "sign", "repack", "signed"}
        BY <2>4, <2>10, <3>1 DEF Leads, Opens, Makes
      <3>8. Using'
        BY <1>1, <2>3, <2>4, <2>5, <3>4, <3>5, <3>6, <3>7 DEF Using, InUse, SignStarted, At, Step,
           Options
      <3>9. Opened'
        BY <1>1, <2>3, <2>7, <2>10, <3>4, <3>7 DEF Opened, At, Sound, Options
      <3>10. Pushing' /\ Archiving'
        BY <3>7 DEF Pushing, Archiving, At
      <3>11. CASE Head(cmd'.todo) = "output"
        BY <1>1, <2>4, <2>7, <3>8, <3>9, <3>11, EntersOutput
      <3>12. CASE Head(cmd'.todo) = "repack"
        BY <1>1, <2>4, <2>7, <3>9, <3>12, EntersOpen
      <3>13. CASE Head(cmd'.todo) \in {"sign", "signed"}
        BY <1>1, <2>4, <2>7, <3>8, <3>10, <3>13, EntersUse
      <3> QED BY <3>7, <3>11, <3>12, <3>13
    <2> QED BY <2>8, <2>9, <2>10
  <1> QED BY <1>3, <1>4

-----------------------------------------------------------------------------
\* Signing.
LEMMA SignedFacts ==
    ASSUME NEW def, DOMAIN def = DefFields
    PROVE  LET e == SignedDefinition(def) IN
           /\ DOMAIN e = DefFields /\ e.build = def.build /\ e.arch = def.arch /\ e.version = def.version
           /\ e.differs = def.differs /\ e.comps = def.comps /\ e.docs = def.docs /\ e.sum = def.sum
           /\ e.signed = "yes" /\ e.prov = def.prov \cup {Bundle} /\ e.reqs = def.reqs \cup {"bundle"}
  BY DEF SignedDefinition, DefFields

LEMMA SignedGood ==
    ASSUME NEW def, GoodDefinition(def)
    PROVE  GoodDefinition(SignedDefinition(def))
  <1>1. DOMAIN def = DefFields
    BY DEF GoodDefinition
  <1> QED BY <1>1, SignedFacts DEF GoodDefinition

LEMMA SoundSame ==
    ASSUME NEW d, NEW e, Sound(d), DOMAIN e = DOMAIN d, \A f \in DOMAIN d : e[f] = d[f]
    PROVE  Sound(e)
  <1>1. Plain(d) /\ Known(d, d[ZarfYAML]) /\ Matches(d) /\ ZarfYAML \in DOMAIN d /\ Signature \notin DOMAIN d
    BY DEF Sound, Package, Plain
  <1>2. Plain(e)
    BY <1>1, PlainKept
  <1>3. Known(e, e[ZarfYAML])
    BY <1>1, FewerKnown
  <1>4. Matches(e)
    BY <1>1 DEF Matches
  <1> QED BY <1>2, <1>3, <1>4 DEF Sound, Package

\* The signed definition and the signature over it make a package of one.
LEMMA SignedSound ==
    ASSUME NEW o, NEW e, Sound(o), DOMAIN e = DOMAIN o \cup {Bundle},
           e[ZarfYAML] = SignedDefinition(o[ZarfYAML]),
           DOMAIN e[Bundle] = {"readable", "key", "over"}, e[Bundle].over = e[ZarfYAML],
           \A f \in DOMAIN o : f \notin {ZarfYAML, Bundle} => e[f] = o[f]
    PROVE  Sound(e)
  <1> DEFINE old == o[ZarfYAML]
             new == e[ZarfYAML]
  <1>1. /\ Plain(o) /\ Known(o, old) /\ Matches(o) /\ ZarfYAML \in DOMAIN o /\ Signature \notin DOMAIN o
        /\ GoodDefinition(old) /\ DOMAIN old = DefFields
    BY DEF Sound, Package, Plain, GoodDefinition
  <1>2. /\ new.docs = old.docs /\ new.comps = old.comps /\ new.arch = old.arch /\ new.sum = old.sum
    BY <1>1, SignedFacts
  <1>3. GoodDefinition(new)
    BY <1>1, SignedGood
  <1>4. ZarfYAML \in DOMAIN e /\ Signature \notin DOMAIN e /\ Bundle \in DOMAIN e
    BY <1>1, FileKinds
  <1>5. Plain(e)
    BY <1>3, <1>4 DEF Plain, SignatureFits
  <1>6. IsFiniteSet(TarFiles(e))
    <2>1. IsFiniteSet(TarFiles(o))
      BY <1>1 DEF Known
    <2>2. \A f \in DOMAIN e : f[1] = "components" => f \in DOMAIN o
      BY FileKinds
    <2> QED BY <2>1, <2>2, FewerTarFiles
  <1>7. Known(e, new)
    <2>1. IndexJSON # ZarfYAML /\ IndexJSON # Bundle /\ Bundle \in Metadata
      BY FileKinds DEF Metadata
    <2>2. \A f \in DOMAIN e : f \in DOMAIN o \/ f \in Metadata
      BY <2>1
    <2>3. /\ IndexJSON \in DOMAIN e <=> IndexJSON \in DOMAIN o
          /\ IndexJSON \in DOMAIN o => e[IndexJSON] = o[IndexJSON]
      BY <2>1
    <2> QED BY <1>1, <1>2, <1>6, <2>2, <2>3, KnownKept
  <1>8. Matches(e)
    <2>1. Checksums \in DOMAIN e /\ e[Checksums] = new.sum
      BY <1>1, <1>2, FileKinds DEF Matches
    <2>2. ASSUME NEW f \in DOMAIN new.sum PROVE f \in DOMAIN e /\ e[f] = new.sum[f]
      <3>1. f \in DOMAIN old.sum /\ f \notin {ZarfYAML, Bundle}
        BY <1>1, <1>2 DEF GoodDefinition, Apart
      <3>2. f \in DOMAIN o /\ o[f] = old.sum[f]
        BY <1>1, <3>1 DEF Matches
      <3> QED BY <1>2, <3>1, <3>2
    <2> QED BY <2>1, <2>2 DEF Matches
  <1> QED BY <1>5, <1>7, <1>8 DEF Sound, Package

LEMMA NumChunksNat ==
    ASSUME NEW d, NEW def, Known(d, def)
    PROVE  NumChunks(d) \in Nat \ {0}
  <1>1. IsFiniteSet(TarFiles(d))
    BY DEF Known
  <1>2. Cardinality(TarFiles(d)) \in Nat
    BY <1>1, FS_CardinalityType
  <1> QED BY <1>2 DEF NumChunks, TarFiles

LEMMA AtSign ==
    ASSUME Inv, cmd.todo # <<>>, Head(cmd.todo) = "sign"
    PROVE  /\ Control /\ cmd.op \in {"create", "skeleton", "publish", "sign"} /\ InUse
           /\ DOMAIN mem = LayoutFields /\ cmd.step \in 0 .. 3
           /\ cmd.op = "create" => Made(mem.def, dir, cmd)
           /\ ~cmd.warned
  <1>1. Control /\ Ordered(cmd.op, cmd.todo)
    BY DEF Inv, Control
  <1>2. cmd.op \in {"create", "skeleton", "publish", "sign"}
    BY <1>1, TailOrdered DEF Leads
  <1>3. InUse
    BY <1>2 DEF InUse, At
  <1> QED BY <1>1, <1>2, <1>3 DEF Inv, Using, At, Control

\* The signed layout goes on to the registry or into a tarball.
LEMMA SignedGoesOn ==
    ASSUME Inv, cmd.todo # <<>>, Head(cmd.todo) = "sign", Done, Stores',
           DOMAIN mem' = LayoutFields, Sound(dir'), mem'.def = dir'[ZarfYAML],
           mem'.pushable => SameFiles(mem'.digest, dir'),
           cmd.op = "create" => Made(mem'.def, dir', cmd)
    PROVE  Inv'
  <1>1. Control /\ cmd.op \in {"create", "skeleton", "publish", "sign"}
    BY AtSign
  <1>2. Options /\ Results /\ Marks /\ cmd'.todo = Tail(cmd.todo) /\ cmd'.step = 0
    BY <1>1, DoneCmd DEF Control
  <1>3. Control' /\ cmd'.todo # <<>> /\ Head(cmd'.todo) \in {"push", "archive"}
    BY <1>1, <1>2, AdvanceControl DEF Leads, Marks
  <1>4. cmd.op = "create" => Made(mem'.def, dir', cmd')
    BY <1>2, MadeKept DEF Options, Results
  <1>5. Using'
    BY <1>1, <1>2, <1>3, <1>4 DEF Using, InUse, SignStarted, At, Step, Options
  <1>6. NumChunks(dir') \in Nat
    BY NumChunksNat DEF Sound, Package
  <1>7. Pushing' /\ Archiving'
    BY <1>1, <1>2, <1>3, <1>6 DEF Pushing, Archiving, At, Options
  <1> QED BY <1>3, <1>5, <1>7, EntersUse DEF Sound, Package

LEMMA SignTmpInv ==
    ASSUME Inv, SignTmp, Stores'
    PROVE  Inv'
  <1>1. cmd.todo # <<>> /\ Head(cmd.todo) = "sign" /\ cmd.step = 0 /\ dir' = dir
    BY DEF SignTmp, Step, At
  <1>2. /\ Control /\ cmd.op \in {"create", "skeleton", "publish", "sign"} /\ InUse
        /\ DOMAIN mem = LayoutFields /\ (cmd.op = "create" => Made(mem.def, dir, cmd))
    BY <1>1, AtSign
  <1>3. Sound(dir) /\ mem.def = dir[ZarfYAML] /\ (mem.pushable => SameFiles(mem.digest, dir))
    BY <1>1, <1>2 DEF Inv, Using, SignStarted
  <1>4. CASE Done /\ mem' = mem
    BY <1>1, <1>2, <1>3, <1>4, SignedGoesOn
  <1>5. CASE Refused
    BY <1>1, <1>5, RefusedInv DEF Step
  <1>6. CASE /\ cmd' = [cmd EXCEPT !.step = 1, !.saved = dir[ZarfYAML]]
             /\ mem' = [mem EXCEPT !.def = SignedDefinition(@)]
    <2>1. /\ Options /\ Results /\ cmd'.todo = cmd.todo /\ cmd'.step = 1 /\ cmd'.saved = dir[ZarfYAML]
          /\ cmd'.warned = cmd.warned
      BY <1>2, <1>6 DEF Control, Options, Results, Fields
    <2>2. Control'
      BY <1>1, <1>2, <2>1, StayControl
    <2>3. DOMAIN mem' = LayoutFields /\ mem'.def = SignedDefinition(dir[ZarfYAML])
      BY <1>2, <1>3, <1>6 DEF LayoutFields
    <2>4. DOMAIN dir[ZarfYAML] = DefFields
      BY <1>3 DEF Sound, Package, Plain, GoodDefinition
    <2>5. cmd.op = "create" => Made(mem'.def, dir, cmd)
      BY <1>2, <1>3, <2>3, <2>4, SignedFacts DEF Made
    <2>6. cmd.op = "create" => Made(mem'.def, dir', cmd')
      BY <1>1, <2>1, <2>5, MadeKept DEF Options, Results
    <2>7. Using'
      BY <1>1, <1>2, <1>3, <2>1, <2>3, <2>6 DEF Using, InUse, SignStarted, At, Step, Options
    <2>8. Pushing' /\ Archiving'
      BY <1>1, <2>1 DEF Pushing, Archiving, At
    <2> QED BY <1>1, <1>3, <2>1, <2>2, <2>7, <2>8, EntersUse DEF Sound, Package
  <1> QED BY <1>4, <1>5, <1>6 DEF SignTmp

LEMMA RenameYAMLInv ==
    ASSUME Inv, RenameYAML, Stores'
    PROVE  Inv'
  <1>1. /\ cmd.todo # <<>> /\ Head(cmd.todo) = "sign" /\ cmd.step = 1 /\ mem' = mem /\ Goto(2)
        /\ dir' = Put(dir, ZarfYAML, mem.def)
    BY DEF RenameYAML, Step, At
  <1>2. /\ Control /\ cmd.op \in {"create", "skeleton", "publish", "sign"} /\ InUse
        /\ DOMAIN mem = LayoutFields /\ (cmd.op = "create" => Made(mem.def, dir, cmd))
    BY <1>1, AtSign
  <1>3. Sound(dir) /\ cmd.saved = dir[ZarfYAML] /\ mem.def = SignedDefinition(cmd.saved) /\ ZarfYAML \in DOMAIN dir
    BY <1>1 DEF Inv, Using, Step, At, Sound, Package, Plain
  <1>4. Options /\ Results /\ Marks /\ cmd'.todo = cmd.todo /\ cmd'.step = 2
    BY <1>1, <1>2, GotoCmd DEF Control
  <1>5. Control'
    BY <1>1, <1>2, <1>4, StayControl DEF Marks
  <1>6. DOMAIN dir' = DOMAIN dir /\ dir'[ZarfYAML] = mem.def /\ \A f \in DOMAIN dir : f # ZarfYAML => dir'[f] = dir[f]
    BY <1>1, <1>3 DEF Put
  <1>7. Sound(Put(dir', ZarfYAML, cmd'.saved))
    <2> DEFINE e == Put(dir', ZarfYAML, cmd'.saved)
    <2>1. DOMAIN e = DOMAIN dir /\ \A f \in DOMAIN dir : e[f] = dir[f]
      BY <1>3, <1>4, <1>6 DEF Put, Marks
    <2> HIDE DEF e
    <2>2. Sound(e)
      BY <1>3, <2>1, SoundSame
    <2> QED BY <2>2 DEF e
  <1>8. cmd.op = "create" => Made(mem'.def, dir', cmd')
    <2>1. HasImageIndex(dir') => HasImageIndex(dir)
      BY <1>6, FileKinds DEF HasImageIndex
    <2>2. cmd.op = "create" => Made(mem'.def, dir', cmd)
      BY <1>1, <1>2, <2>1 DEF Made
    <2> QED BY <1>4, <2>2, MadeKept DEF Options, Results
  <1>9. Using'
    BY <1>1, <1>2, <1>3, <1>4, <1>6, <1>7, <1>8 DEF Using, InUse, SignStarted, At, Step, Options,
       Marks
  <1>10. Pushing' /\ Archiving'
    BY <1>1, <1>4 DEF Pushing, Archiving, At
  <1> QED BY <1>1, <1>4, <1>5, <1>9, <1>10, EntersUse DEF Step, At

LEMMA RenameBundleInv ==
    ASSUME Inv, RenameBundle, Stores'
    PROVE  Inv'
  <1>1. /\ cmd.todo # <<>> /\ Head(cmd.todo) = "sign" /\ cmd.step = 2 /\ mem' = mem /\ Goto(3)
        /\ dir' = Put(dir, Bundle, TmpBundle)
    BY DEF RenameBundle, Step, At
  <1>2. /\ Control /\ cmd.op \in {"create", "skeleton", "publish", "sign"} /\ InUse
        /\ DOMAIN mem = LayoutFields /\ (cmd.op = "create" => Made(mem.def, dir, cmd))
    BY <1>1, AtSign
  <1> DEFINE o == Put(dir, ZarfYAML, cmd.saved)
  <1>3. Sound(o) /\ mem.def = SignedDefinition(cmd.saved) /\ ZarfYAML \in DOMAIN dir /\ dir[ZarfYAML] = mem.def
    BY <1>1 DEF Inv, Using, Step, At
  <1>4. Options /\ Results /\ Marks /\ cmd'.todo = cmd.todo /\ cmd'.step = 3
    BY <1>1, <1>2, GotoCmd DEF Control
  <1>5. Control'
    BY <1>1, <1>2, <1>4, StayControl DEF Marks
  <1>6. /\ DOMAIN dir' = DOMAIN dir \cup {Bundle} /\ dir'[Bundle] = TmpBundle
        /\ \A f \in DOMAIN dir : f # Bundle => dir'[f] = dir[f]
    BY <1>1 DEF Put
  <1>7. DOMAIN o = DOMAIN dir /\ o[ZarfYAML] = cmd.saved /\ \A f \in DOMAIN dir : f # ZarfYAML => o[f] = dir[f]
    BY <1>3 DEF Put
  <1>8. DOMAIN TmpBundle = {"readable", "key", "over"} /\ TmpBundle.over = mem.def
    BY DEF TmpBundle
  <1>9. dir'[ZarfYAML] = mem.def
    BY <1>3, <1>6, FileKinds
  <1> HIDE DEF o
  <1>10. Sound(dir')
    BY <1>3, <1>6, <1>7, <1>8, <1>9, SignedSound
  <1>11. cmd.op = "create" => Made(mem'.def, dir', cmd')
    <2>1. HasImageIndex(dir') => HasImageIndex(dir)
      BY <1>6, FileKinds DEF HasImageIndex
    <2>2. cmd.op = "create" => Made(mem'.def, dir', cmd)
      BY <1>1, <1>2, <2>1 DEF Made
    <2> QED BY <1>4, <2>2, MadeKept DEF Options, Results
  <1>12. Using'
    BY <1>1, <1>2, <1>4, <1>9, <1>10, <1>11 DEF Using, InUse, SignStarted, At, Step, Options
  <1>13. Pushing' /\ Archiving'
    BY <1>1, <1>4 DEF Pushing, Archiving, At
  <1> QED BY <1>1, <1>4, <1>5, <1>10, <1>12, <1>13, EntersUse DEF Sound, Package

LEMMA SignDoneInv ==
    ASSUME Inv, SignDone, Stores'
    PROVE  Inv'
  <1>1. /\ cmd.todo # <<>> /\ Head(cmd.todo) = "sign" /\ cmd.step = 3 /\ Done
        /\ dir' = Without(dir, {Signature}) /\ mem' = [mem EXCEPT !.pushable = TRUE, !.digest = Manifest(dir')]
    BY DEF SignDone, Step, At
  <1>2. DOMAIN mem = LayoutFields /\ (cmd.op = "create" => Made(mem.def, dir, cmd))
    BY <1>1, AtSign
  <1>3. Sound(dir) /\ mem.def = dir[ZarfYAML] /\ Signature \notin DOMAIN dir /\ ZarfYAML \in DOMAIN dir
    BY <1>1 DEF Inv, Using, Step, At, Sound, Package, Plain
  <1>4. DOMAIN dir' = DOMAIN dir /\ \A f \in DOMAIN dir : dir'[f] = dir[f]
    BY <1>1, <1>3 DEF Without
  <1>5. Sound(dir')
    BY <1>3, <1>4, SoundSame
  <1>6. DOMAIN mem' = LayoutFields /\ mem'.def = mem.def /\ mem'.digest = Manifest(dir')
    BY <1>1, <1>2 DEF LayoutFields
  <1>7. SameFiles(mem'.digest, dir')
    BY <1>5, <1>6, ManifestMatches DEF Sound
  <1>8. cmd.op = "create" => Made(mem'.def, dir', cmd)
    <2>1. HasImageIndex(dir') => HasImageIndex(dir)
      BY <1>4 DEF HasImageIndex
    <2> QED BY <1>2, <1>6, <2>1 DEF Made
  <1> QED BY <1>1, <1>3, <1>4, <1>5, <1>6, <1>7, <1>8, SignedGoesOn

LEMMA SignFailsInv ==
    ASSUME Inv, SignFails \/ RestoreFails, Stores'
    PROVE  Inv'
  <1>1. cmd.todo # <<>> /\ Head(cmd.todo) = "sign"
    BY DEF SignFails, RestoreFails, Step, At
  <1>2. Control /\ ~cmd.warned
    BY <1>1, AtSign
  <1>3. CASE SignFails
    <2>1. Options /\ Marks /\ cmd'.todo = <<"end">> /\ cmd'.step = 0 /\ cmd'.result = "failed"
      BY <1>2, <1>3, RefusedCmd DEF SignFails, Control
    <2>2. Control'
      BY <1>1, <1>2, <2>1, RefusedControl
    <2>3. CASE cmd.step = 2
      <3>1. Sound(Put(dir, ZarfYAML, cmd.saved)) /\ dir' = Put(dir, ZarfYAML, cmd.saved)
        BY <1>1, <1>3, <2>3 DEF Inv, Using, Step, At, SignFails, RestoreYAML
      <3>2. Plain(dir)'
        BY <3>1 DEF Sound, Package
      <3> QED BY <2>1, <2>2, <3>2, EndsFailed
    <2>4. CASE cmd.step # 2
      <3>1. dir' = dir
        BY <1>3, <2>4 DEF SignFails
      <3>2. ZarfYAML \in DOMAIN dir' => Plain(dir)'
        BY <1>2, <2>4, <3>1 DEF Inv, Ended, Step
      <3> QED BY <2>1, <2>2, <3>2, EndsFailed
    <2> QED BY <2>3, <2>4
  <1>4. CASE RestoreFails
    <2>1. Options /\ cmd'.todo = <<"end">> /\ cmd'.step = 0 /\ cmd'.result = "failed" /\ cmd'.warned = TRUE
      BY <1>2, <1>4 DEF RestoreFails, Control, Options, Fields
    <2>2. Control'
      BY <1>1, <1>2, <2>1, RefusedControl
    <2> QED BY <2>1, <2>2, EndsFailed
  <1> QED BY <1>3, <1>4

-----------------------------------------------------------------------------
\* Pushing.
LEMMA AtPush ==
    ASSUME Inv, cmd.todo # <<>>, Head(cmd.todo) = "push"
    PROVE  /\ Control /\ cmd.op \in {"create", "skeleton", "publish", "sign", "copy"}
           /\ cmd.dst \in Remotes /\ ~cmd.split /\ cmd.step \in 0 .. 2 /\ ~cmd.warned
           /\ cmd.op # "copy" => /\ DOMAIN mem = LayoutFields /\ Sound(dir) /\ mem.def = dir[ZarfYAML]
                                 /\ mem.pushable => SameFiles(mem.digest, dir)
                                 /\ cmd.op = "create" => Made(mem.def, dir, cmd)
  <1>1. Control /\ Ordered(cmd.op, cmd.todo)
    BY DEF Inv, Control
  <1>2. cmd.op \in {"create", "skeleton", "publish", "sign", "copy"}
    BY <1>1, TailOrdered DEF Leads
  <1>3. 1 \in 1 .. Len(cmd.todo) /\ cmd.todo[1] = "push"
    BY <1>1 DEF Ordered
  <1>4. cmd.dst \in Remotes /\ ~cmd.split
    BY <1>1, <1>3 DEF Control
  <1>5. cmd.op # "copy" => /\ DOMAIN mem = LayoutFields /\ Sound(dir) /\ mem.def = dir[ZarfYAML]
                           /\ mem.pushable => SameFiles(mem.digest, dir)
                           /\ cmd.op = "create" => Made(mem.def, dir, cmd)
    BY DEF Inv, Using, InUse, SignStarted, At
  <1> QED BY <1>1, <1>2, <1>4, <1>5 DEF Inv, Pushing, At, Control

LEMMA PushKeeps ==
    ASSUME Inv, cmd.todo # <<>>, Head(cmd.todo) = "push", Options, Results, cmd'.warned = cmd.warned,
           cmd'.todo = cmd.todo, cmd'.step \in 1 .. 2, dir' = dir, mem' = mem, Stores', Pushing'
    PROVE  Inv'
  <1>1. /\ Control /\ ~cmd.warned
        /\ cmd.op # "copy" => /\ DOMAIN mem = LayoutFields /\ Sound(dir) /\ mem.def = dir[ZarfYAML]
                              /\ mem.pushable => SameFiles(mem.digest, dir)
                              /\ cmd.op = "create" => Made(mem.def, dir, cmd)
    BY AtPush
  <1>2. Control'
    BY <1>1, StayControl
  <1>3. cmd.op = "create" => Made(mem'.def, dir', cmd')
    BY <1>1, MadeKept DEF Options, Results
  <1>4. Using'
    BY <1>1, <1>3 DEF Using, InUse, SignStarted, At, Step, Options
  <1>5. Archiving'
    BY DEF Archiving, At
  <1>6. ZarfYAML \in DOMAIN dir' => Plain(dir')
    BY <1>1 DEF Inv, Ended, Step, At
  <1> QED BY <1>2, <1>4, <1>5, <1>6, EntersUse

LEMMA BlobsStores ==
    ASSUME Inv, NEW r \in Remotes, NEW some, registry' = [registry EXCEPT ![r].blobs = @ \cup some],
           tar' = tar, parts' = parts
    PROVE  Stores' /\ registry'[r].blobs = registry[r].blobs \cup some
  <1>1. DOMAIN registry = Remotes /\ \A x \in Remotes : DOMAIN registry[x] = {"blobs", "index"}
    BY DEF Inv, Stores
  <1>2. /\ DOMAIN registry' = Remotes /\ \A x \in Remotes : x # r => registry'[x] = registry[x]
        /\ DOMAIN registry'[r] = {"blobs", "index"} /\ registry'[r].index = registry[r].index
        /\ registry'[r].blobs = registry[r].blobs \cup some
    BY <1>1
  <1> QED BY <1>2 DEF Inv, Stores

LEMMA CheckPushableInv ==
    ASSUME Inv, CheckPushable, tar' = tar, parts' = parts
    PROVE  Inv'
  <1>1. cmd.todo # <<>> /\ Head(cmd.todo) = "push" /\ dir' = dir /\ mem' = mem /\ registry' = registry /\ Stores'
    BY StoresKept DEF CheckPushable, Step, At
  <1>2. Control
    BY DEF Inv
  <1>3. CASE Refused
    BY <1>1, <1>3, RefusedInv DEF Step, At
  <1>4. CASE (mem.pushable \/ cmd.op = "copy") /\ Goto(1)
    <2>1. Options /\ Results /\ Marks /\ cmd'.todo = cmd.todo /\ cmd'.step = 1
      BY <1>2, <1>4, GotoCmd DEF Control
    <2>2. Pushing'
      BY <1>1, <1>4, <2>1 DEF Inv, Pushing, At, Options, Results
    <2> QED BY <1>1, <2>1, <2>2, PushKeeps DEF Marks
  <1> QED BY <1>3, <1>4 DEF CheckPushable

LEMMA CopyLayersInv ==
    ASSUME Inv, CopyLayers, tar' = tar, parts' = parts
    PROVE  Inv'
  <1>1. /\ cmd.todo # <<>> /\ Head(cmd.todo) = "push" /\ cmd.step = 1 /\ dir' = dir /\ mem' = mem /\ Goto(2)
        /\ registry' = [registry EXCEPT ![cmd.dst].blobs = @ \cup Layers(Served)]
    BY DEF CopyLayers, Step, At
  <1>2. Control /\ cmd.dst \in Remotes
    BY <1>1, AtPush
  <1>3. Options /\ Results /\ Marks /\ cmd'.todo = cmd.todo /\ cmd'.step = 2
    BY <1>1, <1>2, GotoCmd DEF Control
  <1>4. Stores' /\ Layers(Served) \subseteq registry'[cmd.dst].blobs
    <2> DEFINE new == Layers(Served)
    <2>1. registry' = [registry EXCEPT ![cmd.dst].blobs = @ \cup new] /\ cmd.dst \in Remotes
      BY <1>1, <1>2
    <2> HIDE DEF new
    <2>2. Stores' /\ registry'[cmd.dst].blobs = registry[cmd.dst].blobs \cup new
      BY <2>1, BlobsStores
    <2> QED BY <2>2 DEF new
  <1>5. Served' = Served
    BY <1>1, <1>3 DEF Served, Options, Results
  <1>6. Pushing'
    BY <1>1, <1>3, <1>4, <1>5 DEF Inv, Pushing, At, Options, Results, Layers
  <1> QED BY <1>1, <1>3, <1>4, <1>6, PushKeeps DEF Marks

LEMMA PushFailsInv ==
    ASSUME Inv, PushFails, tar' = tar, parts' = parts
    PROVE  Inv'
  <1>1. cmd.todo # <<>> /\ Head(cmd.todo) = "push" /\ cmd.step # 0 /\ dir' = dir /\ mem' = mem /\ AttemptFailed
    BY DEF PushFails, At
  <1>2. Control /\ cmd.dst \in Remotes
    BY <1>1, AtPush
  <1>3. Stores'
    <2>1. PICK some : registry' = [registry EXCEPT ![cmd.dst].blobs = @ \cup some]
      BY DEF PushFails
    <2> QED BY <1>2, <2>1, BlobsStores
  <1>4. CASE Refused
    BY <1>1, <1>3, <1>4, RefusedInv DEF Step, At
  <1>5. CASE cmd' = [cmd EXCEPT !.step = 1, !.attempt = @ + 1]
    <2>1. Options /\ Results /\ cmd'.warned = cmd.warned /\ cmd'.todo = cmd.todo /\ cmd'.step = 1
      BY <1>2, <1>5 DEF Control, Options, Results, Fields
    <2>2. Pushing'
      BY <1>1, <2>1 DEF Inv, Pushing, At, Options, Results
    <2> QED BY <1>1, <1>3, <2>1, <2>2, PushKeeps
  <1> QED BY <1>1, <1>4, <1>5 DEF AttemptFailed

\* What is tagged is a whole package, and its layers are there.
LEMMA TaggedSound ==
    ASSUME Inv, Step("push", 2)
    PROVE  /\ GoodEntry(Manifested, Tagged[2])
           /\ Layers(Manifested) \subseteq registry[cmd.dst].blobs
  <1>1. cmd.todo # <<>> /\ Head(cmd.todo) = "push" /\ cmd.step = 2
    BY DEF Step, At
  <1>2. Layers(Served) \subseteq registry[cmd.dst].blobs /\ (mem.pushable \/ cmd.op = "copy")
    BY <1>1 DEF Inv, Pushing, At
  <1>3. CASE cmd.op = "copy"
    BY <1>1, <1>2, <1>3 DEF Inv, Pushing, At, Manifested, Tagged, Served
  <1>4. CASE cmd.op # "copy"
    <2>1. Sound(dir) /\ mem.def = dir[ZarfYAML] /\ SameFiles(mem.digest, dir) /\ ZarfYAML \in DOMAIN dir
      BY <1>1, <1>2, <1>4, AtPush DEF Sound, Package, Plain
    <2>2. Sound(mem.digest) /\ mem.digest[ZarfYAML] = mem.def
      BY <2>1, SoundSame DEF SameFiles
    <2>3. Manifested = mem.digest /\ Tagged[2] = mem.def.arch
      BY <1>4 DEF Manifested, Tagged, Ref
    <2>4. Layers(Served) = Layers(mem.digest)
      BY <1>4, <2>1 DEF Layers, Served, SameFiles
    <2> QED BY <1>2, <2>2, <2>3, <2>4 DEF GoodEntry
  <1> QED BY <1>3, <1>4

\* What TagIndex does to the registries.
LEMMA TagRegistry ==
    ASSUME Inv, TagIndex
    PROVE  /\ cmd.dst \in Remotes /\ Step("push", 2)
           /\ DOMAIN registry' = Remotes /\ \A x \in Remotes : x # cmd.dst => registry'[x] = registry[x]
           /\ DOMAIN registry'[cmd.dst] = {"blobs", "index"}
           /\ registry'[cmd.dst].blobs = registry[cmd.dst].blobs
           /\ DOMAIN registry'[cmd.dst].index = DOMAIN registry[cmd.dst].index \cup {Tagged}
           /\ registry'[cmd.dst].index[Tagged] = Manifested
           /\ \A x \in DOMAIN registry[cmd.dst].index :
                 x # Tagged => registry'[cmd.dst].index[x] = registry[cmd.dst].index[x]
  <1>1. /\ cmd.todo # <<>> /\ Head(cmd.todo) = "push" /\ Step("push", 2)
        /\ registry' = [registry EXCEPT ![cmd.dst].index = UpdateIndex(@, Tagged, Manifested)]
    BY DEF TagIndex, Step, At
  <1>2. cmd.dst \in Remotes
    BY <1>1, AtPush
  <1>3. DOMAIN registry = Remotes /\ DOMAIN registry[cmd.dst] = {"blobs", "index"}
    BY <1>2 DEF Inv, Stores
  <1>4. /\ DOMAIN registry' = Remotes /\ \A x \in Remotes : x # cmd.dst => registry'[x] = registry[x]
        /\ DOMAIN registry'[cmd.dst] = {"blobs", "index"}
        /\ registry'[cmd.dst].blobs = registry[cmd.dst].blobs
        /\ registry'[cmd.dst].index = UpdateIndex(registry[cmd.dst].index, Tagged, Manifested)
    BY <1>1, <1>2, <1>3
  <1> QED BY <1>1, <1>2, <1>4 DEF UpdateIndex, Put

LEMMA TagIndexInv ==
    ASSUME Inv, TagIndex, tar' = tar, parts' = parts
    PROVE  Inv'
  <1>1. cmd.todo # <<>> /\ Head(cmd.todo) = "push" /\ dir' = dir /\ mem' = mem /\ Done
    BY DEF TagIndex, Step, At
  <1>2. /\ Control /\ cmd.op \in {"create", "skeleton", "publish", "sign", "copy"} /\ ~cmd.split /\ ~cmd.warned
        /\ cmd.op = "create" => Sound(dir) /\ mem.def = dir[ZarfYAML] /\ Made(mem.def, dir, cmd)
    BY <1>1, AtPush
  <1>3. Options /\ Results /\ Marks /\ cmd'.todo = Tail(cmd.todo) /\ cmd'.step = 0
    BY <1>1, <1>2, DoneCmd DEF Control
  <1>4. Control' /\ cmd'.todo # <<>> /\ Head(cmd'.todo) = "end"
    BY <1>1, <1>2, <1>3, AdvanceControl DEF Leads, Marks
  <1>5. Stores'
    BY TagRegistry, TaggedSound DEF Inv, Stores
  <1>6. cmd.op = "create" => Made(mem'.def, dir', cmd') /\ CompleteIn(dir', mem'.def.comps, "all", mem'.def.build)
    <2>1. cmd.op = "create" => CompleteIn(dir, mem.def.comps, "all", mem.def.build)
      BY <1>2, MatchesComplete DEF Made
    <2> QED BY <1>1, <1>2, <1>3, <2>1, MadeKept DEF Options, Results
  <1>7. ZarfYAML \in DOMAIN dir => Plain(dir)
    BY <1>1, <1>2 DEF Inv, Ended, Step, At
  <1>8. Ended'
    BY <1>1, <1>2, <1>3, <1>6, <1>7 DEF Ended, Succeeded, Options, Splits
  <1>9. Opened'
    BY <1>2, <1>3, <1>4 DEF Opened, At, Options
  <1> QED BY <1>4, <1>5, <1>8, <1>9, EntersEnd

-----------------------------------------------------------------------------
\* Archiving.
LEMMA AtArchive ==
    ASSUME Inv, cmd.todo # <<>>, Head(cmd.todo) = "archive"
    PROVE  /\ Control /\ cmd.op \in {"create", "sign"} /\ ~cmd.warned /\ (cmd.split => cmd.op = "create")
           /\ DOMAIN mem = LayoutFields /\ Sound(dir) /\ mem.def = dir[ZarfYAML]
           /\ mem.pushable => SameFiles(mem.digest, dir)
           /\ cmd.op = "create" => Made(mem.def, dir, cmd)
           /\ NumChunks(dir) \in Nat \ {0}
  <1>1. Control /\ Ordered(cmd.op, cmd.todo)
    BY DEF Inv, Control
  <1>2. cmd.op \in {"create", "sign"}
    BY <1>1, TailOrdered DEF Leads
  <1>3. /\ DOMAIN mem = LayoutFields /\ Sound(dir) /\ mem.def = dir[ZarfYAML]
        /\ mem.pushable => SameFiles(mem.digest, dir)
        /\ cmd.op = "create" => Made(mem.def, dir, cmd)
    BY <1>2 DEF Inv, Using, InUse, SignStarted, At
  <1>4. NumChunks(dir) \in Nat \ {0}
    BY <1>3, NumChunksNat DEF Sound, Package
  <1> QED BY <1>1, <1>2, <1>3, <1>4 DEF At, Control

LEMMA ArchiveKeeps ==
    ASSUME Inv, cmd.todo # <<>>, Head(cmd.todo) = "archive", NEW n \in Int, Goto(n), dir' = dir, mem' = mem,
           Stores', Archiving'
    PROVE  Inv'
  <1>1. /\ Control /\ cmd.op \in {"create", "sign"}
        /\ DOMAIN mem = LayoutFields /\ Sound(dir) /\ mem.def = dir[ZarfYAML]
        /\ mem.pushable => SameFiles(mem.digest, dir)
        /\ cmd.op = "create" => Made(mem.def, dir, cmd)
    BY AtArchive
  <1>2. Options /\ Results /\ Marks /\ cmd'.todo = cmd.todo /\ cmd'.step = n
    BY <1>1, GotoCmd DEF Control
  <1>3. Control'
    BY <1>1, <1>2, StayControl DEF Marks
  <1>4. cmd.op = "create" => Made(mem'.def, dir', cmd')
    BY <1>1, <1>2, MadeKept DEF Options, Results
  <1>5. Using'
    BY <1>1, <1>2, <1>4 DEF Using, InUse, SignStarted, At, Step, Options
  <1>6. Pushing'
    BY <1>2 DEF Pushing, At
  <1> QED BY <1>1, <1>2, <1>3, <1>5, <1>6, EntersUse DEF Sound, Package

\* The archive is complete.
LEMMA ArchiveEnds ==
    ASSUME Inv, cmd.todo # <<>>, Head(cmd.todo) = "archive", Done, dir' = dir, mem' = mem, Stores',
           Splits => Written(NumChunks(dir))' /\ parts'[Target].count = NumChunks(dir)
    PROVE  Inv'
  <1>1. /\ Control /\ cmd.op \in {"create", "sign"} /\ ~cmd.warned
        /\ DOMAIN mem = LayoutFields /\ Sound(dir) /\ mem.def = dir[ZarfYAML]
        /\ cmd.op = "create" => Made(mem.def, dir, cmd)
        /\ NumChunks(dir) \in Nat \ {0}
    BY AtArchive
  <1>2. Options /\ Results /\ Marks /\ cmd'.todo = Tail(cmd.todo) /\ cmd'.step = 0
    BY <1>1, DoneCmd DEF Control
  <1>3. Control' /\ cmd'.todo # <<>> /\ Head(cmd'.todo) = "end"
    BY <1>1, <1>2, AdvanceControl DEF Leads, Marks
  <1>4. cmd.op = "create" => Made(mem'.def, dir', cmd') /\ CompleteIn(dir', mem'.def.comps, "all", mem'.def.build)
    <2>1. cmd.op = "create" => CompleteIn(dir, mem.def.comps, "all", mem.def.build)
      BY <1>1, MatchesComplete DEF Made
    <2> QED BY <1>1, <1>2, <2>1, MadeKept DEF Options, Results
  <1>5. Ended'
    BY <1>1, <1>2, <1>4 DEF Ended, Splits, Succeeded, Options, Target, Sound, Package
  <1>6. Opened'
    BY <1>1, <1>2, <1>3 DEF Opened, At, Options
  <1> QED BY <1>3, <1>5, <1>6, EntersEnd

LEMMA FewerTars ==
    ASSUME Inv, NEW F, tar' = Without(tar, F), parts' = parts, registry' = registry
    PROVE  Stores'
  <1>1. DOMAIN tar' \subseteq DOMAIN tar /\ \A f \in DOMAIN tar' : tar'[f] = tar[f]
    BY DEF Without
  <1> QED BY <1>1 DEF Inv, Stores

LEMMA RemoveOldTarInv ==
    ASSUME Inv, RemoveOldTar, registry' = registry
    PROVE  Inv'
  <1>1. /\ cmd.todo # <<>> /\ Head(cmd.todo) = "archive" /\ dir' = dir /\ mem' = mem /\ Goto(1) /\ parts' = parts
        /\ tar' = Without(tar, {Target})
    BY DEF RemoveOldTar, Step, At
  <1>2. Stores'
    BY <1>1, FewerTars
  <1>3. NumChunks(dir) \in Nat /\ DOMAIN cmd = Fields
    BY <1>1, AtArchive DEF Control
  <1>4. cmd'.step = 1
    BY <1>1, <1>3, GotoCmd
  <1>5. Archiving'
    BY <1>1, <1>3, <1>4 DEF Archiving
  <1> QED BY <1>1, <1>2, <1>5, ArchiveKeeps

LEMMA CompressInv ==
    ASSUME Inv, Compress, registry' = registry
    PROVE  Inv'
  <1> DEFINE t == [state |-> "whole", files |-> dir]
  <1>1. /\ cmd.todo # <<>> /\ Head(cmd.todo) = "archive" /\ dir' = dir /\ mem' = mem /\ parts' = parts
        /\ tar' = Put(tar, Target, t)
    BY DEF Compress, Step, At
  <1>2. NumChunks(dir) \in Nat /\ DOMAIN cmd = Fields /\ Package(dir)
    BY <1>1, AtArchive DEF Control, Sound
  <1>3. DOMAIN t = {"state", "files"} /\ t.files = dir
    OBVIOUS
  <1>4. GoodTar(t)
    BY <1>2 DEF GoodTar
  <1> HIDE DEF t
  <1>5. Stores'
    BY <1>1, <1>4, OutputStores
  <1>6. CASE cmd.split /\ Goto(2)
    <2>1. cmd'.step = 2 /\ cmd'.split
      BY <1>2, <1>6, GotoCmd DEF Options
    <2>2. Target' \in DOMAIN tar' /\ tar'[Target'].files = dir
      BY <1>1, <1>3 DEF Put, Target
    <2>3. Archiving'
      BY <1>1, <1>2, <2>1, <2>2 DEF Archiving
    <2> QED BY <1>1, <1>5, <1>6, <2>3, ArchiveKeeps
  <1>7. CASE ~Splits /\ Done
    BY <1>1, <1>5, <1>7, ArchiveEnds
  <1>8. CASE Refused
    BY <1>1, <1>5, <1>8, RefusedInv DEF Step, At
  <1> QED BY <1>6, <1>7, <1>8 DEF Compress, Splits

LEMMA RemoveOldPartsInv ==
    ASSUME Inv, RemoveOldParts, registry' = registry
    PROVE  Inv'
  <1>1. /\ cmd.todo # <<>> /\ Head(cmd.todo) = "archive" /\ cmd.step = 2 /\ dir' = dir /\ mem' = mem /\ tar' = tar
        /\ Goto(3) /\ parts' = Without(parts, {Target})
    BY DEF RemoveOldParts, Step, At
  <1>2. NumChunks(dir) \in Nat /\ DOMAIN cmd = Fields
    BY <1>1, AtArchive DEF Control
  <1>3. DOMAIN parts' = DOMAIN parts \ {Target} /\ \A f \in DOMAIN parts' : parts'[f] = parts[f]
    BY <1>1 DEF Without
  <1>4. Stores'
    BY <1>1, <1>3 DEF Inv, Stores
  <1>5. cmd'.step = 3 /\ cmd'.split = cmd.split
    BY <1>1, <1>2, GotoCmd DEF Options
  <1>6. cmd.split /\ Target \in DOMAIN tar /\ tar[Target].files = dir /\ Target' = Target
    BY <1>1 DEF Inv, Archiving, At, Target
  <1>7. Written(0)'
    BY <1>3, <1>6 DEF Written
  <1>8. Archiving'
    <2>1. cmd'.step - 3 = 0 /\ cmd'.step \in -1 .. NumChunks(dir') + 3 /\ cmd'.step # -1
      BY <1>1, <1>2, <1>5
    <2> QED BY <1>1, <1>5, <1>6, <1>7, <2>1 DEF Archiving
  <1> QED BY <1>1, <1>4, <1>8, ArchiveKeeps

LEMMA WritePartInv ==
    ASSUME Inv, WritePart, registry' = registry
    PROVE  Inv'
  <1> DEFINE n == cmd.step - 3
             old == PartsOf(Target)
             new == [old EXCEPT !.chunks = Put(@, cmd.step - 2, tar[Target].files)]
  <1>1. /\ cmd.todo # <<>> /\ Head(cmd.todo) = "archive" /\ dir' = dir /\ mem' = mem /\ tar' = tar
        /\ cmd.step > 2 /\ cmd.step < NumChunks(dir) + 3 /\ Goto(cmd.step + 1)
        /\ parts' = Put(parts, Target, new)
    BY DEF WritePart, At
  <1>2. NumChunks(dir) \in Nat /\ DOMAIN cmd = Fields /\ cmd.step \in Int /\ Package(dir)
    BY <1>1, AtArchive DEF Control, Sound
  <1>3. n \in Nat /\ cmd.step - 2 = n + 1 /\ (n + 4) - 3 = n + 1 /\ cmd.step + 1 = n + 4 /\ n + 4 <= NumChunks(dir) + 3
    BY <1>1, <1>2
  <1>4. /\ Written(n) /\ cmd.split /\ Target \in DOMAIN tar /\ tar[Target].files = dir
    BY <1>1, <1>2 DEF Inv, Archiving, At
  <1> DEFINE chunks == old.chunks
  <1>5. /\ DOMAIN old = {"count", "chunks"}
        /\ DOMAIN chunks = 1 .. n /\ \A k \in 1 .. n : chunks[k] = dir
    <2>1. CASE n = 0
      <3>1. Target \notin DOMAIN parts
        BY <1>4, <2>1 DEF Written
      <3>2. old = NoParts
        BY <3>1 DEF PartsOf
      <3>3. DOMAIN NoParts = {"count", "chunks"} /\ DOMAIN NoParts.chunks = {}
        BY DEF NoParts
      <3>4. 1 .. n = {}
        BY <2>1
      <3> QED BY <3>2, <3>3, <3>4
    <2>2. CASE n # 0
      <3>1. Target \in DOMAIN parts /\ DOMAIN parts[Target].chunks = 1 .. n
            /\ \A k \in 1 .. n : parts[Target].chunks[k] = dir
        BY <1>4, <2>2 DEF Written
      <3>2. old = parts[Target]
        BY <3>1 DEF PartsOf
      <3> QED BY <3>1, <3>2 DEF Inv, Stores
    <2> QED BY <2>1, <2>2
  <1> HIDE DEF n, old
  <1>6. DOMAIN new = {"count", "chunks"} /\ new.chunks = Put(chunks, n + 1, dir)
    BY <1>3, <1>4, <1>5
  <1>7. DOMAIN new.chunks = 1 .. n + 1 /\ \A k \in 1 .. n + 1 : new.chunks[k] = dir
    <2>1. 1 .. n + 1 = (1 .. n) \cup {n + 1}
      BY <1>3
    <2> QED BY <1>5, <1>6, <2>1 DEF Put
  <1> HIDE DEF new
  <1>8. /\ DOMAIN parts' = DOMAIN parts \cup {Target} /\ parts'[Target] = new
        /\ \A f \in DOMAIN parts : f # Target => parts'[f] = parts[f]
    BY <1>1 DEF Put
  <1>9. Stores'
    <2>1. /\ DOMAIN parts'[Target] = {"count", "chunks"}
          /\ \A k \in DOMAIN parts'[Target].chunks : Package(parts'[Target].chunks[k])
      BY <1>2, <1>6, <1>7, <1>8
    <2>2. \A f \in DOMAIN parts' :
              /\ DOMAIN parts'[f] = {"count", "chunks"}
              /\ \A k \in DOMAIN parts'[f].chunks : Package(parts'[f].chunks[k])
      BY <1>8, <2>1 DEF Inv, Stores
    <2> QED BY <1>1, <2>2 DEF Inv, Stores
  <1>10. cmd'.step = n + 4 /\ cmd'.split = cmd.split /\ Target' = Target
    BY <1>1, <1>2, <1>3, GotoCmd DEF Options, Target
  <1>11. /\ Target' \in DOMAIN parts' /\ DOMAIN parts'[Target'].chunks = 1 .. n + 1
         /\ \A k \in 1 .. n + 1 : parts'[Target'].chunks[k] = dir'
    BY <1>1, <1>7, <1>8, <1>10
  <1>12. Archiving'
    <2>1. cmd'.step \in -1 .. NumChunks(dir') + 3 /\ cmd'.step # -1 /\ cmd'.step - 3 = n + 1
      BY <1>1, <1>2, <1>3, <1>10
    <2>2. Written(cmd.step - 3)'
      BY <1>3, <1>11, <2>1 DEF Written
    <2> QED BY <1>1, <1>4, <1>10, <2>1, <2>2 DEF Archiving
  <1> QED BY <1>1, <1>2, <1>9, <1>12, ArchiveKeeps

LEMMA RemoveTarInv ==
    ASSUME Inv, RemoveTar, registry' = registry
    PROVE  Inv'
  <1>1. /\ cmd.todo # <<>> /\ Head(cmd.todo) = "archive" /\ dir' = dir /\ mem' = mem /\ parts' = parts
        /\ cmd.step = NumChunks(dir) + 3 /\ Goto(-1) /\ tar' = Without(tar, {Target})
    BY DEF RemoveTar, At
  <1>2. NumChunks(dir) \in Nat /\ DOMAIN cmd = Fields
    BY <1>1, AtArchive DEF Control
  <1>3. Stores'
    BY <1>1, FewerTars
  <1>4. cmd'.step = -1 /\ cmd'.split = cmd.split /\ Target' = Target
    BY <1>1, <1>2, GotoCmd DEF Options, Target
  <1>5. cmd.split /\ Written(NumChunks(dir))
    <2>1. cmd.step > 2 /\ cmd.step \notin {0, 1} /\ cmd.step - 3 = NumChunks(dir)
      BY <1>1, <1>2
    <2> QED BY <1>1, <2>1 DEF Inv, Archiving, At
  <1>6. Written(NumChunks(dir))'
    BY <1>1, <1>4, <1>5 DEF Written
  <1>7. Archiving'
    BY <1>1, <1>2, <1>4, <1>5, <1>6 DEF Archiving
  <1> QED BY <1>1, <1>3, <1>7, ArchiveKeeps

LEMMA WriteHeaderInv ==
    ASSUME Inv, WriteHeader, registry' = registry
    PROVE  Inv'
  <1>1. /\ cmd.todo # <<>> /\ Head(cmd.todo) = "archive" /\ dir' = dir /\ mem' = mem /\ tar' = tar
        /\ cmd.step = -1 /\ Done /\ parts' = [parts EXCEPT ![Target].count = NumChunks(dir)]
    BY DEF WriteHeader, Step, At
  <1>2. NumChunks(dir) \in Nat \ {0}
    BY <1>1, AtArchive
  <1>3. Written(NumChunks(dir)) /\ Target' = Target
    BY <1>1 DEF Inv, Archiving, At, Target
  <1>4. Target \in DOMAIN parts
    BY <1>2, <1>3 DEF Written
  <1>5. DOMAIN parts[Target] = {"count", "chunks"}
    BY <1>4 DEF Inv, Stores
  <1>6. /\ DOMAIN parts' = DOMAIN parts /\ \A f \in DOMAIN parts : f # Target => parts'[f] = parts[f]
        /\ DOMAIN parts'[Target] = {"count", "chunks"} /\ parts'[Target].chunks = parts[Target].chunks
        /\ parts'[Target].count = NumChunks(dir)
    BY <1>1, <1>4, <1>5
  <1>7. Stores'
    BY <1>1, <1>4, <1>6 DEF Inv, Stores
  <1>8. Written(NumChunks(dir))'
    BY <1>1, <1>2, <1>3, <1>6 DEF Written
  <1> QED BY <1>1, <1>6, <1>7, <1>8, ArchiveEnds

LEMMA ArchiveFailsInv ==
    ASSUME Inv, ArchiveFails, registry' = registry
    PROVE  Inv'
  <1>1. /\ cmd.todo # <<>> /\ Head(cmd.todo) = "archive" /\ Refused /\ dir' = dir /\ parts' = parts
        /\ tar' = Put(tar, Target, HalfTar) \/ tar' = tar
    BY DEF ArchiveFails, At
  <1>2. Stores'
    BY <1>1, HalfTarGood, OutputStores, StoresKept
  <1> QED BY <1>1, <1>2, RefusedInv DEF Step, At

-----------------------------------------------------------------------------
\* Assembling.
LEMMA ImageInKept ==
    ASSUME NEW d, NEW e, NEW i, ImageIn(d, i),
           \A f \in DOMAIN d : f[1] \in {"images", "images/blobs"} => f \in DOMAIN e /\ e[f] = d[f]
    PROVE  ImageIn(e, i)
  <1>1. IndexJSON[1] = "images" /\ \A b : ImageBlob(b)[1] = "images/blobs"
    BY FileKinds
  <1>2. IndexJSON \in DOMAIN e /\ e[IndexJSON] = d[IndexJSON]
    BY <1>1 DEF ImageIn
  <1> QED BY <1>1, <1>2 DEF ImageIn

LEMMA CompleteKept ==
    ASSUME NEW d, NEW e, NEW comps, NEW types, NEW build, CompleteIn(d, comps, types, build),
           \A f \in DOMAIN d : f[1] \in {"components", "images", "images/blobs"} => f \in DOMAIN e /\ e[f] = d[f]
    PROVE  CompleteIn(e, comps, types, build)
  <1> SUFFICES ASSUME NEW k \in DOMAIN comps
               PROVE  /\ comps[k].tar /\ types # "metadata" =>
                            ComponentTar(comps[k].name) \in DOMAIN e /\ e[ComponentTar(comps[k].name)] = build
                      /\ types = "all" => \A i \in comps[k].images \cup comps[k].archives : ImageIn(e, i)
    BY DEF CompleteIn, ImageIn
  <1>1. ComponentTar(comps[k].name)[1] = "components"
    BY FileKinds
  <1>2. comps[k].tar /\ types # "metadata" =>
            ComponentTar(comps[k].name) \in DOMAIN d /\ d[ComponentTar(comps[k].name)] = build
    BY DEF CompleteIn
  <1>3. ASSUME types = "all", NEW i \in comps[k].images \cup comps[k].archives PROVE ImageIn(e, i)
    <2>1. ImageIn(d, i)
      BY <1>3 DEF CompleteIn, ImageIn
    <2> QED BY <2>1, ImageInKept
  <1> QED BY <1>1, <1>2, <1>3

\* A file other than an image is added to a directory in the making.
LEMMA AddedKnown ==
    ASSUME NEW d, NEW def, NEW f, NEW content, Known(d, def),
           f \in Metadata \/ f = SBOMTar \/ (f = DocumentationTar /\ def.docs) \/ f \in ComponentFiles(def.comps)
    PROVE  Known(Put(d, f, content), def)
  <1> DEFINE e == Put(d, f, content)
  <1>1. DOMAIN e = DOMAIN d \cup {f} /\ \A g \in DOMAIN d : g # f => e[g] = d[g]
    BY DEF Put
  <1> HIDE DEF e
  <1>2. f # IndexJSON
    BY FileKinds DEF Metadata, ComponentFiles
  <1>3. IsFiniteSet(TarFiles(e))
    <2>1. IsFiniteSet(TarFiles(d))
      BY DEF Known
    <2>2. TarFiles(e) \subseteq TarFiles(d) \cup {f}
      BY <1>1 DEF TarFiles
    <2>3. IsFiniteSet(TarFiles(d) \cup {f})
      BY <2>1, FS_AddElement
    <2> QED BY <2>2, <2>3, FS_Subset
  <1>4. Known(e, def)
    BY <1>1, <1>2, <1>3, KnownKept
  <1> QED BY <1>4 DEF e

LEMMA DraftKept ==
    ASSUME Inv, Draft, Options, Results, mem' = mem, Known(dir', mem.def),
           ZarfYAML \notin DOMAIN dir', Bundle \notin DOMAIN dir', Signature \notin DOMAIN dir'
    PROVE  Draft'
  <1>1. cmd.op = "create" => Covers(mem.def.comps, cmd')
    BY CoversKept DEF Draft, Options, Results
  <1> QED BY <1>1 DEF Draft, Options, Results

LEMMA AtMaking ==
    ASSUME Inv, cmd.todo # <<>>,
           Head(cmd.todo) \in {"component", "images", "sbom", "docs", "checksums", "metadata"}
    PROVE  /\ Control /\ Draft /\ cmd.op \in {"create", "skeleton"} /\ cmd.build \in DOMAIN Builds
           /\ Head(cmd.todo) \in {"images", "sbom"} => cmd.op = "create"
  <1>1. Control /\ Ordered(cmd.op, cmd.todo)
    BY DEF Inv, Control
  <1>2. cmd.op \in {"create", "skeleton"} /\ (Head(cmd.todo) \in {"images", "sbom"} => cmd.op = "create")
    BY <1>1, TailOrdered DEF Leads, Makes
  <1> QED BY <1>1, <1>2 DEF Inv, Making, At, Control, Makes

\* The next step after a file is added.
LEMMA MakingGoesOn ==
    ASSUME Inv, cmd.todo # <<>>, Head(cmd.todo) \in {"component", "images", "sbom", "docs", "checksums"},
           Done, mem' = mem, Stores', Known(dir', mem.def),
           ZarfYAML \notin DOMAIN dir', Bundle \notin DOMAIN dir', Signature \notin DOMAIN dir',
           cmd.op = "create" /\ Head(cmd.todo) = "component" =>
               Pulling' /\ CompleteIn(dir', mem.def.comps, "noImages", cmd.build),
           cmd.op = "create" /\ Head(cmd.todo) # "component" => CompleteIn(dir', mem.def.comps, "all", cmd.build),
           Head(cmd.todo) = "checksums" =>
               Checksums \in DOMAIN dir' /\ SameFiles(dir'[Checksums], Without(dir', {ZarfYAML, Checksums}))
    PROVE  Inv'
  <1>1. /\ Control /\ Draft /\ cmd.op \in {"create", "skeleton"}
        /\ Head(cmd.todo) \in {"images", "sbom"} => cmd.op = "create"
    BY AtMaking
  <1>2. Options /\ Results /\ Marks /\ cmd'.todo = Tail(cmd.todo) /\ cmd'.step = 0
    BY <1>1, DoneCmd DEF Control
  <1>3. Control' /\ cmd'.todo # <<>> /\ Leads(cmd.op, Head(cmd.todo), Head(cmd'.todo))
    BY <1>1, <1>2, AdvanceControl DEF Marks
  <1>4. Draft'
    BY <1>1, <1>2, DraftKept
  <1>5. /\ Head(cmd'.todo) \in {"component", "images", "sbom", "docs", "checksums", "metadata"}
        /\ Head(cmd'.todo) = "component" => cmd.op = "skeleton"
        /\ Head(cmd'.todo) = "metadata" => Head(cmd.todo) = "checksums"
        /\ cmd.op = "create" => (Head(cmd'.todo) = "images" <=> Head(cmd.todo) = "component")
    BY <1>1, <1>3 DEF Leads, Makes, Opens
  <1>6. Making'
    <2>1. Head(cmd'.todo) = "component" => cmd'.step \in 0 .. Len(mem'.def.comps) /\ \A k \in 1 .. cmd'.step : FALSE
      BY <1>1, <1>2 DEF Draft
    <2> QED BY <1>2, <1>4, <1>5, <2>1 DEF Making, At, Options
  <1> QED BY <1>3, <1>5, <1>6, EntersMaking

LEMMA AddSBOMAndValuesInv ==
    ASSUME Inv, AddSBOMAndValues, tar' = tar, parts' = parts
    PROVE  Inv'
  <1>1. cmd.todo # <<>> /\ Head(cmd.todo) = "sbom" /\ mem' = mem /\ Done /\ registry' = registry
    BY DEF AddSBOMAndValues, At
  <1>2. Draft /\ cmd.op = "create"
    BY <1>1, AtMaking
  <1>3. PICK d : /\ d = dir \/ d = Put(dir, SBOMTar, cmd.build)
                 /\ dir' = d \/ dir' = Put(d, ValuesYAML, cmd.build)
    BY DEF AddSBOMAndValues
  <1>4. Known(d, mem.def)
    BY <1>2, <1>3, AddedKnown DEF Draft
  <1>5. Known(dir', mem.def)
    BY <1>3, <1>4, AddedKnown DEF Metadata
  <1>6. /\ \A f \in DOMAIN dir' : f \in DOMAIN dir \/ f \in {SBOMTar, ValuesYAML}
        /\ \A f \in DOMAIN dir : f \notin {SBOMTar, ValuesYAML} => f \in DOMAIN dir' /\ dir'[f] = dir[f]
    BY <1>3 DEF Put
  <1>7. ZarfYAML \notin DOMAIN dir' /\ Bundle \notin DOMAIN dir' /\ Signature \notin DOMAIN dir'
    BY <1>2, <1>6, FileKinds DEF Draft
  <1>8. CompleteIn(dir', mem.def.comps, "all", cmd.build)
    <2>1. CompleteIn(dir, mem.def.comps, "all", cmd.build)
      BY <1>1, <1>2 DEF Inv, Making, At
    <2>2. \A f \in DOMAIN dir : f[1] \in {"components", "images", "images/blobs"} =>
            f \in DOMAIN dir' /\ dir'[f] = dir[f]
      BY <1>6, FileKinds
    <2> QED BY <2>1, <2>2, CompleteKept
  <1> QED BY <1>1, <1>5, <1>7, <1>8, StoresKept, MakingGoesOn

LEMMA AddDocumentationInv ==
    ASSUME Inv, AddDocumentation, tar' = tar, parts' = parts
    PROVE  Inv'
  <1>1. /\ cmd.todo # <<>> /\ Head(cmd.todo) = "docs" /\ mem' = mem /\ Done /\ registry' = registry
        /\ dir' = dir \/ (mem.def.docs /\ dir' = Put(dir, DocumentationTar, cmd.build))
    BY DEF AddDocumentation, At
  <1>2. Draft
    BY <1>1, AtMaking
  <1>3. Known(dir', mem.def)
    BY <1>1, <1>2, AddedKnown DEF Draft
  <1>4. /\ \A f \in DOMAIN dir' : f \in DOMAIN dir \/ f = DocumentationTar
        /\ \A f \in DOMAIN dir : f # DocumentationTar => f \in DOMAIN dir' /\ dir'[f] = dir[f]
    BY <1>1 DEF Put
  <1>5. ZarfYAML \notin DOMAIN dir' /\ Bundle \notin DOMAIN dir' /\ Signature \notin DOMAIN dir'
    BY <1>2, <1>4, FileKinds DEF Draft
  <1>6. cmd.op = "create" => CompleteIn(dir', mem.def.comps, "all", cmd.build)
    <2>1. cmd.op = "create" => CompleteIn(dir, mem.def.comps, "all", cmd.build)
      BY <1>1 DEF Inv, Making, At
    <2>2. \A f \in DOMAIN dir : f[1] \in {"components", "images", "images/blobs"} =>
            f \in DOMAIN dir' /\ dir'[f] = dir[f]
      BY <1>4, FileKinds
    <2> QED BY <2>1, <2>2, CompleteKept
  <1> QED BY <1>1, <1>3, <1>5, <1>6, StoresKept, MakingGoesOn

LEMMA WriteChecksumsInv ==
    ASSUME Inv, WriteChecksums, tar' = tar, parts' = parts
    PROVE  Inv'
  <1>1. /\ cmd.todo # <<>> /\ Head(cmd.todo) = "checksums" /\ mem' = mem /\ Done /\ registry' = registry
        /\ dir' = Put(dir, Checksums, Without(dir, {ZarfYAML, Checksums}))
    BY DEF WriteChecksums, At
  <1>2. Draft
    BY <1>1, AtMaking
  <1>3. Known(dir', mem.def)
    BY <1>1, <1>2, AddedKnown DEF Draft, Metadata
  <1>4. /\ DOMAIN dir' = DOMAIN dir \cup {Checksums} /\ dir'[Checksums] = Without(dir, {ZarfYAML, Checksums})
        /\ \A f \in DOMAIN dir : f # Checksums => dir'[f] = dir[f]
    BY <1>1 DEF Put
  <1>5. ZarfYAML \notin DOMAIN dir' /\ Bundle \notin DOMAIN dir' /\ Signature \notin DOMAIN dir'
    BY <1>2, <1>4, FileKinds DEF Draft
  <1>6. cmd.op = "create" => CompleteIn(dir', mem.def.comps, "all", cmd.build)
    <2>1. cmd.op = "create" => CompleteIn(dir, mem.def.comps, "all", cmd.build)
      BY <1>1 DEF Inv, Making, At
    <2>2. \A f \in DOMAIN dir : f[1] \in {"components", "images", "images/blobs"} =>
            f \in DOMAIN dir' /\ dir'[f] = dir[f]
      BY <1>4, FileKinds
    <2> QED BY <2>1, <2>2, CompleteKept
  <1>7. Checksums \in DOMAIN dir' /\ SameFiles(dir'[Checksums], Without(dir', {ZarfYAML, Checksums}))
    BY <1>4 DEF SameFiles, Without
  <1> QED BY <1>1, <1>3, <1>5, <1>6, <1>7, StoresKept, MakingGoesOn

LEMMA WriteDefinitionInv ==
    ASSUME Inv, WriteDefinition, tar' = tar, parts' = parts
    PROVE  Inv'
  <1> DEFINE def == mem'.def
  <1>1. /\ cmd.todo # <<>> /\ Head(cmd.todo) = "metadata" /\ Done /\ registry' = registry
        /\ dir' = Put(dir, ZarfYAML, def)
        /\ mem' = [mem EXCEPT !.def.sum = dir[Checksums], !.def.signed = "no",
                              !.def.prov = {Checksums},
                              !.def.reqs = CollectVersionRequirements(mem.def, dir)]
    BY DEF WriteDefinition, At
  <1>2. Control /\ Draft /\ cmd.op \in {"create", "skeleton"}
    BY <1>1, AtMaking
  <1>3. /\ DOMAIN def = DefFields /\ def.sum = dir[Checksums] /\ def.signed = "no" /\ def.prov = {Checksums}
        /\ def.reqs = CollectVersionRequirements(mem.def, dir)
        /\ def.comps = mem.def.comps /\ def.arch = mem.def.arch /\ def.build = mem.def.build
        /\ def.docs = mem.def.docs
    BY <1>1, <1>2 DEF Draft, LayoutFields, DefFields
  <1> HIDE DEF def
  <1>4. Options /\ Results /\ Marks /\ cmd'.todo = Tail(cmd.todo) /\ cmd'.step = 0
    BY <1>1, <1>2, DoneCmd DEF Control
  <1>5. Control' /\ cmd'.todo # <<>> /\ Head(cmd'.todo) = "open"
    BY <1>1, <1>2, <1>4, AdvanceControl DEF Leads, Marks
  <1>6. /\ DOMAIN dir' = DOMAIN dir \cup {ZarfYAML} /\ dir'[ZarfYAML] = def
        /\ \A f \in DOMAIN dir : f # ZarfYAML => dir'[f] = dir[f]
    BY <1>1 DEF Put
  <1>7. /\ Checksums \in DOMAIN dir /\ DOMAIN dir[Checksums] = DOMAIN dir \ {ZarfYAML, Checksums}
        /\ \A f \in DOMAIN dir[Checksums] : dir[Checksums][f] = dir[f]
    BY <1>1 DEF Inv, Making, At, SameFiles, Without
  <1>8. Bundle \notin DOMAIN dir' /\ Signature \notin DOMAIN dir'
    BY <1>2, <1>6, FileKinds DEF Draft
  <1>9. GoodDefinition(def)
    <2>1. DOMAIN def.sum \cap Apart = {}
      BY <1>2, <1>3, <1>7 DEF Apart, Draft
    <2>2. ASSUME def.arch # "skeleton" PROVE CompleteIn(def.sum, def.comps, "all", def.build)
      <3>1. cmd.op = "create" /\ def.build = cmd.build
        BY <1>2, <1>3, <2>2 DEF Draft
      <3>2. CompleteIn(dir, def.comps, "all", def.build)
        BY <1>1, <1>3, <3>1 DEF Inv, Making, At
      <3>3. \A f \in DOMAIN dir : f[1] \in {"components", "images", "images/blobs"} =>
                f \in DOMAIN def.sum /\ def.sum[f] = dir[f]
        BY <1>3, <1>7, FileKinds
      <3> QED BY <3>2, <3>3, CompleteKept
    <2> QED BY <1>3, <2>1, <2>2 DEF GoodDefinition
  <1>10. Plain(dir')
    BY <1>3, <1>6, <1>8, <1>9 DEF Plain, SignatureFits
  <1>11. Known(dir', def)
    <2>1. Known(dir', mem.def)
      BY <1>1, <1>2, AddedKnown DEF Draft, Metadata
    <2>2. IsFiniteSet(TarFiles(dir'))
      BY <2>1 DEF Known
    <2> QED BY <1>3, <2>1, <2>2, KnownKept
  <1>12. cmd.op = "create" => Made(def, dir', cmd')
    <2>1. cmd.op = "create" => Covers(def.comps, cmd')
      BY <1>2, <1>3, <1>4, CoversKept DEF Draft, Options, Results
    <2>2. HasImageIndex(dir') => HasImageIndex(dir)
      BY <1>6, FileKinds DEF HasImageIndex
    <2>3. HasImageIndex(dir) => "index" \in def.reqs
      BY <1>3 DEF CollectVersionRequirements
    <2> QED BY <1>2, <1>3, <2>1, <2>2, <2>3 DEF Made, Draft
  <1>13. ~cmd'.isPartial /\ GoodTar(cmd'.tmp)
    BY <1>2, <1>4 DEF Draft, Results
  <1>14. Opened'
    BY <1>2, <1>4, <1>5, <1>6, <1>10, <1>11, <1>12, <1>13 DEF Opened, At, Options, Reopened
  <1> QED BY <1>1, <1>5, <1>10, <1>14, StoresKept, EntersOpen

LEMMA PullingKept ==
    ASSUME Pulling, pulls' = pulls, mem' = mem, Entries(dir') = Entries(dir),
           \A f \in DOMAIN dir : f[1] \in {"images", "images/blobs"} => f \in DOMAIN dir' /\ dir'[f] = dir[f]
    PROVE  Pulling'
  <1>1. ASSUME NEW i \in DOMAIN pulls'
        PROVE  IF pulls'[i].st = "saved" THEN ImageIn(dir', i) ELSE i \notin Entries(dir')
    BY ImageInKept DEF Pulling
  <1> QED BY <1>1 DEF Pulling

LEMMA AssembleComponentInv ==
    ASSUME Inv, AssembleComponent, tar' = tar, parts' = parts
    PROVE  Inv'
  <1>1. cmd.todo # <<>> /\ Head(cmd.todo) = "component" /\ mem' = mem /\ pulls' = pulls /\ registry' = registry
    BY DEF AssembleComponent, At, pullVars
  <1>2. Control /\ Draft /\ cmd.op \in {"create", "skeleton"}
    BY <1>1, AtMaking
  <1> DEFINE comps == mem.def.comps
             n == cmd.step
  <1>3. /\ Len(comps) \in Nat /\ DOMAIN comps = 1 .. Len(comps) /\ mem.def.build = cmd.build
        /\ Known(dir, mem.def)
        /\ ZarfYAML \notin DOMAIN dir /\ Bundle \notin DOMAIN dir /\ Signature \notin DOMAIN dir
    BY <1>2 DEF Draft
  <1>4. /\ n \in 0 .. Len(comps)
        /\ \A k \in 1 .. n : comps[k].tar =>
              ComponentTar(comps[k].name) \in DOMAIN dir /\ dir[ComponentTar(comps[k].name)] = cmd.build
        /\ cmd.op = "create" => Pulling
    BY <1>1 DEF Inv, Making, At
  <1>5. Stores'
    BY <1>1, StoresKept
  <1>6. CASE n = Len(comps) /\ Done /\ dir' = dir
    <2>1. CompleteIn(dir, comps, "noImages", cmd.build)
      BY <1>3, <1>4, <1>6 DEF CompleteIn
    <2>2. cmd.op = "create" => Pulling'
      BY <1>1, <1>4, <1>6 DEF Pulling
    <2> QED BY <1>1, <1>3, <1>5, <1>6, <2>1, <2>2, MakingGoesOn
  <1>7. CASE /\ n # Len(comps) /\ Goto(n + 1)
             /\ dir' = IF comps[n + 1].tar THEN Put(dir, ComponentTar(comps[n + 1].name), cmd.build) ELSE dir
    <2>1. Options /\ Results /\ Marks /\ cmd'.todo = cmd.todo /\ cmd'.step = n + 1
      BY <1>2, <1>7, GotoCmd DEF Control
    <2>2. n + 1 \in 1 .. Len(comps) /\ n + 1 \in Int /\ n + 1 \in 0 .. Len(comps)
      BY <1>3, <1>4, <1>7
    <2>3. Control'
      BY <1>1, <1>2, <2>1, <2>2, StayControl DEF Marks
    <2> DEFINE new == ComponentTar(comps[n + 1].name)
    <2>4. /\ \A f \in DOMAIN dir' : f \in DOMAIN dir \/ f = new
          /\ \A f \in DOMAIN dir : f \in DOMAIN dir' /\ (f # new => dir'[f] = dir[f])
          /\ dir' = dir \/ dir'[new] = cmd.build
          /\ comps[n + 1].tar => new \in DOMAIN dir' /\ dir'[new] = cmd.build
      BY <1>7 DEF Put
    <2>5. Known(dir', mem.def)
      <3>1. new \in ComponentFiles(comps)
        BY <1>3, <2>2 DEF ComponentFiles
      <3> QED BY <1>3, <1>7, <3>1, AddedKnown
    <2>6. new[1] = "components"
      BY FileKinds
    <2> HIDE DEF new
    <2>7. ZarfYAML \notin DOMAIN dir' /\ Bundle \notin DOMAIN dir' /\ Signature \notin DOMAIN dir'
      BY <1>3, <2>4, <2>6, FileKinds
    <2>8. Draft'
      BY <1>1, <1>2, <2>1, <2>5, <2>7, DraftKept
    <2>9. cmd.op = "create" => Pulling'
      <3>1. \A f \in DOMAIN dir : f[1] \in {"images", "images/blobs"} => f \in DOMAIN dir' /\ dir'[f] = dir[f]
        BY <2>4, <2>6
      <3>2. Entries(dir') = Entries(dir)
        BY <2>4, <2>6, FileKinds DEF Entries
      <3> QED BY <1>1, <1>4, <3>1, <3>2, PullingKept
    <2>10. ASSUME NEW k \in 1 .. n + 1, comps[k].tar
           PROVE  ComponentTar(comps[k].name) \in DOMAIN dir' /\ dir'[ComponentTar(comps[k].name)] = cmd.build
      <3>1. CASE k = n + 1
        BY <2>4, <2>10, <3>1 DEF new
      <3>2. CASE k \in 1 .. n
        <4>1. ComponentTar(comps[k].name) \in DOMAIN dir /\ dir[ComponentTar(comps[k].name)] = cmd.build
          BY <1>4, <2>10, <3>2
        <4> QED BY <2>4, <4>1
      <3> QED BY <1>4, <3>1, <3>2
    <2>11. Making'
      BY <1>1, <2>1, <2>2, <2>8, <2>9, <2>10 DEF Making, At, Options
    <2> QED BY <1>1, <1>5, <2>1, <2>3, <2>7, <2>11, EntersMaking
  <1> QED BY <1>6, <1>7 DEF AssembleComponent

LEMMA EmptyKnown ==
    ASSUME NEW def
    PROVE  Known(NoFiles, def) /\ DOMAIN NoFiles = {} /\ Entries(NoFiles) = {}
  <1>1. DOMAIN NoFiles = {}
    BY DEF NoFiles
  <1>2. Entries(NoFiles) = {}
    BY <1>1 DEF Entries
  <1>3. TarFiles(NoFiles) = {}
    BY <1>1 DEF TarFiles
  <1>4. IsFiniteSet(TarFiles(NoFiles))
    BY <1>3, FS_EmptySet
  <1> QED BY <1>1, <1>2, <1>4 DEF Known

LEMMA BuildComps ==
    ASSUME NEW b \in DOMAIN Builds
    PROVE  /\ Builds[b].arch # "skeleton" /\ Len(Builds[b].comps) \in Nat
           /\ DOMAIN Builds[b].comps = 1 .. Len(Builds[b].comps)
           /\ \A k \in DOMAIN Builds[b].comps :
                 DOMAIN Builds[b].comps[k] = {"name", "tar", "images", "archives"}
  BY PipelineAssumption

\* applyDifferentialResources keeps every image that the previous package
\* lacks, and the moving ones.
LEMMA DifferentialKeeps ==
    ASSUME NEW comps, NEW previous, Len(comps) \in Nat, DOMAIN comps = 1 .. Len(comps),
           \A k \in DOMAIN comps : "images" \in DOMAIN comps[k],
           NEW e, e = Differential(comps, previous)
    PROVE  /\ Len(e) \in Nat /\ DOMAIN e = 1 .. Len(e)
           /\ PlainImages(comps) \subseteq PlainImages(e) \cup previous
           /\ PlainImages(comps) \cap Moving \subseteq PlainImages(e)
  <1>1. DOMAIN e = DOMAIN comps
    BY DEF Differential
  <1>2. Len(e) = Len(comps)
    <2> DEFINE n == Len(comps)
    <2>1. n \in Nat /\ DOMAIN e = 1 .. n
      BY <1>1
    <2> HIDE DEF n
    <2>2. e = [k \in 1 .. n |-> e[k]]
      BY <2>1 DEF Differential, n
    <2>3. Len([k \in 1 .. n |-> e[k]]) = n
      BY <2>1
    <2> QED BY <2>2, <2>3 DEF n
  <1>3. ASSUME NEW k \in DOMAIN comps, NEW i \in comps[k].images, IncludeDifferentialImage(i, previous)
        PROVE  i \in PlainImages(e)
    <2>1. e[k] = [comps[k] EXCEPT !.images = {j \in @ : IncludeDifferentialImage(j, previous)}]
      BY <1>3 DEF Differential
    <2>2. i \in e[k].images
      BY <1>3, <2>1
    <2> QED BY <1>1, <1>3, <2>2 DEF PlainImages
  <1>4. \A i \in PlainImages(comps) : i \in Moving \/ i \notin previous => i \in PlainImages(e)
    BY <1>3 DEF PlainImages, IncludeDifferentialImage
  <1> QED BY <1>1, <1>2, <1>4

LEMMA StartAssemblyInv ==
    ASSUME Inv, StartAssembly, tar' = tar, parts' = parts
    PROVE  Inv'
  <1>1. cmd.todo # <<>> /\ Head(cmd.todo) = "validate" /\ dir' = NoFiles /\ registry' = registry
    BY DEF StartAssembly, At
  <1>2. Control /\ Stores' /\ GoodTar(cmd.tmp) /\ ZarfYAML \notin DOMAIN dir'
    BY <1>1, StoresKept, EmptyKnown DEF Inv, Opened, At
  <1>3. CASE Refused
    <2>1. Options /\ Marks /\ cmd'.todo = <<"end">> /\ cmd'.step = 0 /\ cmd'.result = "failed"
      BY <1>2, <1>3, RefusedCmd DEF Control
    <2>2. Control'
      BY <1>1, <1>2, <2>1, RefusedControl
    <2> QED BY <1>2, <2>1, <2>2, EndsFailed
  <1>4. CASE ~Refused
    <2> DEFINE b == Builds[cmd.build]
               previous == PlainImages(mem.def.comps)
               comps == IF mem.open THEN Differential(b.comps, previous) ELSE b.comps
               def == [NoDefinition EXCEPT !.build = cmd.build, !.arch = b.arch, !.version = b.version,
                                           !.comps = comps, !.docs = b.docs,
                                           !.differs = IF mem.open THEN mem.def.version ELSE ""]
    <2>1. /\ mem' = [NoLayout EXCEPT !.def = def]
          /\ pulls' = [i \in ArchivesOf(comps) \cup PlainImages(comps) |->
                          [st |-> IF i \in ArchivesOf(comps) THEN "archived" ELSE "todo",
                           platform |-> FALSE, tries |-> 0]]
          /\ cmd' = [cmd EXCEPT !.todo = Tail(@), !.step = 0, !.resolved = NoFiles,
                                !.isPartial = FALSE, !.strategy = "never",
                                !.previous = IF mem.open THEN previous ELSE {}]
      BY <1>4 DEF StartAssembly
    <2>2. /\ Options /\ Marks /\ cmd'.todo = Tail(cmd.todo) /\ cmd'.step = 0 /\ cmd'.tmp = cmd.tmp
          /\ cmd'.isPartial = FALSE /\ cmd'.resolved = NoFiles
          /\ cmd'.previous = IF mem.open THEN previous ELSE {}
      BY <1>2, <2>1 DEF Control, Options, Marks, Fields
    <2>3. Control' /\ cmd'.todo # <<>> /\ Head(cmd'.todo) = "component" /\ cmd.op = "create"
      BY <1>1, <1>2, <2>2, AdvanceControl DEF Leads, Marks
    <2>4. cmd.build \in DOMAIN Builds
      BY <1>1, <1>2, <2>3 DEF Control, Makes
    <2>5. /\ b.arch # "skeleton" /\ Len(b.comps) \in Nat /\ DOMAIN b.comps = 1 .. Len(b.comps)
          /\ \A k \in DOMAIN b.comps : "images" \in DOMAIN b.comps[k]
      BY <2>4, BuildComps
    <2>6. /\ DOMAIN def = DefFields /\ def.build = cmd.build /\ def.arch = b.arch /\ def.comps = comps
      BY DEF NoDefinition, DefFields
    <2> HIDE DEF def
    <2>7. DOMAIN mem' = LayoutFields /\ mem'.def = def
      BY <2>1 DEF NoLayout, LayoutFields
    <2>8. Len(comps) \in Nat /\ DOMAIN comps = 1 .. Len(comps) /\ Covers(comps, cmd')
      <3>1. CASE mem.open
        BY <2>2, <2>5, <3>1, DifferentialKeeps DEF Covers, Options
      <3>2. CASE ~mem.open
        BY <2>2, <2>5, <3>2 DEF Covers, Options
      <3> QED BY <3>1, <3>2
    <2> HIDE DEF b, previous, comps
    <2>9. Known(dir', def) /\ Entries(dir') = {} /\ DOMAIN dir' = {}
      BY <1>1, EmptyKnown
    <2>10. Draft'
      BY <1>2, <2>2, <2>3, <2>5, <2>6, <2>7, <2>8, <2>9 DEF Draft, Options
    <2>11. Pulling'
      <3>1. ImagesOf(comps) = ArchivesOf(comps) \cup PlainImages(comps)
        BY DEF ImagesOf, ArchivesOf, PlainImages
      <3>2. \A i \in DOMAIN pulls' : /\ DOMAIN pulls'[i] = {"st", "platform", "tries"}
                                     /\ pulls'[i].st \in {"archived", "todo"}
        BY <2>1
      <3> QED BY <2>1, <2>6, <2>7, <2>9, <3>1, <3>2 DEF Pulling
    <2>12. Making'
      <3>1. cmd'.step \in 0 .. Len(mem'.def.comps) /\ \A k \in 1 .. cmd'.step : FALSE
        BY <2>2, <2>6, <2>7, <2>8
      <3> QED BY <2>3, <2>10, <2>11, <3>1 DEF Making, At
    <2> QED BY <1>2, <2>3, <2>12, EntersMaking
  <1> QED BY <1>3, <1>4

LEMMA StartSkeletonInv ==
    ASSUME Inv, StartSkeleton, tar' = tar, parts' = parts
    PROVE  Inv'
  <1>1. cmd.todo # <<>> /\ Head(cmd.todo) = "skeleton" /\ dir' = dir /\ registry' = registry
    BY DEF StartSkeleton, At
  <1>2. Control /\ Stores' /\ Blank
    BY <1>1, StoresKept DEF Inv, Fetching, At
  <1>3. CASE Refused
    BY <1>1, <1>2, <1>3, RefusedInv DEF Step, At
  <1>4. CASE ~Refused
    <2> DEFINE b == Builds[cmd.build]
               def == [NoDefinition EXCEPT !.build = cmd.build, !.arch = "skeleton",
                              !.version = b.version, !.comps = b.comps, !.docs = b.docs]
    <2>1. mem' = [NoLayout EXCEPT !.def = def] /\ Done
      BY <1>4 DEF StartSkeleton
    <2>2. Options /\ Results /\ Marks /\ cmd'.todo = Tail(cmd.todo) /\ cmd'.step = 0
      BY <1>2, <2>1, DoneCmd DEF Control
    <2>3. Control' /\ cmd'.todo # <<>> /\ Head(cmd'.todo) = "docs" /\ cmd.op = "skeleton"
      BY <1>1, <1>2, <2>2, AdvanceControl DEF Leads, Marks
    <2>4. cmd.build \in DOMAIN Builds
      BY <1>1, <1>2, <2>3 DEF Control, Makes
    <2>5. Len(b.comps) \in Nat /\ DOMAIN b.comps = 1 .. Len(b.comps)
      BY <2>4, BuildComps
    <2>6. /\ DOMAIN def = DefFields /\ def.build = cmd.build /\ def.arch = "skeleton" /\ def.comps = b.comps
      BY DEF NoDefinition, DefFields
    <2> HIDE DEF def
    <2>7. DOMAIN mem' = LayoutFields /\ mem'.def = def
      BY <2>1 DEF NoLayout, LayoutFields
    <2>8. Known(dir', def) /\ DOMAIN dir' = {}
      BY <1>1, <1>2, EmptyKnown DEF Blank
    <2>9. Draft'
      BY <1>2, <2>2, <2>3, <2>5, <2>6, <2>7, <2>8 DEF Draft, Options, Results, Blank
    <2>10. Making'
      BY <2>2, <2>3, <2>9 DEF Making, At, Options
    <2> QED BY <1>2, <2>3, <2>8, <2>10, EntersMaking
  <1> QED BY <1>3, <1>4

-----------------------------------------------------------------------------
\* Pulling images.
LEMMA AtImages ==
    ASSUME Inv, cmd.todo # <<>>, Head(cmd.todo) = "images"
    PROVE  /\ Control /\ Draft /\ cmd.op = "create" /\ Pulling
           /\ CompleteIn(dir, mem.def.comps, "noImages", cmd.build)
  <1>1. Control /\ Draft /\ cmd.op = "create"
    BY AtMaking
  <1> QED BY <1>1 DEF Inv, Making, At

LEMMA ImagesKeep ==
    ASSUME Inv, cmd.todo # <<>>, Head(cmd.todo) = "images", cmd' = cmd, mem' = mem, Stores',
           ZarfYAML \notin DOMAIN dir', Draft', Pulling',
           CompleteIn(dir', mem.def.comps, "noImages", cmd.build)
    PROVE  Inv'
  <1>1. Control /\ cmd.op = "create"
    BY AtImages
  <1>2. Control'
    BY <1>1 DEF Control, At
  <1>3. Making'
    BY <1>1 DEF Making, At
  <1> QED BY <1>2, <1>3, EntersMaking

\* How far the images have come, when none lands.
LEMMA PullsKeep ==
    ASSUME Inv, cmd.todo # <<>>, Head(cmd.todo) = "images", cmd' = cmd, mem' = mem, dir' = dir, Stores',
           DOMAIN pulls' = DOMAIN pulls,
           \A j \in DOMAIN pulls : /\ DOMAIN pulls'[j] = {"st", "platform", "tries"}
                                   /\ \/ pulls'[j].st = pulls[j].st
                                      \/ pulls[j].st # "saved" /\ pulls'[j].st \in {"found", "daemon"}
    PROVE  Inv'
  <1>1. Draft /\ Pulling /\ CompleteIn(dir, mem.def.comps, "noImages", cmd.build)
    BY AtImages
  <1>2. Draft'
    BY <1>1 DEF Draft
  <1>3. Pulling'
    BY <1>1 DEF Pulling
  <1> QED BY <1>1, <1>2, <1>3, ImagesKeep DEF Draft

BlobFiles(i, rev, whole) == {ImageBlob(b) : b \in ImageBlobs[i][rev][whole]}

SavedIn(d, e, i, rev, whole) ==
    /\ DOMAIN e = DOMAIN d \cup BlobFiles(i, rev, whole) \cup {IndexJSON}
    /\ \A f \in BlobFiles(i, rev, whole) : e[f] = 1
    /\ \A f \in DOMAIN d : f \notin BlobFiles(i, rev, whole) /\ f # IndexJSON => e[f] = d[f]
    /\ Entries(e) = Entries(d) \cup {i} /\ DOMAIN e[IndexJSON] = Entries(d) \cup {i}
    /\ e[IndexJSON][i] = [rev |-> rev, whole |-> whole]
    /\ \A j \in Entries(d) : e[IndexJSON][j] = d[IndexJSON][j]

LEMMA SavedFacts ==
    ASSUME NEW d, NEW i, NEW rev, NEW whole, i \notin Entries(d), NEW e, e = Saved(d, i, rev, whole)
    PROVE  SavedIn(d, e, i, rev, whole)
  <1> DEFINE blobs == BlobFiles(i, rev, whole)
             entries == IF IndexJSON \in DOMAIN d THEN d[IndexJSON] ELSE NoFiles
             new == Put(entries, i, [rev |-> rev, whole |-> whole])
             base == [f \in DOMAIN d \cup blobs |-> IF f \in blobs THEN 1 ELSE d[f]]
  <1>1. e = Put(base, IndexJSON, new)
    BY DEF Saved, BlobFiles
  <1>2. DOMAIN entries = Entries(d) /\ (\A j \in Entries(d) : entries[j] = d[IndexJSON][j])
    BY DEF Entries, NoFiles
  <1>3. /\ DOMAIN new = Entries(d) \cup {i} /\ new[i] = [rev |-> rev, whole |-> whole]
        /\ \A j \in Entries(d) : new[j] = d[IndexJSON][j]
    BY <1>2 DEF Put
  <1>4. IndexJSON \notin blobs
    BY FileKinds DEF BlobFiles
  <1>5. DOMAIN base = DOMAIN d \cup blobs /\ \A f \in DOMAIN base : base[f] = IF f \in blobs THEN 1 ELSE d[f]
    OBVIOUS
  <1> HIDE DEF new, base, blobs
  <1>6. /\ DOMAIN e = DOMAIN d \cup blobs \cup {IndexJSON} /\ e[IndexJSON] = new
        /\ \A f \in DOMAIN base : f # IndexJSON => e[f] = base[f]
    BY <1>1, <1>5 DEF Put
  <1>7. Entries(e) = DOMAIN new
    BY <1>6 DEF Entries
  <1>8. \A f \in blobs : e[f] = 1
    BY <1>4, <1>5, <1>6
  <1>9. \A f \in DOMAIN d : f \notin blobs /\ f # IndexJSON => e[f] = d[f]
    BY <1>5, <1>6
  <1> QED BY <1>3, <1>6, <1>7, <1>8, <1>9 DEF blobs, SavedIn

\* An image lands in the directory; the ones that are there stay whole.
LEMMA SavedInv ==
    ASSUME Inv, cmd.todo # <<>>, Head(cmd.todo) = "images", cmd' = cmd, mem' = mem, Stores',
           NEW i \in DOMAIN pulls, pulls[i].st # "saved", NEW rev, NEW whole,
           dir' = Saved(dir, i, rev, whole), pulls' = [pulls EXCEPT ![i].st = "saved"]
    PROVE  Inv'
  <1> DEFINE blobs == BlobFiles(i, rev, whole)
  <1>1. /\ Draft /\ Pulling /\ cmd.op = "create"
        /\ CompleteIn(dir, mem.def.comps, "noImages", cmd.build)
    BY AtImages
  <1>2. i \notin Entries(dir) /\ i \in ImagesOf(mem.def.comps)
    BY <1>1 DEF Pulling
  <1>3. /\ DOMAIN dir' = DOMAIN dir \cup blobs \cup {IndexJSON}
        /\ \A f \in blobs : dir'[f] = 1
        /\ \A f \in DOMAIN dir : f \notin blobs /\ f # IndexJSON => dir'[f] = dir[f]
        /\ Entries(dir') = Entries(dir) \cup {i} /\ DOMAIN dir'[IndexJSON] = Entries(dir) \cup {i}
        /\ dir'[IndexJSON][i] = [rev |-> rev, whole |-> whole]
        /\ \A j \in Entries(dir) : dir'[IndexJSON][j] = dir[IndexJSON][j]
    <2>1. SavedIn(dir, dir', i, rev, whole)
      BY <1>2, SavedFacts
    <2> QED BY <2>1 DEF SavedIn
  <1>4. \A f \in blobs : f[1] = "images/blobs"
    BY FileKinds DEF BlobFiles
  <1>5. Known(dir, mem.def) /\ mem.def.arch # "skeleton"
    BY <1>1 DEF Draft
  <1>6. Known(dir', mem.def)
    <2>1. IsFiniteSet(TarFiles(dir'))
      <3>1. IsFiniteSet(TarFiles(dir))
        BY <1>5 DEF Known
      <3>2. \A f \in DOMAIN dir' : f[1] = "components" => f \in DOMAIN dir
        BY <1>3, <1>4, FileKinds
      <3> QED BY <3>1, <3>2, FewerTarFiles
    <2>2. Entries(dir') \subseteq ImagesOf(mem.def.comps) /\ Entries(dir') # {}
      BY <1>2, <1>3, <1>5 DEF Known
    <2>3. blobs \cup {IndexJSON} \subseteq ImageLayers(dir', Entries(dir'))
      BY <1>3 DEF ImageLayers, BlobFiles
    <2>4. Entries(dir) # {} => ImageLayers(dir, Entries(dir)) \subseteq ImageLayers(dir', Entries(dir'))
      BY <1>3, SMTT(30) DEF ImageLayers
    <2> HIDE DEF blobs
    <2>5. DOMAIN dir \subseteq
              Metadata \cup {SBOMTar} \cup (IF mem.def.docs THEN {DocumentationTar} ELSE {})
              \cup ComponentFiles(mem.def.comps)
              \cup (IF Entries(dir) = {} THEN {} ELSE ImageLayers(dir, Entries(dir)))
      BY <1>5 DEF Known
    <2> QED BY <1>3, <1>5, <2>1, <2>2, <2>3, <2>4, <2>5 DEF Known
  <1>7. ImageIn(dir', i)
    BY <1>3 DEF ImageIn, BlobFiles
  <1>8. ASSUME NEW j \in Entries(dir), ImageIn(dir, j)
        PROVE  ImageIn(dir', j)
    <2>1. dir'[IndexJSON][j] = dir[IndexJSON][j] /\ j \in DOMAIN dir'[IndexJSON] /\ IndexJSON \in DOMAIN dir'
      BY <1>3
    <2>2. ASSUME NEW b \in ImageBlobs[j][dir[IndexJSON][j].rev][dir[IndexJSON][j].whole]
          PROVE  ImageBlob(b) \in DOMAIN dir' /\ dir'[ImageBlob(b)] = 1
      <3>1. ImageBlob(b) \in DOMAIN dir /\ dir[ImageBlob(b)] = 1
        BY <1>8 DEF ImageIn
      <3>2. ImageBlob(b) # IndexJSON
        BY FileKinds
      <3> HIDE DEF blobs
      <3> QED BY <1>3, <3>1, <3>2
    <2> QED BY <2>1, <2>2 DEF ImageIn
  <1> HIDE DEF blobs
  <1>9. Pulling'
    <2>1. /\ DOMAIN pulls' = DOMAIN pulls /\ DOMAIN pulls'[i] = {"st", "platform", "tries"}
          /\ pulls'[i].st = "saved" /\ \A j \in DOMAIN pulls : j # i => pulls'[j] = pulls[j]
      BY <1>1 DEF Pulling
    <2>2. ASSUME NEW j \in DOMAIN pulls
          PROVE  IF pulls'[j].st = "saved" THEN ImageIn(dir', j) ELSE j \notin Entries(dir')
      <3>1. CASE j = i
        BY <1>7, <2>1, <3>1
      <3>2. CASE j # i /\ pulls[j].st = "saved"
        <4>1. ImageIn(dir, j)
          BY <1>1, <3>2 DEF Pulling
        <4>2. j \in Entries(dir)
          BY <4>1 DEF ImageIn, Entries
        <4> QED BY <1>8, <2>1, <3>2, <4>1, <4>2
      <3>3. CASE j # i /\ pulls[j].st # "saved"
        BY <1>1, <1>3, <2>1, <3>3 DEF Pulling
      <3> QED BY <3>1, <3>2, <3>3
    <2> QED BY <1>1, <2>1, <2>2 DEF Pulling
  <1>10. ZarfYAML \notin DOMAIN dir' /\ Bundle \notin DOMAIN dir' /\ Signature \notin DOMAIN dir'
    BY <1>1, <1>3, <1>4, FileKinds DEF Draft
  <1>11. Draft'
    BY <1>1, <1>6, <1>10 DEF Draft
  <1>12. CompleteIn(dir', mem.def.comps, "noImages", cmd.build)
    <2>1. \A f \in DOMAIN dir : f[1] = "components" => f \in DOMAIN dir' /\ dir'[f] = dir[f]
      BY <1>3, <1>4, FileKinds
    <2>2. \A k \in DOMAIN mem.def.comps : ComponentTar(mem.def.comps[k].name)[1] = "components"
      BY FileKinds
    <2> QED BY <1>1, <2>1, <2>2 DEF CompleteIn
  <1> QED BY <1>9, <1>10, <1>11, <1>12, ImagesKeep

LEMMA PullStepInv ==
    ASSUME Inv, PullStep \/ PullTrouble, tar' = tar, parts' = parts, registry' = registry
    PROVE  Inv'
  <1>0. Stores'
    BY StoresKept
  <1>1. cmd.todo # <<>> /\ Head(cmd.todo) = "images"
    BY DEF PullStep, PullTrouble, UnpackImage, FetchInfo, SaveFromDaemon, OrasSave, ImagesDone,
       TagMoves,
           FetchUnreachable, OrasSaveFails, Looked, Step, At
  <1>2. Control /\ Draft /\ Pulling /\ cmd.op = "create" /\ CompleteIn(dir, mem.def.comps, "noImages", cmd.build)
    BY <1>1, AtImages
  <1>3. \A i \in DOMAIN pulls : DOMAIN pulls[i] = {"st", "platform", "tries"}
    BY <1>2 DEF Pulling
  <1>4. CASE Refused /\ dir' = dir
    BY <1>0, <1>1, <1>4, RefusedInv DEF Step, At
  <1>5. ASSUME NEW i \in DOMAIN pulls, UnpackImage(i), ~(Refused /\ dir' = dir) PROVE Inv'
    BY <1>0, <1>1, <1>5, SavedInv DEF UnpackImage
  <1>6. ASSUME NEW i \in DOMAIN pulls, FetchInfo(i) PROVE Inv'
    <2>1. cmd' = cmd /\ dir' = dir /\ mem' = mem /\ pulls[i].st = "todo"
      BY <1>6 DEF FetchInfo, Waiting
    <2>2. /\ DOMAIN pulls' = DOMAIN pulls /\ \A j \in DOMAIN pulls : j # i => pulls'[j] = pulls[j]
          /\ DOMAIN pulls'[i] = {"st", "platform", "tries"} /\ pulls'[i].st \in {"found", "daemon"}
      <3>1. CASE pulls' = [pulls EXCEPT ![i].st = "daemon"]
        BY <1>3, <3>1
      <3>2. CASE pulls' = [pulls EXCEPT ![i].st = "found",
                              ![i].platform = i \notin Pinned /\ Kind[i][upstream[i]] = "index"]
        BY <1>3, <3>2
      <3> QED BY <1>6, <3>1, <3>2 DEF FetchInfo
    <2> QED BY <1>0, <1>1, <1>3, <2>1, <2>2, PullsKeep
  <1>7. ASSUME NEW i \in DOMAIN pulls, SaveFromDaemon(i), ~(Refused /\ dir' = dir) PROVE Inv'
    BY <1>0, <1>1, <1>7, SavedInv DEF SaveFromDaemon, Waiting
  <1>8. ASSUME NEW i \in DOMAIN pulls, OrasSave(i) PROVE Inv'
    BY <1>0, <1>1, <1>8, SavedInv DEF OrasSave, Waiting
  <1>9. CASE ImagesDone
    <2>1. /\ dir' = dir /\ mem' = mem /\ Done
          /\ Waiting("archived") = {} /\ Waiting("todo") = {} /\ Waiting("daemon") = {} /\ Waiting("found") = {}
      BY <1>9 DEF ImagesDone, Looked
    <2>2. \A i \in ImagesOf(mem.def.comps) : ImageIn(dir, i)
      BY <1>2, <2>1 DEF Pulling, Waiting
    <2>3. CompleteIn(dir, mem.def.comps, "all", cmd.build)
      <3>1. \A k \in DOMAIN mem.def.comps :
               \A i \in mem.def.comps[k].images \cup mem.def.comps[k].archives : ImageIn(dir, i)
        BY <2>2 DEF ImagesOf
      <3> QED BY <1>2, <3>1 DEF CompleteIn, ImageIn
    <2> QED BY <1>0, <1>1, <1>2, <2>1, <2>3, MakingGoesOn DEF Draft
  <1>10. ASSUME NEW i \in DOMAIN pulls, TagMoves(i) PROVE Inv'
    BY <1>0, <1>1, <1>3, <1>10, PullsKeep DEF TagMoves
  <1>11. ASSUME NEW i \in DOMAIN pulls, FetchUnreachable(i) PROVE Inv'
    <2>1. cmd' = cmd /\ dir' = dir /\ mem' = mem /\ pulls[i].st = "todo" /\ pulls' = [pulls EXCEPT ![i].st = "daemon"]
      BY <1>11 DEF FetchUnreachable, Waiting
    <2>2. /\ DOMAIN pulls' = DOMAIN pulls /\ \A j \in DOMAIN pulls : j # i => pulls'[j] = pulls[j]
          /\ DOMAIN pulls'[i] = {"st", "platform", "tries"} /\ pulls'[i].st = "daemon"
      BY <1>3, <2>1
    <2> QED BY <1>0, <1>1, <1>3, <2>1, <2>2, PullsKeep
  <1>12. ASSUME NEW i \in DOMAIN pulls, OrasSaveFails(i), ~(Refused /\ dir' = dir) PROVE Inv'
    <2>1. cmd' = cmd /\ dir' = dir /\ mem' = mem /\ pulls' = [pulls EXCEPT ![i].tries = @ + 1]
      BY <1>12 DEF OrasSaveFails
    <2>2. /\ DOMAIN pulls' = DOMAIN pulls /\ \A j \in DOMAIN pulls : j # i => pulls'[j] = pulls[j]
          /\ DOMAIN pulls'[i] = {"st", "platform", "tries"} /\ pulls'[i].st = pulls[i].st
      BY <1>3, <2>1
    <2> QED BY <1>0, <1>1, <1>3, <2>1, <2>2, PullsKeep
  <1> QED BY <1>4, <1>5, <1>6, <1>7, <1>8, <1>9, <1>10, <1>11, <1>12 DEF PullStep, PullTrouble

-----------------------------------------------------------------------------
\* Every step.
LEMMA StutterInv ==
    ASSUME Inv, UNCHANGED vars
    PROVE  Inv'
  <1>1. /\ cmd' = cmd /\ dir' = dir /\ mem' = mem /\ tar' = tar /\ parts' = parts /\ registry' = registry
        /\ pulls' = pulls
    BY DEF vars
  <1>2. /\ \A p : At(p)' <=> At(p)
        /\ \A p, n : Step(p, n)' <=> Step(p, n)
        /\ \A op : Succeeded(op)' <=> Succeeded(op)
    BY <1>1 DEF At, Step, Succeeded
  <1>3. /\ Blank' <=> Blank
        /\ Draft' <=> Draft
        /\ Pulling' <=> Pulling
        /\ Reopened' <=> Reopened
    BY <1>1 DEF Blank, Draft, Pulling, Reopened
  <1>4. /\ InUse' <=> InUse
        /\ SignStarted' <=> SignStarted
        /\ Target' = Target
        /\ Served' = Served
    BY <1>1 DEF InUse, SignStarted, Target, Served, At
  <1>5. Control' /\ Stores' /\ Fetching'
    BY <1>1, <1>3 DEF Inv, Control, Stores, Fetching, At
  <1>6. Making' /\ Opened'
    BY <1>1, <1>3 DEF Inv, Making, Opened, At
  <1>7. Using' /\ Pushing'
    BY <1>1, <1>4 DEF Inv, Using, Pushing, At, Step
  <1>8. Archiving' /\ Ended'
    BY <1>1, <1>4 DEF Inv, Archiving, Ended, At, Step, Succeeded, Written, Splits
  <1> QED BY <1>5, <1>6, <1>7, <1>8 DEF Inv

LEMMA WorkInv ==
    ASSUME Inv, Work
    PROVE  Inv'
  <1>1. CASE (LoadFromDir \/ SignStep \/ SignFails \/ RestoreFails) /\ UNCHANGED <<stores, commands>>
    <2>1. tar' = tar /\ parts' = parts /\ registry' = registry
      BY <1>1 DEF stores
    <2>2. Stores'
      BY <2>1, StoresKept
    <2> QED BY <1>1, <2>1, <2>2, LoadFromDirInv, SignTmpInv, RenameYAMLInv, RenameBundleInv, SignDoneInv, SignFailsInv
            DEF SignStep
  <1>2. CASE (ArchiveStep \/ ArchiveFails \/ LoadStep \/ CopyToOutputFails)
             /\ UNCHANGED <<registry, pullVars, commands>>
    BY <1>2, RemoveOldTarInv, CompressInv, RemoveOldPartsInv, WritePartInv, RemoveTarInv,
       WriteHeaderInv,
       ArchiveFailsInv, OpenTarInv, ReassembleInv, RemovePartsInv, DecompressInv, CopyToOutputInv,
       CopyToOutputFailsInv
       DEF ArchiveStep, LoadStep
  <1>3. CASE (RegistryStep \/ PushFails) /\ UNCHANGED <<archiveVars, pullVars, commands>>
    <2>1. tar' = tar /\ parts' = parts
      BY <1>3 DEF archiveVars
    <2> QED BY <1>3, <2>1, CheckPushableInv, CopyLayersInv, TagIndexInv, ResolveSourceInv, PullOCIInv, PushFailsInv
            DEF RegistryStep
  <1>4. CASE (PullStep \/ PullTrouble) /\ UNCHANGED <<archiveVars, registry, commands>>
    <2>1. tar' = tar /\ parts' = parts /\ registry' = registry
      BY <1>4 DEF archiveVars
    <2> QED BY <1>4, <2>1, PullStepInv
  <1>5. CASE AssembleStep /\ UNCHANGED <<archiveVars, commands>>
    <2>1. tar' = tar /\ parts' = parts
      BY <1>5 DEF archiveVars
    <2> QED BY <1>5, <2>1, StartAssemblyInv, StartSkeletonInv, AssembleComponentInv, AddSBOMAndValuesInv,
               AddDocumentationInv, WriteChecksumsInv, WriteDefinitionInv
            DEF AssembleStep
  <1>6. CASE CheckSigned \/ Repack \/ Cleanup \/ StepFails \/ RemovePartsFails
    BY <1>6, CheckSignedInv, RepackInv, CleanupInv, StepFailsInv, RemovePartsFailsInv
  <1> QED BY <1>1, <1>2, <1>3, <1>4, <1>5, <1>6 DEF Work

\* The commands and stores stay within Inv: what a store holds as a package is
\* one, whatever command wrote it and wherever it failed.
THEOREM PipelineInvariant == Spec => []Inv
  <1>1. Init => Inv
    BY InitInv
  <1>2. Inv /\ [Next]_vars => Inv'
    BY InvokeInv, WorkInv, EnvironmentInv, StutterInv DEF Next
  <1> QED BY <1>1, <1>2, PTL DEF Spec

-----------------------------------------------------------------------------
LEMMA InvCompletes == Inv => SelectionIsComplete
  <1> SUFFICES ASSUME Inv PROVE SelectionIsComplete
    OBVIOUS
  <1>1. Succeeded("create") => CompleteIn(dir, mem.def.comps, "all", mem.def.build)
    BY DEF Inv, Ended
  <1>2. Succeeded("load") /\ mem.def.arch # "skeleton" =>
            CompleteIn(dir, mem.def.comps, cmd.types, mem.def.build)
    BY DEF Inv, Opened, Succeeded
  <1>3. \A comps, types, build : CompleteIn(dir, comps, types, build) => Complete(comps, types, build)
    BY DEF CompleteIn, Complete
  <1> QED BY <1>1, <1>2, <1>3 DEF SelectionIsComplete

\* However many components, images and registries there are, and whatever
\* filter, layers or store it is loaded from: a package that a create or a load
\* is done with has the tarball of each of its components, as it was built, and
\* each image with all of its blobs.
THEOREM LoadedIsComplete == Spec => []SelectionIsComplete
  BY PipelineInvariant, InvCompletes, PTL

\* However its tags move while a package is built, the package asks for a zarf
\* that knows multi-platform images when it has one, and with a previous
\* package it leaves out only what that has and no moving tag names.
THEOREM TagMovesAreMet == Spec => []MovedTagsAreMet
  <1>1. Inv => MovedTagsAreMet
    BY DEF Inv, Ended, Made, Covers, MovedTagsAreMet, IndexIsRequired, DifferentialCovers
  <1> QED BY <1>1, PipelineInvariant, PTL

LEMMA InvSignatures == Inv => SignaturesAreTrue
  <1> SUFFICES ASSUME Inv PROVE SignaturesAreTrue
    OBVIOUS
  <1>1. VerifiedIsSigned
    BY DEF Inv, Opened, VerifiedIsSigned, Succeeded
  <1>2. SignIsAllOrNothing
    BY DEF Inv, Ended, SignIsAllOrNothing, Plain, Step, At
  <1>3. SignedStoresVerify
    BY DEF Inv, Stores, GoodTar, GoodEntry, Sound, Package, Plain, SignedStoresVerify
  <1> QED BY <1>1, <1>2, <1>3 DEF SignaturesAreTrue

\* A load with a key ends well only on that key's signature over the definition
\* it read, SignPackage leaves a definition and its signature or neither, and
\* no store holds a package as signed without its signature.
THEOREM SignaturesHold == Spec => []SignaturesAreTrue
  BY PipelineInvariant, InvSignatures, PTL

LEMMA InvSplits == Inv => SplitIsWhole
  <1> SUFFICES ASSUME Inv, Succeeded("create"), Splits
               PROVE  /\ parts[Target].count = Cardinality(DOMAIN parts[Target].chunks)
                      /\ Joined(parts[Target].chunks) = [state |-> "whole", files |-> dir]
    BY DEF SplitIsWhole
  <1> DEFINE n == NumChunks(dir)
             chunks == parts[Target].chunks
  <1>1. Written(n) /\ parts[Target].count = n /\ n \in Nat \ {0}
    BY DEF Inv, Ended
  <1>2. DOMAIN chunks = 1 .. n /\ \A k \in 1 .. n : chunks[k] = dir
    BY <1>1 DEF Written
  <1>3. Cardinality(1 .. n) = n
    <2> HIDE DEF n
    <2>1. Cardinality(1 .. n) = IF 1 > n THEN 0 ELSE n - 1 + 1
      BY <1>1, FS_Interval
    <2> QED BY <1>1, <2>1
  <1>4. 1 \in DOMAIN chunks /\ chunks[1] = dir
    BY <1>1, <1>2
  <1> QED BY <1>1, <1>2, <1>3, <1>4 DEF Joined

\* However large the archive is and whatever parts an earlier run left behind,
\* the parts after a create are as many as their header says, and put together
\* they are the archive.
THEOREM SplitsAreWhole == Spec => []SplitIsWhole
  BY PipelineInvariant, InvSplits, PTL

-----------------------------------------------------------------------------
\* The registries implement the catalog.
LEMMA AllPullable ==
    ASSUME Inv, NEW r \in Remotes, NEW x \in DOMAIN registry[r].index
    PROVE  Pullable(registry[r], x) = registry[r].index[x]
  BY DEF Inv, Stores, Pullable

\* Only TagIndex changes what a tag stands for.
LEMMA TagsKept ==
    ASSUME Inv, Next, ~TagIndex, NEW r \in Remotes
    PROVE  registry'[r].index = registry[r].index
  <1>1. DOMAIN registry = Remotes /\ \A x \in Remotes : DOMAIN registry[x] = {"blobs", "index"}
    BY DEF Inv, Stores
  <1>2. ASSUME NEW s, NEW some, registry' = [registry EXCEPT ![s].blobs = @ \cup some]
        PROVE  registry'[r].index = registry[r].index
    BY <1>1, <1>2
  <1>3. CASE registry' = registry
    BY <1>3
  <1>4. CASE Invoke
    BY <1>3, <1>4 DEF Invoke, CreatePackage, PublishSkeleton, LoadPackage, PublishPackage,
       PublishFromOCI,
                      SignCommand, Start, stores
  <1>5. CASE Environment
    BY <1>3, <1>5 DEF Environment
  <1>6. CASE Work
    <2>1. CASE RegistryStep
      <3>1. CASE CopyLayers
        BY <1>2, <3>1 DEF CopyLayers
      <3> QED BY <1>3, <2>1, <3>1 DEF RegistryStep, CheckPushable, ResolveSource, PullOCI
    <2>2. CASE PushFails
      BY <1>2, <2>2 DEF PushFails
    <2>3. CASE AssembleStep
      BY <1>3, <2>3 DEF AssembleStep, StartAssembly, StartSkeleton, AssembleComponent,
         AddSBOMAndValues,
                        AddDocumentation, WriteChecksums, WriteDefinition
    <2>4. CASE CheckSigned \/ Repack \/ Cleanup \/ StepFails \/ RemovePartsFails
      BY <1>3, <2>4 DEF CheckSigned, Repack, Cleanup, StepFails, RemovePartsFails, stores
    <2> QED BY <1>3, <1>6, <2>1, <2>2, <2>3, <2>4 DEF Work, stores
  <1> QED BY <1>4, <1>5, <1>6 DEF Next

LEMMA SoundHasAllFiles ==
    ASSUME NEW m, Sound(m)
    PROVE  HasAllFiles(m)
  BY DEF Sound, Package, Plain, Matches, HasAllFiles

\* What a catalog's reader sees of the registries.
Tags == [r \in Remotes |-> [x \in DOMAIN registry[r].index |-> Pullable(registry[r], x)]]

LEMMA TagsAre ==
    ASSUME Inv
    PROVE  /\ DOMAIN Tags = Remotes
           /\ \A r \in Remotes : /\ DOMAIN Tags[r] = DOMAIN registry[r].index
                                 /\ \A x \in DOMAIN Tags[r] : Tags[r][x] = registry[r].index[x]
  BY AllPullable DEF Tags

LEMMA TagsStutter ==
    ASSUME Inv, Inv', \A r \in Remotes : registry'[r].index = registry[r].index
    PROVE  Tags' = Tags
  <1>1. \A r \in Remotes : \A x \in DOMAIN registry'[r].index : Pullable(registry'[r], x) = registry'[r].index[x]
    BY DEF Inv, Stores, Pullable
  <1>2. \A r \in Remotes : \A x \in DOMAIN registry[r].index : Pullable(registry[r], x) = registry[r].index[x]
    BY AllPullable
  <1> QED BY <1>1, <1>2 DEF Tags

LEMMA TagPublishes ==
    ASSUME Inv, Inv', TagIndex
    PROVE  /\ cmd.dst \in Remotes
           /\ DOMAIN Tags'[cmd.dst] = DOMAIN Tags[cmd.dst] \cup {Tagged}
           /\ HasAllFiles(Tags'[cmd.dst][Tagged])
           /\ \A x \in DOMAIN Tags[cmd.dst] \ {Tagged} : Tags'[cmd.dst][x] = Tags[cmd.dst][x]
           /\ \A s \in Remotes \ {cmd.dst} : Tags'[s] = Tags[s]
  <1> DEFINE r == cmd.dst
             ref == Tagged
  <1>1. /\ r \in Remotes /\ Step("push", 2)
        /\ \A x \in Remotes : x # r => registry'[x] = registry[x]
        /\ DOMAIN registry'[r].index = DOMAIN registry[r].index \cup {ref}
        /\ registry'[r].index[ref] = Manifested
        /\ \A x \in DOMAIN registry[r].index : x # ref => registry'[r].index[x] = registry[r].index[x]
    BY TagRegistry
  <1>2. Sound(Manifested)
    BY <1>1, TaggedSound DEF GoodEntry
  <1>3. \A s \in Remotes : \A x \in DOMAIN registry'[s].index : Pullable(registry'[s], x) = registry'[s].index[x]
    BY DEF Inv, Stores, Pullable
  <1>4. \A s \in Remotes : /\ DOMAIN Tags'[s] = DOMAIN registry'[s].index
                          /\ \A x \in DOMAIN registry'[s].index : Tags'[s][x] = registry'[s].index[x]
    BY <1>3 DEF Tags
  <1>5. \A s \in Remotes : /\ DOMAIN Tags[s] = DOMAIN registry[s].index
                          /\ \A x \in DOMAIN registry[s].index : Tags[s][x] = registry[s].index[x]
    BY TagsAre
  <1>6. ASSUME NEW s \in Remotes \ {r} PROVE Tags'[s] = Tags[s]
    <2>1. registry'[s] = registry[s]
      BY <1>1
    <2> QED BY <2>1 DEF Tags
  <1> HIDE DEF r, ref
  <1>7. /\ DOMAIN Tags'[r] = DOMAIN Tags[r] \cup {ref} /\ Tags'[r][ref] = Manifested
        /\ \A x \in DOMAIN Tags[r] \ {ref} : Tags'[r][x] = Tags[r][x]
    BY <1>1, <1>4, <1>5
  <1>8. HasAllFiles(Tags'[r][ref])
    BY <1>2, <1>7, SoundHasAllFiles
  <1> QED BY <1>1, <1>6, <1>7, <1>8 DEF r, ref

LEMMA CatalogPublishes ==
    ASSUME NEW r \in Remotes, NEW ref, DOMAIN Tags'[r] = DOMAIN Tags[r] \cup {ref}, HasAllFiles(Tags'[r][ref]),
           \A x \in DOMAIN Tags[r] \ {ref} : Tags'[r][x] = Tags[r][x],
           \A s \in Remotes \ {r} : Tags'[s] = Tags[s]
    PROVE  Catalog!Next
  <1>1. ref \in DOMAIN Tags'[r]
    OBVIOUS
  <1>2. Catalog!Publish(r, ref)
    BY DEF Catalog!Publish, Tags
  <1> QED BY <1>1, <1>2 DEF Catalog!Next, Tags

LEMMA StepImplementsCatalog ==
    ASSUME Inv, Inv', [Next]_vars
    PROVE  [Catalog!Next]_Tags
  <1>1. CASE TagIndex
    BY <1>1, TagPublishes, CatalogPublishes
  <1>2. CASE Next /\ ~TagIndex
    BY <1>2, TagsKept, TagsStutter
  <1>3. CASE UNCHANGED vars
    BY <1>3, TagsStutter DEF vars
  <1> QED BY <1>1, <1>2, <1>3

\* Whatever registries, packages and retries there are, a publish, a copy or a
\* create is to those who pull one step at which a whole package, with every
\* layer of it, takes its place under its tag and architecture, and nothing
\* else changes.
THEOREM PublishIsOneStep == Spec => ImplementsCatalog
  <1>1. Init => Catalog!Init
    BY DEF Init, RegistryInit, NoFiles, Catalog!Init
  <1>2. Inv /\ Inv' /\ [Next]_vars => [Catalog!Next]_Tags
    BY StepImplementsCatalog
  <1> QED BY <1>1, <1>2, PipelineInvariant, PTL DEF Spec, ImplementsCatalog, Catalog!Spec, Tags
=============================================================================
