---------------------------- MODULE PackageImport ---------------------------
(***************************************************************************)
(* resolveImports: the composition of a v1alpha1 package.  A component may *)
(* import a component of the package in another directory, or of a         *)
(* skeleton in a registry; the import is resolved first, its paths are     *)
(* made relative to the importing package, and what the importing          *)
(* component says is laid over it.  The recursion is a stack of frames.    *)
(*                                                                         *)
(* A directory is a position and a relative path a displacement, so that   *)
(* joining two paths adds them: a path is right when the position of the   *)
(* package plus the path is the position of the package that declared it.  *)
(***************************************************************************)
EXTENDS Integers, SequencesExt

CONSTANTS
    Loc,        \* directories (v1alpha1) or component config files (v1beta1)
    At,         \* the position of each
    HeadLoc,    \* the package that is loaded
    Cache,      \* where the components of a skeleton are unpacked
    Arch, Flavor,
    MaxDepth    \* bound: how long a chain of imports is followed

VARIABLES
    docs,       \* the definition in each directory
    skeleton,   \* the package the registry holds
    stack,      \* one frame for every call that is under way
    loading,    \* "importing", "composed", "failed" or what Load adds to it
    resolved    \* the definition that comes out

importVars == <<docs, skeleton, stack, loading, resolved>>

-----------------------------------------------------------------------------
(* Laying one component over another.                                      *)

compatibleComponent(c) ==
    /\ c.arch \in {"", Arch}
    /\ c.flavor \in {"", Flavor}

\* Exactly one of a path, which is relative, and an OCI URL, without templates.
validateComponentCompose(c) == ~c.import.bad /\ (c.import.path = {} \/ ~c.import.url)

getComponentToImportName(c) == IF c.import.name # "" THEN c.import.name ELSE c.name

\* Mutated: a path that is made relative a second time is left alone.
MakePathRelativeOnce(path, dir) ==
    IF path.remote \/ path.at # 0 THEN path ELSE [path EXCEPT !.at = @ + dir]

\* URLs and absolute paths stay.
makePathRelativeTo(path, dir) ==
    IF path.remote THEN path ELSE [path EXCEPT !.at = @ + dir]

Rebase(paths, dir) == [i \in DOMAIN paths |-> makePathRelativeTo(paths[i], dir)]

\* An action that names no directory runs in the default one of its own set.
fixActionPaths(set, dir) ==
    [set EXCEPT !.list = [i \in DOMAIN @ |->
        [@[i] EXCEPT !.dir = {dir + d : d \in IF @ # {} THEN @ ELSE {set.defaultDir}}]]]

\* Of the action sets only onCreate runs in the directories of the sources.
fixPaths(c, dir) ==
    [c EXCEPT
        !.items = Rebase(@, dir),
        !.charts = [i \in DOMAIN @ |->
            [@[i] EXCEPT !.values = Rebase(@, dir),
                         !.local = {makePathRelativeTo(p, dir) : p \in @}]],
        !.manifests = [i \in DOMAIN @ |-> [@[i] EXCEPT !.files = Rebase(@, dir)]],
        !.onCreate = fixActionPaths(@, dir)]

First(a, b) == IF a # "" THEN a ELSE b

\* Who a component is, what it is called and whether it is optional is said
\* by the importing one; the operating system may be given only once.
overrideMetadata(c, o) ==
    [c EXCEPT !.name = o.name, !.default = o.default, !.required = o.required,
              !.flavor = First(o.flavor, @), !.os = First(o.os, @),
              !.templates = @ \union o.templates]

RedefinesOS(c, o) == c.os # "" /\ o.os # ""

overrideDeprecated(c, o) == [c EXCEPT !.group = o.group]

\* Actions are appended; their defaults are those of the importing component.
overrideActions(c, o) ==
    [c EXCEPT !.onCreate = [defaultDir |-> o.onCreate.defaultDir,
                            list |-> @.list \o o.onCreate.list],
              !.onDeploy = @ \o o.onDeploy, !.onRemove = @ \o o.onRemove]

\* Mutated: the values files of the imported chart are replaced.
ReplaceChartValues(c, o) ==
    [c EXCEPT !.ns = First(o.ns, @), !.url = IF o.url # {} THEN o.url ELSE @,
              !.values = o.values, !.maps = @ \o o.maps]

\* The local path of the importing chart is not looked at.
overrideChart(c, o) ==
    [c EXCEPT !.ns = First(o.ns, @), !.url = IF o.url # {} THEN o.url ELSE @,
              !.values = @ \o o.values, !.maps = @ \o o.maps]

overrideManifest(m, o) == [m EXCEPT !.ns = First(o.ns, @), !.files = @ \o o.files]

\* Entries of the same name are merged, the others appended.
MergeByName(base, over, Merge(_, _)) ==
    FoldLeft(LAMBDA acc, o :
                IF \E i \in DOMAIN acc : acc[i].name = o.name
                THEN [i \in DOMAIN acc |->
                        IF acc[i].name = o.name THEN Merge(acc[i], o) ELSE acc[i]]
                ELSE Append(acc, o),
             base, over)

\* Mutated: charts of the same name are appended as well.
AppendResources(c, o) ==
    [c EXCEPT !.items = @ \o o.items,
              !.charts = @ \o o.charts,
              !.manifests = MergeByName(@, o.manifests, overrideManifest)]

overrideResources(c, o) ==
    [c EXCEPT !.items = @ \o o.items,
              !.charts = MergeByName(@, o.charts, overrideChart),
              !.manifests = MergeByName(@, o.manifests, overrideManifest)]

-----------------------------------------------------------------------------
(* The calls.                                                              *)

\* The package of a call: all components of the head, those of the imported
\* name otherwise.
Frame(loc, components) ==
    [loc |-> loc, todo |-> components, done |-> << >>,
     vars |-> docs[loc].vars, files |-> << >>, schemas |-> << >>]

Top == stack[Len(stack)]
Current == Top.todo[1]
SetTop(frame) == stack' = [stack EXCEPT ![Len(stack)] = frame]

Dedupe(seq, Key(_)) ==
    FoldLeft(LAMBDA acc, x : IF \E i \in DOMAIN acc : Key(acc[i]) = Key(x)
                             THEN acc ELSE Append(acc, x),
             << >>, seq)

FilePlace(f) == <<f.at, f.of>>
VarName(v) == v.name

\* Mutated: the package's own values files are put before the imported ones.
OwnFilesFirst(frame) ==
    [components |-> frame.done, schemas |-> Dedupe(frame.schemas, FilePlace),
     vars |-> Dedupe(frame.vars, VarName),
     files |-> Dedupe(docs[frame.loc].files \o frame.files, FilePlace)]

\* What a call returns: its own variables and constants before the imported
\* ones, the first of a name stays; its own values files after them, because
\* a later file wins.
Resolved(frame) ==
    [components |-> frame.done, schemas |-> Dedupe(frame.schemas, FilePlace),
     vars |-> Dedupe(frame.vars, VarName),
     files |-> Dedupe(frame.files \o docs[frame.loc].files, FilePlace)]

ImportFails == loading' = "failed" /\ UNCHANGED <<docs, skeleton, stack, resolved>>

\* A component for another target is left out, one without import is kept.
SkipOrKeep ==
    /\ loading = "importing" /\ Top.todo # << >>
    /\ \/ /\ ~compatibleComponent(Current)
          /\ SetTop([Top EXCEPT !.todo = Tail(@)])
       \/ /\ compatibleComponent(Current)
          /\ Current.import.path = {} /\ ~Current.import.url /\ ~Current.import.bad
          /\ SetTop([Top EXCEPT !.todo = Tail(@), !.done = Append(@, Current)])
    /\ UNCHANGED <<docs, skeleton, loading, resolved>>

Importing ==
    /\ loading = "importing" /\ Top.todo # << >>
    /\ compatibleComponent(Current)
    /\ Current.import.path # {} \/ Current.import.url \/ Current.import.bad

\* The directories of the calls under way are compared with the path as it is
\* written, which is that of the directory or that of the file in it.
OnChain(to) == ~to.file /\ \E i \in DOMAIN stack : stack[i].loc = to.loc

\* The imported package must be there and be of the same API version.
Importable == {l \in Loc : docs[l].version = "v1alpha1"}

RefuseImport ==
    /\ Importing
    /\ \/ ~validateComponentCompose(Current)
       \/ \E to \in Current.import.path : OnChain(to) \/ to.loc \notin Importable
    /\ ImportFails

\* The recursive call, for the components of the imported name.  A cycle of
\* imports by file is never found: the chain is cut at MaxDepth.
DescendPath ==
    /\ Importing /\ validateComponentCompose(Current) /\ Len(stack) < MaxDepth
    /\ \E to \in Current.import.path :
          /\ to.loc \in Importable /\ ~OnChain(to)
          /\ stack' = Append(stack, Frame(to.loc,
                SelectSeq(docs[to.loc].components,
                          LAMBDA c : c.name = getComponentToImportName(Current))))
    /\ UNCHANGED <<docs, skeleton, loading, resolved>>

\* The importing component laid over the one compatible component found.
Compose(frame, imported, dir) ==
    LET c == frame.todo[1]
        found == SelectSeq(imported.components, LAMBDA x :
                    x.name = getComponentToImportName(c) /\ compatibleComponent(x))
        base == overrideMetadata(fixPaths(found[1], dir), c)
    IN  IF Len(found) # 1 \/ RedefinesOS(found[1], c) THEN {}
        ELSE {[frame EXCEPT
            !.todo = Tail(@),
            !.done = Append(@, overrideResources(
                        overrideActions(overrideDeprecated(base, c), c), c)),
            !.vars = @ \o imported.vars,
            !.files = @ \o Rebase(imported.files, dir),
            !.schemas = @ \o Rebase(imported.schemas, dir)]}

\* A call returns to the one that made it.
AscendPath ==
    /\ loading = "importing" /\ Top.todo = << >> /\ Len(stack) > 1
    /\ LET caller == stack[Len(stack) - 1]
           result == Resolved(Top)
           own == IF docs[Top.loc].schema
                  THEN <<[of |-> Top.loc, at |-> 0, remote |-> FALSE]>> ELSE << >>
           composed == Compose(caller, [result EXCEPT !.schemas = own \o @],
                               At[Top.loc] - At[caller.loc])
       IN  \/ composed = {} /\ ImportFails
           \/ \E frame \in composed :
                 /\ stack' = Append(SubSeq(stack, 1, Len(stack) - 2), frame)
                 /\ UNCHANGED <<docs, skeleton, loading, resolved>>

\* An import from the registry: the skeleton is composed already.  It is
\* refused when it declares values or a schema, or asks for another version of Zarf, and
\* its component is unpacked under the digest of its layer.
ImportSkeleton ==
    /\ Importing /\ validateComponentCompose(Current) /\ Current.import.url
    /\ LET composed == Compose(Top, skeleton, At[Cache] - At[Top.loc])
           usable == /\ skeleton.published /\ skeleton.versionMet
                     /\ skeleton.files = << >> /\ skeleton.schemas = << >>
       IN  \/ ~usable /\ ImportFails
           \/ composed = {} /\ ImportFails
           \/ /\ usable
              /\ \E frame \in composed : SetTop(frame)
              /\ UNCHANGED <<docs, skeleton, loading, resolved>>

Composed ==
    /\ loading = "importing" /\ Len(stack) = 1 /\ Top.todo = << >>
    /\ loading' = "composed" /\ resolved' = Resolved(Top) /\ stack' = << >>
    /\ UNCHANGED <<docs, skeleton>>

ImportStep ==
    SkipOrKeep \/ RefuseImport \/ DescendPath \/ AscendPath \/ ImportSkeleton \/ Composed

-----------------------------------------------------------------------------
(***************************************************************************)
(* resolveImportsV1Beta1: a component of a v1beta1 package imports         *)
(* component configs, files that hold one component each.  The entries of  *)
(* an import are variants, one of which must fit the target.  The first    *)
(* frame of the stack is the package, the others are the chain of specs    *)
(* that is being resolved.                                                 *)
(***************************************************************************)

NoValues == [files |-> << >>, schemas |-> << >>]

\* Mutated: the default directory of the importing component is used for the
\* imported actions too.
FixActionsLate(set, dir) == set

fixActionPathsV1Beta1(set, dir) ==
    LET default == IF set.defaultDir = {} THEN {0} ELSE set.defaultDir
    IN  [set EXCEPT !.list = [i \in DOMAIN @ |->
            [@[i] EXCEPT !.dir = {dir + d : d \in IF @ # {} THEN @ ELSE default}]]]

fixPathsV1Beta1(c, dir) ==
    [c EXCEPT
        !.items = Rebase(@, dir),
        !.charts = [i \in DOMAIN @ |->
            [@[i] EXCEPT !.values = Rebase(@, dir),
                         !.local = {makePathRelativeTo(p, dir) : p \in @}]],
        !.manifests = [i \in DOMAIN @ |-> [@[i] EXCEPT !.files = Rebase(@, dir)]],
        !.onCreate = fixActionPathsV1Beta1(@, dir)]

\* A chart has one source: giving another one replaces it.
mergeChart(c, o) ==
    [c EXCEPT !.ns = First(o.ns, @), !.local = IF o.local # {} THEN o.local ELSE @,
              !.values = @ \o o.values, !.maps = @ \o o.maps]

mergeManifest(m, o) == [m EXCEPT !.ns = First(o.ns, @), !.files = @ \o o.files]

mergeActionSet(base, head) ==
    [defaultDir |-> IF head.defaultDir # {} THEN head.defaultDir ELSE base.defaultDir,
     list |-> base.list \o head.list]

\* The name, and whether it is optional, is not part of the spec.
mergeComponentSpec(imported, o) ==
    [o EXCEPT
        !.os = First(@, imported.os), !.arch = First(@, imported.arch),
        !.flavor = First(@, imported.flavor),
        !.items = imported.items \o @,
        !.charts = MergeByName(imported.charts, @, mergeChart),
        !.manifests = MergeByName(imported.manifests, @, mergeManifest),
        !.onCreate = mergeActionSet(imported.onCreate, @),
        !.onDeploy = imported.onDeploy \o @, !.onRemove = imported.onRemove \o @,
        !.import = [local |-> << >>, bad |-> FALSE]]

\* Values files are later-wins, schemas earlier-wins.
mergeImportedValues(loc, inherited, dir) ==
    [files |-> Rebase(inherited.files \o docs[loc].files, dir),
     schemas |-> Rebase((IF docs[loc].schema
                         THEN <<[of |-> loc, at |-> 0, remote |-> FALSE]>> ELSE << >>)
                        \o inherited.schemas, dir)]

-----------------------------------------------------------------------------
SpecFrame(loc, component) == [loc |-> loc, spec |-> component, inherited |-> NoValues]

InPackage == loading = "importing" /\ Len(stack) = 1
InChain == loading = "importing" /\ Len(stack) > 1

NextComponent ==
    /\ InPackage /\ Top.todo # << >>
    /\ IF compatibleComponent(Current)
       THEN stack' = Append(stack, SpecFrame(HeadLoc, Current))
       ELSE SetTop([Top EXCEPT !.todo = Tail(@)])
    /\ UNCHANGED <<docs, skeleton, loading, resolved>>

InCycle(loc) == \E i \in 2..Len(stack) : stack[i].loc = loc

\* Every entry is read, and refused when it is on the chain, before the one
\* that fits is chosen.
Variants == SelectSeq(Top.spec.import.local, LAMBDA l : compatibleComponent(docs[l].components[1]))

RefuseVariant ==
    /\ InChain
    /\ \/ Top.spec.import.bad
       \/ \E i \in DOMAIN Top.spec.import.local :
             LET l == Top.spec.import.local[i] IN InCycle(l) \/ ~docs[l].config
       \/ Top.spec.import.local # << >> /\ Len(Variants) # 1
    /\ ImportFails

DescendVariant ==
    /\ InChain /\ Top.spec.import.local # << >> /\ ~Top.spec.import.bad
    /\ \A i \in DOMAIN Top.spec.import.local :
          LET l == Top.spec.import.local[i] IN ~InCycle(l) /\ docs[l].config
    /\ Len(Variants) = 1
    /\ stack' = Append(stack, SpecFrame(Variants[1], docs[Variants[1]].components[1]))
    /\ UNCHANGED <<docs, skeleton, loading, resolved>>

AscendVariant ==
    /\ InChain /\ Len(stack) > 2 /\ Top.spec.import.local = << >> /\ ~Top.spec.import.bad
    /\ LET below == stack[Len(stack) - 1]
           dir == At[Top.loc] - At[below.loc]
       IN  stack' = Append(SubSeq(stack, 1, Len(stack) - 2),
                [below EXCEPT
                    !.spec = mergeComponentSpec(fixPathsV1Beta1(Top.spec, dir), @),
                    !.inherited = mergeImportedValues(Top.loc, Top.inherited, dir)])
    /\ UNCHANGED <<docs, skeleton, loading, resolved>>

\* The merged spec is the component's.
FinishComponent ==
    /\ InChain /\ Len(stack) = 2 /\ Top.spec.import.local = << >> /\ ~Top.spec.import.bad
    /\ stack' = <<[stack[1] EXCEPT
                    !.todo = Tail(@), !.done = Append(@, Top.spec),
                    !.files = @ \o Top.inherited.files,
                    !.schemas = @ \o Top.inherited.schemas]>>
    /\ UNCHANGED <<docs, skeleton, loading, resolved>>

ImportStepV1Beta1 ==
    \/ NextComponent \/ RefuseVariant \/ DescendVariant
    \/ AscendVariant \/ FinishComponent \/ Composed
=============================================================================
