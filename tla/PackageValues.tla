---------------------------- MODULE PackageValues ---------------------------
(***************************************************************************)
(* The values of a deployment: files of the package and of the user merged *)
(* over each other, references to them checked before anything is          *)
(* deployed, and actions that set more of them on the way.                 *)
(*                                                                         *)
(* A Values map is a function from the paths of its nodes to "map" or, for *)
(* a scalar, to whoever gave it.                                           *)
(***************************************************************************)
EXTENDS Integers, FiniteSets, SequencesExt

CONSTANT Given      \* what users give: values files in order, and --set-values

VARIABLE dep        \* the deployment of the chosen components

Empty == [p \in {} |-> "map"]
Scalar(who) == [r \in {<< >>} |-> who]

\* What is a map on both sides is merged; otherwise the source replaces it.
DeepMerge(v, s) ==
    LET kept == {p \in DOMAIN v : \A q \in DOMAIN s : IsStrictPrefix(q, p) => s[q] = "map"}
    IN  [p \in DOMAIN s \union kept |-> IF p \in DOMAIN s THEN s[p] ELSE v[p]]

ParseFiles(trees) == FoldLeft(DeepMerge, Empty, trees)

Found(v, path) == path = << >> \/ path \in DOMAIN v

After(path, q) == SubSeq(q, Len(path) + 1, Len(q))

\* The value at a path, the whole map for the root.
Extract(v, path) ==
    LET nodes == {path} \union {q \in DOMAIN v : IsPrefix(path, q)}
    IN  [r \in {After(path, q) : q \in nodes} |->
            IF path \o r = << >> THEN "map" ELSE v[path \o r]]

\* A scalar on the way to the path; only a map can be merged into the root.
NoWay(v, path) == \E q \in DOMAIN v : IsStrictPrefix(q, path) /\ v[q] # "map"
CannotSet(v, path, new) == NoWay(v, path) \/ (path = << >> /\ new[<< >>] # "map")

SetValue(v, path, new) ==
    LET parents == {SubSeq(path, 1, n) : n \in 1 .. Len(path) - 1}
        nodes == (parents \union {path \o r : r \in DOMAIN new}) \ {<< >>}
    IN  DeepMerge(v, [q \in nodes |-> IF q \in parents THEN "map" ELSE new[After(path, q)]])

Delete(v, path) == [q \in {q \in DOMAIN v : ~IsPrefix(path, q)} |-> v[q]]

\* parseValues: the flags are a Go map, set in whatever order it is ranged over.
Orders(flags) == {o \in [1 .. Cardinality(flags) -> flags] : IsInjective(o)}

parseValues(files, order) ==
    FoldLeft(LAMBDA acc, path :
                IF acc.err \/ CannotSet(acc.vals, path, Scalar("flag"))
                THEN [acc EXCEPT !.err = TRUE]
                ELSE [acc EXCEPT !.vals = SetValue(@, path, Scalar("flag"))],
             [err |-> FALSE, vals |-> ParseFiles(files)], order)

\* Mutated: the values of the package are laid over those of the user.
PackageOverUser(package, overrides) == DeepMerge(overrides, package)

loadDeploymentValues(package, overrides) == DeepMerge(package, overrides)

-----------------------------------------------------------------------------
(* The check of all references before the first component.                 *)

Phase(c, at) == SelectSeq(c.onDeploy, LAMBDA a : a.at = at)

\* ReferencedKeys of the templated files of a component.
componentFileSources(c) ==
    LET refs(files) == UNION {files[i].refs : i \in DOMAIN files}
    IN  refs(c.items) \union UNION {refs(c.manifests[i].files) : i \in DOMAIN c.manifests}
            \union UNION {refs(c.charts[i].values) : i \in DOMAIN c.charts}

MapSources(c) ==
    UNION {{c.charts[i].maps[j].source : j \in DOMAIN c.charts[i].maps} : i \in DOMAIN c.charts}

hasValue(d, path) == (\E k \in d.keys : IsPrefix(k, path)) \/ Found(d.vals, path)

addAction(d, a) ==
    [d EXCEPT !.keys = @ \union {a.setValues[i].key : i \in DOMAIN a.setValues}]

checkAction(d, a) == a.templated => \A r \in a.refs : hasValue(d, r)

CheckActions(acc, actions) ==
    FoldLeft(LAMBDA x, a : [ok |-> x.ok /\ checkAction(x.d, a), d |-> addAction(x.d, a)],
             acc, actions)

CheckResources(acc, c) ==
    [acc EXCEPT !.ok = @ /\ \A r \in componentFileSources(c) \union MapSources(c) :
                                hasValue(acc.d, r)]

\* Mutated: the actions are looked at before the files.
CheckActionsFirst(acc, c) ==
    CheckResources(
        CheckActions(acc, Phase(c, "before") \o Phase(c, "after") \o Phase(c, "success")
                              \o Phase(c, "failure")), c)

checkComponent(acc, c) ==
    CheckActions(CheckResources(CheckActions(acc, Phase(c, "before")), c),
                 Phase(c, "after") \o Phase(c, "success") \o Phase(c, "failure"))

validateTemplateRefs(components, vals) ==
    FoldLeft(checkComponent, [ok |-> TRUE, d |-> [vals |-> vals, keys |-> {}]], components).ok

-----------------------------------------------------------------------------
(* What the deployment does with them.                                     *)

Unresolved(v, refs) == {r \in refs : ~Found(v, r)}

\* Excluded paths are deleted in a copy before a mapping is extracted.
MapValue(acc, m) ==
    LET source == FoldLeft(Delete, acc.vals, m.exclude)
        bad == \E i \in DOMAIN m.exclude : NoWay(acc.vals, m.exclude[i])
    IN  IF acc.err # "" THEN acc
        ELSE IF bad THEN [acc EXCEPT !.err = "conflict"]
        ELSE IF ~Found(source, m.source)
        THEN [acc EXCEPT !.err = "missing", !.refs = {m.source}]
        ELSE IF CannotSet(acc.overrides, m.target, Extract(source, m.source))
        THEN [acc EXCEPT !.err = "conflict"]
        ELSE [acc EXCEPT !.overrides = SetValue(@, m.target, Extract(source, m.source))]

generateValuesOverrides(chart, vals) ==
    FoldLeft(MapValue, [err |-> "", refs |-> {}, vals |-> vals, overrides |-> Empty], chart.maps)

\* parseAndSetValue for every value of an action; what is set before a conflict
\* stays set.
SetValues(v, values) ==
    FoldLeft(LAMBDA acc, s : IF acc.err \/ CannotSet(acc.vals, s.key, s.out)
                             THEN [acc EXCEPT !.err = TRUE]
                             ELSE [acc EXCEPT !.vals = SetValue(@, s.key, s.out)],
             [err |-> FALSE, vals |-> v], values)

NoDeploy == [phase |-> "off", comp |-> 1, next |-> 1, vals |-> Empty, flags |-> {},
             missing |-> {}, printed |-> {}]

Stop == [dep EXCEPT !.phase = IF @ = "failure" THEN "failed" ELSE "failure", !.next = 1]

\* The error of an onFailure action is only logged.
Misses(refs) ==
    dep' = [Stop EXCEPT !.missing = IF dep.phase = "failure" THEN @ ELSE @ \union refs]

NextPhase(components) ==
    LET last == dep.comp = Len(components)
        succ == [before |-> "resources", resources |-> "after", after |-> "success",
                 success |-> IF last THEN "deployed" ELSE "before", failure |-> "failed"]
    IN  [dep EXCEPT !.phase = succ[@], !.next = 1,
                    !.comp = IF dep.phase = "success" /\ ~last THEN @ + 1 ELSE @]

\* runAction: the command is rendered, run, and its output set; a wait is only
\* rendered and waited for.
RunAction(components) ==
    LET list == Phase(components[dep.comp], dep.phase)
        a == list[dep.next]
        values == IF a.wait # {} THEN << >> ELSE a.setValues
        set == SetValues(dep.vals, values)
        keys == {values[i].key : i \in DOMAIN values}
    IN  /\ dep.phase \in {"before", "after", "success", "failure"}
        /\ IF dep.next > Len(list) THEN dep' = NextPhase(components)
           ELSE IF a.templated /\ Unresolved(dep.vals, a.refs) # {}
           THEN Misses(Unresolved(dep.vals, a.refs))
           ELSE \/ dep' = Stop
                \/ /\ set.err
                   /\ dep' = [Stop EXCEPT !.vals = set.vals, !.printed = @ \union keys]
                \/ /\ ~set.err
                   /\ dep' = [dep EXCEPT !.next = @ + 1, !.vals = set.vals,
                                         !.printed = @ \union keys]

\* Files, then charts with their values files and mappings, then manifests.
DeployResources(components) ==
    LET c == components[dep.comp]
        unresolved == Unresolved(dep.vals, componentFileSources(c))
        maps == {generateValuesOverrides(c.charts[i], dep.vals) : i \in DOMAIN c.charts}
        lost == UNION {m.refs : m \in maps}
    IN  /\ dep.phase = "resources"
        /\ IF unresolved \union lost # {} THEN Misses(unresolved \union lost)
           ELSE \/ dep' = Stop
                \/ (\A m \in maps : m.err = "") /\ dep' = NextPhase(components)

=============================================================================
