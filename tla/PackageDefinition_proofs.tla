----------------------- MODULE PackageDefinition_proofs ----------------------
(***************************************************************************)
(* Proofs about the life of a zarf.yaml, for all documents that an author  *)
(* may write and however often they are written again.                     *)
(***************************************************************************)
EXTENDS PackageDefinition, SequenceTheorems, FiniteSetTheorems, TLAPS

-----------------------------------------------------------------------------
(* Lists.                                                                  *)

IsList(s) == Len(s) \in Nat /\ s = [i \in 1 .. Len(s) |-> s[i]]

LEMMA ListOf ==
    ASSUME NEW S, NEW s \in Seq(S)
    PROVE  IsList(s) /\ DOMAIN s = 1 .. Len(s) /\ \A i \in 1 .. Len(s) : s[i] \in S
BY DEF IsList

\* A function on the first n numbers is a list.
LEMMA FunctionIsList ==
    ASSUME NEW n \in Nat, NEW s, s = [i \in 1 .. n |-> s[i]]
    PROVE  IsList(s) /\ Len(s) = n /\ DOMAIN s = 1 .. n /\ s \in Seq({s[i] : i \in 1 .. n})
<1> DEFINE S == {s[i] : i \in 1 .. n}
<1>1. \A i \in 1 .. n : s[i] \in S
  OBVIOUS
<1> HIDE DEF S
<1>2. s \in Seq(S) /\ Len(s) = n
  BY <1>1
<1> QED BY <1>2 DEF IsList, S

LEMMA ListDomain ==
    ASSUME NEW s, IsList(s)
    PROVE  Len(s) \in Nat /\ DOMAIN s = 1 .. Len(s) /\ s \in Seq({s[i] : i \in 1 .. Len(s)})
BY FunctionIsList DEF IsList

LEMMA SameList ==
    ASSUME NEW s, IsList(s), NEW t, IsList(t), Len(s) = Len(t),
           \A i \in 1 .. Len(s) : s[i] = t[i]
    PROVE  s = t
BY DEF IsList

LEMMA MapList ==
    ASSUME NEW s, IsList(s), NEW t, t = [i \in DOMAIN s |-> t[i]]
    PROVE  IsList(t) /\ Len(t) = Len(s) /\ DOMAIN t = DOMAIN s /\ DOMAIN s = 1 .. Len(s)
BY ListDomain, FunctionIsList

LEMMA ConcatList ==
    ASSUME NEW s, IsList(s), NEW t, IsList(t)
    PROVE  LET u == s \o t IN
           /\ IsList(u) /\ Len(u) = Len(s) + Len(t)
           /\ \A i \in 1 .. Len(s) : u[i] = s[i]
           /\ \A i \in 1 .. Len(t) : u[Len(s) + i] = t[i]
           /\ \A i \in 1 .. Len(u) : i > Len(s) => i - Len(s) \in 1 .. Len(t) /\ u[i] = t[i - Len(s)]
<1> DEFINE S == {s[i] : i \in 1 .. Len(s)} \cup {t[i] : i \in 1 .. Len(t)}
<1>1. /\ Len(s) \in Nat /\ s = [i \in 1 .. Len(s) |-> s[i]]
      /\ Len(t) \in Nat /\ t = [i \in 1 .. Len(t) |-> t[i]]
  BY DEF IsList
<1>2. (\A i \in 1 .. Len(s) : s[i] \in S) /\ (\A i \in 1 .. Len(t) : t[i] \in S)
  OBVIOUS
<1> HIDE DEF S
<1>3. s \in Seq(S) /\ t \in Seq(S)
  BY <1>1, <1>2
<1>4. s \o t \in Seq(S) /\ Len(s \o t) = Len(s) + Len(t)
  BY <1>3
<1>5. \A i \in 1 .. Len(s) + Len(t) : (s \o t)[i] = IF i <= Len(s) THEN s[i] ELSE t[i - Len(s)]
  BY <1>3
<1>6. IsList(s \o t)
  BY <1>4, ListOf
<1>7. /\ \A i \in 1 .. Len(s) : (s \o t)[i] = s[i]
      /\ \A i \in 1 .. Len(t) : (s \o t)[Len(s) + i] = t[i]
      /\ \A i \in 1 .. Len(s) + Len(t) : i > Len(s) =>
             i - Len(s) \in 1 .. Len(t) /\ (s \o t)[i] = t[i - Len(s)]
  BY <1>1, <1>5
<1> QED BY <1>4, <1>6, <1>7

LEMMA EmptyList == IsList(<<>>) /\ Len(<<>>) = 0 /\ DOMAIN <<>> = {}
<1>1. <<>> \in Seq({}) /\ Len(<<>>) = 0 /\ DOMAIN <<>> = {}
  OBVIOUS
<1>2. IsList(<<>>)
  BY <1>1, ListOf
<1> QED BY <1>1, <1>2

LEMMA ConcatEmpty ==
    ASSUME NEW s, IsList(s)
    PROVE  s \o <<>> = s /\ <<>> \o s = s
<1>1. IsList(s \o <<>>) /\ Len(s \o <<>>) = Len(s) + 0 /\ \A i \in 1 .. Len(s) : (s \o <<>>)[i] = s[i]
  BY EmptyList, ConcatList
<1>2. /\ IsList(<<>> \o s) /\ Len(<<>> \o s) = 0 + Len(s)
      /\ \A i \in 1 .. Len(s) : (<<>> \o s)[0 + i] = s[i]
  BY EmptyList, ConcatList
<1>3. Len(s) \in Nat
  BY ListDomain
<1>4. s \o <<>> = s
  BY <1>1, <1>3, SameList
<1>5. <<>> \o s = s
  BY <1>2, <1>3, SameList
<1> QED BY <1>4, <1>5

-----------------------------------------------------------------------------
(* The two lists of values files.                                          *)

LEMMA IntervalSize ==
    ASSUME NEW a \in Int, NEW b \in Int
    PROVE  IsFiniteSet(a .. b) /\ Cardinality(a .. b) = IF a > b THEN 0 ELSE b - a + 1
BY FS_Interval

\* What is kept of a list is a list.
LEMMA PathsAreList ==
    ASSUME NEW values, IsList(values), NEW kept, kept \subseteq DOMAIN values
    PROVE  IsList(PathsOf(values, kept))
<1> DEFINE s == PathsOf(values, kept)
<1>1. Len(values) \in Nat /\ DOMAIN values = 1 .. Len(values)
  BY ListDomain
<1>2. IsFiniteSet(1 .. Len(values))
  BY <1>1, IntervalSize
<1>3. IsFiniteSet(kept)
  BY <1>1, <1>2, FS_Subset
<1>4. Cardinality(kept) \in Nat
  BY <1>3, FS_CardinalityType
<1>5. s = [k \in 1 .. Cardinality(kept) |->
             values[CHOOSE i \in kept : Cardinality({j \in kept : j <= i}) = k].path]
  BY DEF PathsOf
<1>6. s = [k \in 1 .. Cardinality(kept) |-> s[k]]
  BY <1>5
<1> HIDE DEF s
<1>7. IsList(s)
  BY <1>4, <1>6, FunctionIsList
<1> QED BY <1>7 DEF s

Files(n, m) == n + 1 .. n + m

\* When those kept are the files n + 1 to n + m, they are kept in order.
LEMMA PathsOfInterval ==
    ASSUME NEW values, NEW n \in Nat, NEW m \in Nat
    PROVE  /\ IsList(PathsOf(values, Files(n, m))) /\ Len(PathsOf(values, Files(n, m))) = m
           /\ \A k \in 1 .. m : PathsOf(values, Files(n, m))[k] = values[n + k].path
<1> USE DEF Files
<1> DEFINE kept == n + 1 .. n + m
           s == PathsOf(values, kept)
           Below(i) == {j \in kept : j <= i}
           At(k) == CHOOSE i \in kept : Cardinality(Below(i)) = k
<1>1. s = [k \in 1 .. Cardinality(kept) |-> values[At(k)].path]
  BY DEF PathsOf
<1> HIDE DEF s
<1>2. Cardinality(kept) = m
  BY IntervalSize
<1>3. ASSUME NEW i \in kept PROVE Cardinality(Below(i)) = i - n
  <2>1. Below(i) = n + 1 .. i
    OBVIOUS
  <2> HIDE DEF Below
  <2>2. i \in Int /\ n + 1 \in Int /\ ~(n + 1 > i)
    OBVIOUS
  <2>3. Cardinality(n + 1 .. i) = i - (n + 1) + 1
    BY <2>2, IntervalSize
  <2> QED BY <2>1, <2>2, <2>3
<1> HIDE DEF Below
<1>4. ASSUME NEW k \in 1 .. m PROVE At(k) = n + k
  <2>1. n + k \in kept /\ Cardinality(Below(n + k)) = k
    BY <1>3
  <2>2. \A i \in kept : Cardinality(Below(i)) = k => i = n + k
    BY <1>3
  <2> QED BY <2>1, <2>2
<1> HIDE DEF At
<1>5. s = [k \in 1 .. m |-> s[k]] /\ \A k \in 1 .. m : s[k] = values[n + k].path
  BY <1>1, <1>2, <1>4
<1>6. IsList(s) /\ Len(s) = m
  BY <1>5, FunctionIsList
<1> QED BY <1>5, <1>6 DEF s

Templated(values) == {i \in DOMAIN values : values[i].templating}

\* Both lists come back as they were.
LEMMA SplitInverts ==
    ASSUME NEW plain, IsList(plain), NEW templated, IsList(templated), NEW values,
           values = AlphaValuesFilesToGeneric(plain, templated)
    PROVE  /\ IsList(values) /\ Len(values) = Len(plain) + Len(templated)
           /\ PathsOf(values, DOMAIN values \ Templated(values)) = plain
           /\ PathsOf(values, Templated(values)) = templated
<1> DEFINE p == [i \in DOMAIN plain |-> [path |-> plain[i], templating |-> FALSE]]
           q == [i \in DOMAIN templated |-> [path |-> templated[i], templating |-> TRUE]]
           n == Len(plain)
           m == Len(templated)
<1>1. values = p \o q
  BY DEF AlphaValuesFilesToGeneric, MapSeq
<1>2. /\ n \in Nat /\ m \in Nat /\ IsList(p) /\ Len(p) = n /\ IsList(q) /\ Len(q) = m
      /\ \A i \in 1 .. n : p[i].path = plain[i] /\ ~p[i].templating
      /\ \A i \in 1 .. m : q[i].path = templated[i] /\ q[i].templating
  BY ListDomain, MapList
<1> HIDE DEF p, q
<1>3. /\ IsList(values) /\ Len(values) = n + m
      /\ \A i \in 1 .. n : values[i] = p[i]
      /\ \A i \in 1 .. m : values[n + i] = q[i]
      /\ \A i \in 1 .. n + m : i > n => i - n \in 1 .. m /\ values[i] = q[i - n]
  <2>1. IsList(p) /\ IsList(q)
    BY <1>2
  <2>2. /\ IsList(values) /\ Len(values) = Len(p) + Len(q)
        /\ \A i \in 1 .. Len(p) : values[i] = p[i]
        /\ \A i \in 1 .. Len(q) : values[Len(p) + i] = q[i]
        /\ \A i \in 1 .. Len(values) :
             i > Len(p) => i - Len(p) \in 1 .. Len(q) /\ values[i] = q[i - Len(p)]
    BY <1>1, <2>1, ConcatList
  <2>3. Len(p) = n /\ Len(q) = m
    BY <1>2
  <2> QED BY <2>2, <2>3
<1>4. DOMAIN values = 1 .. n + m
  BY <1>3, ListDomain
<1> HIDE DEF n, m
<1>5. n \in Nat /\ m \in Nat /\ 0 \in Nat
  BY <1>2
<1>6. \A i \in 1 .. n + m : values[i].templating <=> i > n
  BY <1>2, <1>3, <1>5
<1>7. Templated(values) = Files(n, m) /\ DOMAIN values \ Templated(values) = Files(0, n)
  BY <1>4, <1>5, <1>6 DEF Templated, Files
<1>8. PathsOf(values, Files(0, n)) = plain
  <2> DEFINE s == PathsOf(values, Files(0, n))
  <2>1. IsList(s) /\ Len(s) = n /\ \A k \in 1 .. n : s[k] = values[0 + k].path
    BY <1>5, PathsOfInterval
  <2> HIDE DEF s
  <2>2. ASSUME NEW k \in 1 .. n PROVE s[k] = plain[k]
    <3>1. s[k] = values[0 + k].path
      BY <2>1, Zenon
    <3>2. 0 + k = k
      BY <1>5
    <3>3. values[k] = p[k] /\ p[k].path = plain[k]
      BY <1>2, <1>3
    <3> QED BY <3>1, <3>2, <3>3, Zenon
  <2>3. s = plain
    BY <2>1, <2>2, SameList DEF n
  <2> QED BY <2>3 DEF s
<1>9. PathsOf(values, Files(n, m)) = templated
  <2> DEFINE s == PathsOf(values, Files(n, m))
  <2>1. IsList(s) /\ Len(s) = m /\ \A k \in 1 .. m : s[k] = values[n + k].path
    BY <1>5, PathsOfInterval
  <2> HIDE DEF s
  <2>2. \A k \in 1 .. m : s[k] = templated[k]
    BY <1>2, <1>3, <2>1
  <2>3. s = templated
    BY <2>1, <2>2, SameList DEF m
  <2> QED BY <2>3 DEF s
<1>10. /\ PathsOf(values, DOMAIN values \ Templated(values)) = plain
       /\ PathsOf(values, Templated(values)) = templated
  BY <1>7, <1>8, <1>9, Zenon
<1> QED BY <1>3, <1>10 DEF n, m

-----------------------------------------------------------------------------
(* Actions, and the fields of the records that the conversions make.       *)

IsAction(a) ==
    a = [cmd |-> a.cmd, wait |-> a.wait, ns |-> a.ns, setVar |-> a.setVar, setVars |-> a.setVars]

ActionList(s) == IsList(s) /\ \A i \in 1 .. Len(s) : IsAction(s[i])

AlphaChartOK(ch) ==
    /\ ch = [at |-> ch.at, schema |-> ch.schema, ns |-> ch.ns, plain |-> ch.plain,
             templated |-> ch.templated]
    /\ IsList(ch.plain) /\ IsList(ch.templated)

AlphaComponentOK(c) ==
    /\ c = [name |-> c.name, copied |-> c.copied, image |-> c.image, required |-> c.required,
            import |-> c.import, health |-> c.health, scripts |-> c.scripts,
            removed |-> c.removed, repo |-> c.repo, chart |-> c.chart, manifest |-> c.manifest,
            onCreate |-> c.onCreate, before |-> c.before, after |-> c.after, success |-> c.success]
    /\ c.repo = [url |-> c.repo.url, ref |-> c.repo.ref]
    /\ AlphaChartOK(c.chart)
    /\ c.manifest = [template |-> c.manifest.template, ns |-> c.manifest.ns]
    /\ ActionList(c.onCreate) /\ ActionList(c.before) /\ ActionList(c.after) /\ ActionList(c.success)
    /\ IsList(c.scripts.prepare) /\ IsList(c.scripts.before) /\ IsList(c.scripts.after)
    /\ c.scripts = [prepare |-> c.scripts.prepare, before |-> c.scripts.before,
                    after |-> c.scripts.after]

AlphaOK(x) ==
    /\ x = [api |-> x.api, kind |-> x.kind, copied |-> x.copied, url |-> x.url, note |-> x.note,
            override |-> x.override, checksum |-> x.checksum, signed |-> x.signed,
            provenance |-> x.provenance, requirements |-> x.requirements,
            migrations |-> x.migrations, component |-> x.component]
    /\ AlphaComponentOK(x.component)

LEMMA ActionsOK ==
    ASSUME NEW s \in Seq(Action)
    PROVE  ActionList(s)
<1>1. IsList(s) /\ \A i \in 1 .. Len(s) : s[i] \in Action
  BY ListOf
<1>2. \A a \in Action : IsAction(a)
  BY DEF Action, IsAction
<1> QED BY <1>1, <1>2 DEF ActionList

LEMMA AlphaPackageOK ==
    ASSUME NEW x \in AlphaPackage
    PROVE  AlphaOK(x) /\ IsList(x.component.health)
<1> DEFINE c == x.component
           A == {"", "v1alpha1"}
           K == {"", "ZarfPackageConfig", "ZarfInitConfig"}
<1>a. AlphaPackage =
        [api : A, kind : K, copied : STRING, url : STRING, note : STRING, override : OptionalBool,
         checksum : STRING, signed : OptionalBool, provenance : SUBSET STRING,
         requirements : SUBSET STRING, migrations : SUBSET STRING, component : AlphaComponent]
  BY Zenon DEF AlphaPackage
<1> HIDE DEF A, K
<1>1. x = [api |-> x.api, kind |-> x.kind, copied |-> x.copied, url |-> x.url, note |-> x.note,
            override |-> x.override, checksum |-> x.checksum, signed |-> x.signed,
            provenance |-> x.provenance, requirements |-> x.requirements,
            migrations |-> x.migrations, component |-> x.component] /\ c \in AlphaComponent
  BY <1>a
<1> HIDE DEF c
<1>2. /\ c = [name |-> c.name, copied |-> c.copied, image |-> c.image, required |-> c.required,
            import |-> c.import, health |-> c.health, scripts |-> c.scripts,
            removed |-> c.removed, repo |-> c.repo, chart |-> c.chart, manifest |-> c.manifest,
            onCreate |-> c.onCreate, before |-> c.before, after |-> c.after, success |-> c.success]
      /\ c.repo = [url |-> c.repo.url, ref |-> c.repo.ref]
      /\ c.chart = [at |-> c.chart.at, schema |-> c.chart.schema, ns |-> c.chart.ns,
                    plain |-> c.chart.plain, templated |-> c.chart.templated]
      /\ c.chart.plain \in Seq(STRING) /\ c.chart.templated \in Seq(STRING)
      /\ c.manifest = [template |-> c.manifest.template, ns |-> c.manifest.ns]
      /\ c.onCreate \in Seq(Action) /\ c.before \in Seq(Action)
      /\ c.after \in Seq(Action) /\ c.success \in Seq(Action) /\ c.scripts \in Scripts
      /\ c.health \in Seq(STRING)
  BY <1>1 DEF AlphaComponent
<1>3. /\ c.scripts.prepare \in Seq(STRING) /\ c.scripts.before \in Seq(STRING)
      /\ c.scripts.after \in Seq(STRING)
      /\ c.scripts = [prepare |-> c.scripts.prepare, before |-> c.scripts.before,
                      after |-> c.scripts.after]
  BY <1>2 DEF Scripts
<1>4. AlphaComponentOK(c)
  BY <1>2, <1>3, ListOf, ActionsOK DEF AlphaComponentOK, AlphaChartOK
<1>5. IsList(c.health)
  BY <1>2, ListOf
<1> QED BY <1>1, <1>4, <1>5 DEF AlphaOK, c

\* Clearing setVariable.
Clear(s) == [i \in DOMAIN s |-> [s[i] EXCEPT !.setVar = ""]]

LEMMA SetVar ==
    ASSUME NEW a, IsAction(a), NEW z
    PROVE  /\ IsAction([a EXCEPT !.setVar = z])
           /\ [a EXCEPT !.setVar = z].setVar = z
           /\ [a EXCEPT !.setVar = z].cmd = a.cmd
           /\ [a EXCEPT !.setVar = z].wait = a.wait
           /\ [a EXCEPT !.setVar = z].ns = a.ns
           /\ [a EXCEPT !.setVar = z].setVars = a.setVars
           /\ a.setVar = z => [a EXCEPT !.setVar = z] = a
<1>1. PICK b, c, d, e, f : a = [cmd |-> b, wait |-> c, ns |-> d, setVar |-> e, setVars |-> f]
  BY DEF IsAction
<1> DEFINE x == [a EXCEPT !.setVar = z]
<1>2. x = [cmd |-> b, wait |-> c, ns |-> d, setVar |-> z, setVars |-> f]
  BY <1>1
<1> HIDE DEF x
<1>3. /\ IsAction(x) /\ x.setVar = z /\ x.cmd = a.cmd /\ x.wait = a.wait /\ x.ns = a.ns
      /\ x.setVars = a.setVars /\ (a.setVar = z => x = a)
  BY <1>1, <1>2 DEF IsAction
<1> QED BY <1>3 DEF x

LEMMA ClearedAction ==
    ASSUME NEW a, IsAction(a)
    PROVE  /\ IsAction([a EXCEPT !.setVar = ""])
           /\ [a EXCEPT !.setVar = ""].setVar = ""
           /\ [a EXCEPT !.setVar = ""].cmd = a.cmd
           /\ [a EXCEPT !.setVar = ""].wait = a.wait
           /\ [a EXCEPT !.setVar = ""].ns = a.ns
           /\ [a EXCEPT !.setVar = ""].setVars = a.setVars
           /\ a.setVar = "" => [a EXCEPT !.setVar = ""] = a
BY SetVar, Zenon

LEMMA ClearFacts ==
    ASSUME NEW s, ActionList(s)
    PROVE  /\ ActionList(Clear(s)) /\ Len(Clear(s)) = Len(s)
           /\ \A i \in 1 .. Len(s) : /\ Clear(s)[i] = [s[i] EXCEPT !.setVar = ""]
                                     /\ Clear(s)[i].setVar = "" /\ Clear(s)[i].cmd = s[i].cmd
                                     /\ Clear(s)[i].wait = s[i].wait /\ Clear(s)[i].ns = s[i].ns
           /\ Clear(Clear(s)) = Clear(s)
           /\ (\A i \in 1 .. Len(s) : s[i].setVar = "") => Clear(s) = s
<1>1. IsList(s) /\ (\A i \in 1 .. Len(s) : IsAction(s[i])) /\ DOMAIN s = 1 .. Len(s)
  BY ListDomain DEF ActionList
<1>2. Clear(s) = [i \in DOMAIN s |-> Clear(s)[i]]
  BY DEF Clear
<1>3. IsList(Clear(s)) /\ Len(Clear(s)) = Len(s) /\ DOMAIN Clear(s) = 1 .. Len(s)
  BY <1>1, <1>2, MapList
<1>4. \A i \in 1 .. Len(s) : Clear(s)[i] = [s[i] EXCEPT !.setVar = ""]
  BY <1>1 DEF Clear
<1>5. \A i \in 1 .. Len(s) :
        /\ IsAction(Clear(s)[i]) /\ Clear(s)[i].setVar = "" /\ Clear(s)[i].cmd = s[i].cmd
        /\ Clear(s)[i].wait = s[i].wait /\ Clear(s)[i].ns = s[i].ns
        /\ s[i].setVar = "" => Clear(s)[i] = s[i]
  <2> SUFFICES ASSUME NEW i \in 1 .. Len(s)
               PROVE  /\ IsAction(Clear(s)[i]) /\ Clear(s)[i].setVar = "" /\ Clear(s)[i].cmd = s[i].cmd
                      /\ Clear(s)[i].wait = s[i].wait /\ Clear(s)[i].ns = s[i].ns
                      /\ s[i].setVar = "" => Clear(s)[i] = s[i]
    OBVIOUS
  <2>1. IsAction(s[i])
    BY <1>1
  <2>2. Clear(s)[i] = [s[i] EXCEPT !.setVar = ""]
    BY <1>4
  <2> QED BY <2>1, <2>2, ClearedAction
<1>6. ActionList(Clear(s))
  BY <1>3, <1>5 DEF ActionList
<1>7. ASSUME NEW t, ActionList(t), \A i \in 1 .. Len(t) : t[i].setVar = ""
      PROVE  Clear(t) = t
  <2>1. IsList(t) /\ (\A i \in 1 .. Len(t) : IsAction(t[i])) /\ DOMAIN t = 1 .. Len(t)
    BY <1>7, ListDomain DEF ActionList
  <2>2. Clear(t) = [i \in DOMAIN t |-> Clear(t)[i]]
    BY DEF Clear
  <2>3. IsList(Clear(t)) /\ Len(Clear(t)) = Len(t)
    BY <2>1, <2>2, MapList
  <2>4. \A i \in 1 .. Len(t) : Clear(t)[i] = [t[i] EXCEPT !.setVar = ""]
    BY <2>1 DEF Clear
  <2>5. \A i \in 1 .. Len(t) : Clear(t)[i] = t[i]
    BY <1>7, <2>1, <2>4, ClearedAction
  <2> QED BY <2>1, <2>3, <2>5, SameList
<1>8. Clear(Clear(s)) = Clear(s)
  BY <1>3, <1>5, <1>6, <1>7
<1> QED BY <1>3, <1>4, <1>5, <1>6, <1>7, <1>8

-----------------------------------------------------------------------------
(* From v1alpha1 to the generic package and back.                          *)

LEMMA ComponentFrom ==
    ASSUME NEW c
    PROVE  AlphaComponentFromGeneric(c) =
        [name |-> c.name, copied |-> c.copied, image |-> c.image.name,
         required |-> RequiredFromGeneric(c), import |-> AlphaImportFromGeneric(c.import),
         health |-> c.health, scripts |-> c.scripts, removed |-> c.removed,
         repo |-> AlphaReposFromGeneric(c.repo), chart |-> AlphaChartFromGeneric(c.chart),
         manifest |-> AlphaManifestFromGeneric(c.manifest),
         onCreate |-> c.actions.onCreate, before |-> c.actions.before,
         after |-> c.actions.after, success |-> c.actions.success]
<1> DEFINE im == c.image.name
           re == RequiredFromGeneric(c)
           imp == AlphaImportFromGeneric(c.import)
           rp == AlphaReposFromGeneric(c.repo)
           ch == AlphaChartFromGeneric(c.chart)
           ma == AlphaManifestFromGeneric(c.manifest)
           d(x, y, z, w) ==
             [name |-> c.name, copied |-> c.copied, image |-> im, required |-> re, import |-> imp,
              health |-> c.health, scripts |-> c.scripts, removed |-> c.removed, repo |-> rp,
              chart |-> ch, manifest |-> ma,
              onCreate |-> x, before |-> y, after |-> z, success |-> w]
           e == <<>>
           o1 == c.actions.onCreate
           o2 == c.actions.before
           o3 == c.actions.after
           o4 == c.actions.success
<1>1. AlphaComponentFromGeneric(c) =
        [d(e, e, e, e) EXCEPT !.onCreate = o1, !.before = o2, !.after = o3, !.success = o4]
  BY Zenon DEF AlphaComponentFromGeneric, AlphaActionsFromGeneric
<1> HIDE DEF im, re, imp, rp, ch, ma, e, o1, o2, o3, o4
<1>2. [d(e, e, e, e) EXCEPT !.onCreate = o1] = d(o1, e, e, e)
  OBVIOUS
<1>3. [d(o1, e, e, e) EXCEPT !.before = o2] = d(o1, o2, e, e)
  OBVIOUS
<1>4. [d(o1, o2, e, e) EXCEPT !.after = o3] = d(o1, o2, o3, e)
  OBVIOUS
<1>5. [d(o1, o2, o3, e) EXCEPT !.success = o4] = d(o1, o2, o3, o4)
  OBVIOUS
<1> HIDE DEF d
<1>6. [d(e, e, e, e) EXCEPT !.onCreate = o1, !.before = o2, !.after = o3, !.success = o4] =
      d(o1, o2, o3, o4)
  BY <1>2, <1>3, <1>4, <1>5
<1>7. AlphaComponentFromGeneric(c) = d(o1, o2, o3, o4)
  BY <1>1, <1>6, Zenon
<1> QED BY <1>7, Zenon DEF d, im, re, imp, rp, ch, ma, o1, o2, o3, o4

\* The record of a component is determined by its fields.
LEMMA ChartSkips ==
    ASSUME NEW ch
    PROVE  /\ AlphaChartToGeneric(ch).source.type = "none"
           /\ AlphaChartToGeneric(ch).skipSchema <=> ch.schema = "false"
<1>1. AlphaChartToGeneric(ch).source = NoSource
  BY DEF AlphaChartToGeneric
<1>2. NoSource.type = "none"
  BY DEF NoSource
<1>3. AlphaChartToGeneric(ch).skipSchema = (ch.schema = "false")
  BY Zenon DEF AlphaChartToGeneric
<1>4. AlphaChartToGeneric(ch).skipSchema <=> ch.schema = "false"
  BY <1>3, Zenon
<1> QED BY <1>1, <1>2, <1>4

\* A component comes back from the generic one as it was.
LEMMA ComponentRoundTrip ==
    ASSUME NEW c, AlphaComponentOK(c)
    PROVE  AlphaComponentFromGeneric(AlphaComponentToGeneric(c)) = c
<1> DEFINE g == AlphaComponentToGeneric(c)
           d == AlphaComponentFromGeneric(g)
<1>1. /\ g.name = c.name /\ g.copied = c.copied /\ g.image.name = c.image
      /\ g.health = c.health /\ g.scripts = c.scripts /\ g.removed = c.removed
  BY DEF AlphaComponentToGeneric
<1>a. (g.optional <=> ~IsTrue(c.required)) /\ g.required = c.required
  BY DEF AlphaComponentToGeneric
<1>b. g.import.path = c.import /\ g.import.local = <<>>
  BY DEF AlphaComponentToGeneric
<1>c. g.repo = AlphaReposToGeneric(c.repo)
  BY DEF AlphaComponentToGeneric
<1>d. g.chart = AlphaChartToGeneric(c.chart)
  BY DEF AlphaComponentToGeneric
<1>e. g.manifest = AlphaManifestToGeneric(c.manifest)
  BY DEF AlphaComponentToGeneric
<1>f. g.actions = AlphaActionsToGeneric(c)
  BY DEF AlphaComponentToGeneric
<1>2. d = [name |-> g.name, copied |-> g.copied, image |-> g.image.name,
         required |-> RequiredFromGeneric(g), import |-> AlphaImportFromGeneric(g.import),
         health |-> g.health, scripts |-> g.scripts, removed |-> g.removed,
         repo |-> AlphaReposFromGeneric(g.repo), chart |-> AlphaChartFromGeneric(g.chart),
         manifest |-> AlphaManifestFromGeneric(g.manifest),
         onCreate |-> g.actions.onCreate, before |-> g.actions.before,
         after |-> g.actions.after, success |-> g.actions.success]
  BY ComponentFrom
<1> HIDE DEF g, d
<1>3. RequiredFromGeneric(g) = c.required
  BY <1>a DEF RequiredFromGeneric, IsTrue
<1>4. AlphaImportFromGeneric(g.import) = c.import
  BY <1>b DEF AlphaImportFromGeneric
<1>5. AlphaReposFromGeneric(g.repo) = c.repo
  <2>1. c.repo = [url |-> c.repo.url, ref |-> c.repo.ref]
    BY DEF AlphaComponentOK
  <2>2. g.repo.url = c.repo.url /\ g.repo.urlRef = c.repo.ref /\ g.repo.ref = "nil"
    BY <1>c DEF AlphaReposToGeneric
  <2> QED BY <2>1, <2>2 DEF AlphaReposFromGeneric
<1>6. AlphaManifestFromGeneric(g.manifest) = c.manifest
  <2>1. c.manifest = [template |-> c.manifest.template, ns |-> c.manifest.ns]
    BY DEF AlphaComponentOK
  <2>2. /\ g.manifest.template = c.manifest.template /\ g.manifest.ns = c.manifest.ns
        /\ g.manifest.templating <=> IsTrue(c.manifest.template)
    BY <1>e DEF AlphaManifestToGeneric
  <2>3. TemplateFromGeneric(g.manifest) = c.manifest.template
    BY <2>2 DEF TemplateFromGeneric, IsTrue
  <2> QED BY <2>1, <2>2, <2>3 DEF AlphaManifestFromGeneric
<1>7. AlphaChartFromGeneric(g.chart) = c.chart
  <2> DEFINE ch == c.chart
             h == g.chart
  <2>1. AlphaChartOK(ch)
    BY DEF AlphaComponentOK
  <2>2. h.at = ch.at /\ h.schema = ch.schema /\ h.ns = ch.ns
    BY <1>d DEF AlphaChartToGeneric
  <2>a. h.skipSchema <=> ch.schema = "false"
    BY <1>d, ChartSkips
  <2>b. h.source.type = "none"
    BY <1>d, ChartSkips
  <2>c. h.values = AlphaValuesFilesToGeneric(ch.plain, ch.templated)
    BY <1>d DEF AlphaChartToGeneric
  <2> HIDE DEF ch, h
  <2>3. AlphaSourceFromGeneric(h) = ch.at
    BY <2>2, <2>b DEF AlphaSourceFromGeneric
  <2>4. SchemaFromGeneric(h) = ch.schema
    BY <2>2, <2>a DEF SchemaFromGeneric
  <2>5. /\ PathsOf(h.values, DOMAIN h.values \ Templated(h.values)) = ch.plain
        /\ PathsOf(h.values, Templated(h.values)) = ch.templated
    BY <2>1, <2>c, SplitInverts DEF AlphaChartOK
  <2>6. AlphaChartFromGeneric(h) =
          [at |-> AlphaSourceFromGeneric(h), schema |-> SchemaFromGeneric(h), ns |-> h.ns,
           plain |-> PathsOf(h.values, DOMAIN h.values \ Templated(h.values)),
           templated |-> PathsOf(h.values, Templated(h.values))]
    BY DEF AlphaChartFromGeneric, Templated
  <2>7. AlphaChartFromGeneric(h) = ch
    BY <2>1, <2>2, <2>3, <2>4, <2>5, <2>6 DEF AlphaChartOK
  <2> QED BY <2>7 DEF ch, h
<1>8. /\ g.actions.onCreate = c.onCreate /\ g.actions.before = c.before
      /\ g.actions.after = c.after /\ g.actions.success = c.success
  BY <1>f DEF AlphaActionsToGeneric
<1>9. d = [name |-> c.name, copied |-> c.copied, image |-> c.image, required |-> c.required,
            import |-> c.import, health |-> c.health, scripts |-> c.scripts,
            removed |-> c.removed, repo |-> c.repo, chart |-> c.chart, manifest |-> c.manifest,
            onCreate |-> c.onCreate, before |-> c.before, after |-> c.after, success |-> c.success]
  BY <1>1, <1>2, <1>3, <1>4, <1>5, <1>6, <1>7, <1>8
<1>10. d = c
  BY <1>9 DEF AlphaComponentOK
<1> QED BY <1>10 DEF d, g

\* And so does a package without the annotation that is reserved.
LEMMA AlphaRoundTrip ==
    ASSUME NEW x, AlphaOK(x), x.note = "", x.kind # "", x.api \in {"", "v1alpha1"}
    PROVE  AlphaFromGeneric(AlphaToGeneric(x)) = x
<1> DEFINE g == AlphaToGeneric(x)
<1>1. /\ g.api = x.api /\ g.kind = x.kind /\ g.copied = x.copied /\ g.url = x.url
      /\ g.note = x.note /\ g.override = x.override /\ g.checksum = x.checksum
      /\ g.buildChecksum = "" /\ g.signed = x.signed /\ g.provenance = x.provenance
      /\ g.requirements = x.requirements /\ g.migrations = x.migrations
      /\ g.component = AlphaComponentToGeneric(x.component)
  BY DEF AlphaToGeneric
<1>2. g.component.service = ""
  BY DEF AlphaToGeneric, AlphaComponentToGeneric
<1>3. AlphaComponentFromGeneric(g.component) = x.component
  BY <1>1, ComponentRoundTrip DEF AlphaOK
<1> HIDE DEF g
<1>4. AlphaFromGeneric(g) =
        [api |-> x.api, kind |-> x.kind, copied |-> x.copied, url |-> x.url, note |-> x.note,
         override |-> x.override, checksum |-> x.checksum, signed |-> x.signed,
         provenance |-> x.provenance, requirements |-> x.requirements,
         migrations |-> x.migrations, component |-> x.component]
  BY <1>1, <1>2, <1>3 DEF AlphaFromGeneric, AlphaMetadataFromGeneric
<1> QED BY <1>4 DEF AlphaOK, g

-----------------------------------------------------------------------------
(* The migrations.                                                         *)

\* A component with other scripts and actions.
With(c, s, l1, l2, l3, l4) ==
    [name |-> c.name, copied |-> c.copied, image |-> c.image, required |-> c.required,
     import |-> c.import, health |-> c.health, scripts |-> s, removed |-> c.removed,
     repo |-> c.repo, chart |-> c.chart, manifest |-> c.manifest,
     onCreate |-> l1, before |-> l2, after |-> l3, success |-> l4]

ScriptsOK(s) ==
    /\ IsList(s.prepare) /\ IsList(s.before) /\ IsList(s.after)
    /\ s = [prepare |-> s.prepare, before |-> s.before, after |-> s.after]

LEMMA WithFields ==
    ASSUME NEW c, NEW s, NEW l1, NEW l2, NEW l3, NEW l4
    PROVE  LET d == With(c, s, l1, l2, l3, l4) IN
           /\ d.name = c.name /\ d.copied = c.copied /\ d.image = c.image /\ d.required = c.required
           /\ d.import = c.import /\ d.health = c.health /\ d.scripts = s /\ d.removed = c.removed
           /\ d.repo = c.repo /\ d.chart = c.chart /\ d.manifest = c.manifest
           /\ d.onCreate = l1 /\ d.before = l2 /\ d.after = l3 /\ d.success = l4
BY DEF With

LEMMA WithIsOK ==
    ASSUME NEW c, AlphaComponentOK(c), NEW s, ScriptsOK(s),
           NEW l1, NEW l2, NEW l3, NEW l4,
           ActionList(l1), ActionList(l2), ActionList(l3), ActionList(l4)
    PROVE  AlphaComponentOK(With(c, s, l1, l2, l3, l4))
<1> DEFINE d == With(c, s, l1, l2, l3, l4)
<1>1. d = [name |-> d.name, copied |-> d.copied, image |-> d.image, required |-> d.required,
            import |-> d.import, health |-> d.health, scripts |-> d.scripts,
            removed |-> d.removed, repo |-> d.repo, chart |-> d.chart, manifest |-> d.manifest,
            onCreate |-> d.onCreate, before |-> d.before, after |-> d.after, success |-> d.success]
  BY DEF With
<1>2. /\ d.repo = c.repo /\ d.chart = c.chart /\ d.manifest = c.manifest /\ d.scripts = s
      /\ d.onCreate = l1 /\ d.before = l2 /\ d.after = l3 /\ d.success = l4
  BY WithFields
<1> HIDE DEF d
<1>3. AlphaComponentOK(d)
  BY <1>1, <1>2 DEF AlphaComponentOK, ScriptsOK
<1> QED BY <1>3 DEF d

LEMMA WithSame ==
    ASSUME NEW c, AlphaComponentOK(c)
    PROVE  /\ c = With(c, c.scripts, c.onCreate, c.before, c.after, c.success)
           /\ ScriptsOK(c.scripts)
BY DEF AlphaComponentOK, With, ScriptsOK

Edited(c, l1, l2, l3, l4) ==
    [c EXCEPT !.onCreate = l1, !.before = l2, !.after = l3, !.success = l4]

LEMMA EditLists ==
    ASSUME NEW c, AlphaComponentOK(c), NEW l1, NEW l2, NEW l3, NEW l4
    PROVE  Edited(c, l1, l2, l3, l4) = With(c, c.scripts, l1, l2, l3, l4)
<1> DEFINE d(a1, a2, a3, a4) == With(c, c.scripts, a1, a2, a3, a4)
           o1 == c.onCreate
           o2 == c.before
           o3 == c.after
           o4 == c.success
<1>1. c = d(o1, o2, o3, o4)
  BY WithSame
<1>2. [d(o1, o2, o3, o4) EXCEPT !.onCreate = l1] = d(l1, o2, o3, o4)
  BY DEF With
<1>3. [d(l1, o2, o3, o4) EXCEPT !.before = l2] = d(l1, l2, o3, o4)
  BY DEF With
<1>4. [d(l1, l2, o3, o4) EXCEPT !.after = l3] = d(l1, l2, l3, o4)
  BY DEF With
<1>5. [d(l1, l2, l3, o4) EXCEPT !.success = l4] = d(l1, l2, l3, l4)
  BY DEF With
<1> HIDE DEF d, o1, o2, o3, o4
<1>6. Edited(c, l1, l2, l3, l4) = d(l1, l2, l3, l4)
  BY <1>1, <1>2, <1>3, <1>4, <1>5 DEF Edited
<1> QED BY <1>6 DEF d

LEMMA EditScripts ==
    ASSUME NEW c, AlphaComponentOK(c), NEW s
    PROVE  [c EXCEPT !.scripts = s] = With(c, s, c.onCreate, c.before, c.after, c.success)
<1> DEFINE d(s0) == With(c, s0, c.onCreate, c.before, c.after, c.success)
<1>1. c = d(c.scripts)
  BY WithSame
<1>2. [d(c.scripts) EXCEPT !.scripts = s] = d(s)
  BY DEF With
<1> HIDE DEF d
<1>3. [c EXCEPT !.scripts = s] = d(s)
  BY <1>1, <1>2
<1> QED BY <1>3 DEF d

LEMMA ClearComponent ==
    ASSUME NEW c, AlphaComponentOK(c)
    PROVE  EditActions(c, LAMBDA a : [a EXCEPT !.setVar = ""]) =
           With(c, c.scripts, Clear(c.onCreate), Clear(c.before), Clear(c.after), Clear(c.success))
<1>1. EditActions(c, LAMBDA a : [a EXCEPT !.setVar = ""]) =
        Edited(c, Clear(c.onCreate), Clear(c.before), Clear(c.after), Clear(c.success))
  BY Zenon DEF EditActions, MapSeq, Clear, Edited
<1> QED BY <1>1, EditLists

\* What pluralizing setVariable makes of a list, and the scripts of the migration.
Plural(s) ==
    [i \in DOMAIN s |-> IF s[i].setVar = "" \/ s[i].setVars # {} THEN s[i]
                        ELSE [s[i] EXCEPT !.setVars = {s[i].setVar}]]

RunAll(s) ==
    [i \in DOMAIN s |-> [cmd |-> s[i], wait |-> "none", ns |-> "", setVar |-> "", setVars |-> {}]]

LEMMA PluralComponent ==
    ASSUME NEW c, AlphaComponentOK(c)
    PROVE  PluralizeSetVariable(c) =
           With(c, c.scripts, Plural(c.onCreate), Plural(c.before), Plural(c.after),
                Plural(c.success))
<1>1. PluralizeSetVariable(c) =
        Edited(c, Plural(c.onCreate), Plural(c.before), Plural(c.after), Plural(c.success))
  BY Zenon DEF PluralizeSetVariable, EditActions, MapSeq, Plural, Edited
<1> QED BY <1>1, EditLists

LEMMA ScriptsComponent ==
    ASSUME NEW c, AlphaComponentOK(c)
    PROVE  MigrateScripts(c) =
           With(c, c.scripts, c.onCreate \o RunAll(c.scripts.prepare),
                c.before \o RunAll(c.scripts.before), c.after \o RunAll(c.scripts.after), c.success)
<1> DEFINE l1 == c.onCreate \o RunAll(c.scripts.prepare)
           l2 == c.before \o RunAll(c.scripts.before)
           l3 == c.after \o RunAll(c.scripts.after)
           l4 == c.success
           d(a1, a2, a3) == With(c, c.scripts, a1, a2, a3, l4)
<1>1. MigrateScripts(c) = [c EXCEPT !.onCreate = l1, !.before = l2, !.after = l3]
  BY Zenon DEF MigrateScripts, MapSeq, RunAll
<1> DEFINE o1 == c.onCreate
           o2 == c.before
           o3 == c.after
<1>2. c = d(o1, o2, o3)
  BY WithSame
<1> HIDE DEF l1, l2, l3, l4, o1, o2, o3
<1>3. [d(o1, o2, o3) EXCEPT !.onCreate = l1] = d(l1, o2, o3)
  BY DEF With
<1>4. [d(l1, o2, o3) EXCEPT !.before = l2] = d(l1, l2, o3)
  BY DEF With
<1>5. [d(l1, l2, o3) EXCEPT !.after = l3] = d(l1, l2, l3)
  BY DEF With
<1> HIDE DEF d
<1>6. [c EXCEPT !.onCreate = l1, !.before = l2, !.after = l3] = d(l1, l2, l3)
  BY <1>2, <1>3, <1>4, <1>5
<1>7. MigrateScripts(c) = d(l1, l2, l3)
  BY <1>1, <1>6, Zenon
<1> QED BY <1>7, Zenon DEF d, l1, l2, l3, l4


LEMMA WithWith ==
    ASSUME NEW c, NEW s, NEW l1, NEW l2, NEW l3, NEW l4, NEW z, NEW k1, NEW k2, NEW k3, NEW k4
    PROVE  With(With(c, s, l1, l2, l3, l4), z, k1, k2, k3, k4) = With(c, z, k1, k2, k3, k4)
<1> DEFINE d == With(c, s, l1, l2, l3, l4)
<1>1. /\ d.name = c.name /\ d.copied = c.copied /\ d.image = c.image /\ d.required = c.required
      /\ d.import = c.import /\ d.health = c.health /\ d.removed = c.removed
      /\ d.repo = c.repo /\ d.chart = c.chart /\ d.manifest = c.manifest
  BY WithFields
<1> HIDE DEF d
<1>2. With(d, z, k1, k2, k3, k4) = With(c, z, k1, k2, k3, k4)
  BY <1>1 DEF With
<1> QED BY <1>2 DEF d

LEMMA ConcatActions ==
    ASSUME NEW s, ActionList(s), NEW t, ActionList(t)
    PROVE  ActionList(s \o t)
<1>1. IsList(s) /\ IsList(t) /\ Len(s) \in Nat /\ Len(t) \in Nat
  BY ListDomain DEF ActionList
<1>2. IsList(s \o t)
  BY <1>1, ConcatList
<1>3. ASSUME NEW i \in 1 .. Len(s \o t) PROVE IsAction((s \o t)[i])
  <2>1. CASE i <= Len(s)
    <3>1. i \in 1 .. Len(s)
      BY <1>1, <2>1
    <3>2. (s \o t)[i] = s[i]
      BY <1>1, <3>1, ConcatList
    <3> QED BY <3>1, <3>2 DEF ActionList
  <2>2. CASE i > Len(s)
    <3>1. i - Len(s) \in 1 .. Len(t) /\ (s \o t)[i] = t[i - Len(s)]
      BY <1>1, <2>2, ConcatList
    <3> QED BY <3>1 DEF ActionList
  <2>3. i \in Int
    OBVIOUS
  <2> QED BY <1>1, <2>1, <2>2, <2>3
<1> QED BY <1>2, <1>3 DEF ActionList

LEMMA RunAllFacts ==
    ASSUME NEW s, IsList(s)
    PROVE  /\ ActionList(RunAll(s)) /\ Len(RunAll(s)) = Len(s)
           /\ \A i \in 1 .. Len(s) : RunAll(s)[i].cmd = s[i]
<1>1. RunAll(s) = [i \in DOMAIN s |-> RunAll(s)[i]]
  BY DEF RunAll
<1>2. IsList(RunAll(s)) /\ Len(RunAll(s)) = Len(s) /\ DOMAIN s = 1 .. Len(s)
  BY <1>1, MapList
<1>3. \A i \in 1 .. Len(s) : IsAction(RunAll(s)[i]) /\ RunAll(s)[i].cmd = s[i]
  BY <1>2 DEF RunAll, IsAction
<1> QED BY <1>2, <1>3 DEF ActionList

\* A variable more or less changes neither what an action runs nor what it waits for.
LEMMA SetPlural ==
    ASSUME NEW a, IsAction(a), NEW z
    PROVE  /\ IsAction([a EXCEPT !.setVars = z])
           /\ [a EXCEPT !.setVars = z].cmd = a.cmd
           /\ [a EXCEPT !.setVars = z].wait = a.wait
           /\ [a EXCEPT !.setVars = z].ns = a.ns
<1>1. PICK b, c, d, e, f : a = [cmd |-> b, wait |-> c, ns |-> d, setVar |-> e, setVars |-> f]
  BY DEF IsAction
<1> DEFINE x == [a EXCEPT !.setVars = z]
<1>2. x = [cmd |-> b, wait |-> c, ns |-> d, setVar |-> e, setVars |-> z]
  BY <1>1
<1> HIDE DEF x
<1>3. IsAction(x) /\ x.cmd = a.cmd /\ x.wait = a.wait /\ x.ns = a.ns
  BY <1>1, <1>2 DEF IsAction
<1> QED BY <1>3 DEF x

LEMMA PluralFacts ==
    ASSUME NEW s, ActionList(s)
    PROVE  /\ ActionList(Plural(s)) /\ Len(Plural(s)) = Len(s)
           /\ \A i \in 1 .. Len(s) : /\ Plural(s)[i].cmd = s[i].cmd
                                     /\ Plural(s)[i].wait = s[i].wait /\ Plural(s)[i].ns = s[i].ns
           /\ (\A i \in 1 .. Len(s) : s[i].setVar = "") => Plural(s) = s
<1>1. IsList(s) /\ (\A i \in 1 .. Len(s) : IsAction(s[i])) /\ DOMAIN s = 1 .. Len(s)
  BY ListDomain DEF ActionList
<1>2. Plural(s) = [i \in DOMAIN s |-> Plural(s)[i]]
  BY DEF Plural
<1>3. IsList(Plural(s)) /\ Len(Plural(s)) = Len(s)
  BY <1>1, <1>2, MapList
<1>4. ASSUME NEW i \in 1 .. Len(s)
      PROVE  /\ IsAction(Plural(s)[i]) /\ Plural(s)[i].cmd = s[i].cmd
             /\ Plural(s)[i].wait = s[i].wait /\ Plural(s)[i].ns = s[i].ns
             /\ s[i].setVar = "" => Plural(s)[i] = s[i]
  <2>1. Plural(s)[i] = IF s[i].setVar = "" \/ s[i].setVars # {} THEN s[i]
                       ELSE [s[i] EXCEPT !.setVars = {s[i].setVar}]
    BY <1>1 DEF Plural
  <2>2. IsAction(s[i])
    BY <1>1
  <2>3. CASE s[i].setVar = "" \/ s[i].setVars # {}
    BY <2>1, <2>2, <2>3
  <2>4. CASE ~(s[i].setVar = "" \/ s[i].setVars # {})
    <3> DEFINE z == {s[i].setVar}
    <3>1. Plural(s)[i] = [s[i] EXCEPT !.setVars = z]
      BY <2>1, <2>4
    <3> HIDE DEF z
    <3>2. /\ IsAction([s[i] EXCEPT !.setVars = z])
          /\ [s[i] EXCEPT !.setVars = z].cmd = s[i].cmd
          /\ [s[i] EXCEPT !.setVars = z].wait = s[i].wait
          /\ [s[i] EXCEPT !.setVars = z].ns = s[i].ns
      BY <2>2, SetPlural, Zenon
    <3> QED BY <2>4, <3>1, <3>2, Zenon
  <2> QED BY <2>3, <2>4
<1>5. ActionList(Plural(s))
  BY <1>3, <1>4 DEF ActionList
<1>6. ASSUME \A i \in 1 .. Len(s) : s[i].setVar = "" PROVE Plural(s) = s
  BY <1>1, <1>3, <1>4, <1>6, SameList
<1> QED BY <1>3, <1>4, <1>5, <1>6

BothMigrations == {"scripts-to-actions", "pluralize-set-variable"}

\* What migrateDeprecated makes of the component.
Scripted(x) ==
    IF "scripts-to-actions" \in x.migrations
    THEN [x.component EXCEPT !.scripts = NoScripts] ELSE MigrateScripts(x.component)

Migrated(x) ==
    IF "pluralize-set-variable" \in x.migrations
    THEN ClearSetVariables(Scripted(x)) ELSE PluralizeSetVariable(Scripted(x))

\* A package with other migrations and another component.
PackageWith(x, m, c) ==
    [api |-> x.api, kind |-> x.kind, copied |-> x.copied, url |-> x.url, note |-> x.note,
     override |-> x.override, checksum |-> x.checksum, signed |-> x.signed,
     provenance |-> x.provenance, requirements |-> x.requirements,
     migrations |-> m, component |-> c]

LEMMA PackageEdit ==
    ASSUME NEW x, AlphaOK(x), NEW m, NEW c
    PROVE  /\ [x EXCEPT !.component = c, !.migrations = m] = PackageWith(x, m, c)
           /\ [x EXCEPT !.migrations = m, !.component = c] = PackageWith(x, m, c)
<1> DEFINE d(a, b) == PackageWith(x, a, b)
           xm == x.migrations
           xc == x.component
<1>1. x = d(xm, xc)
  BY DEF AlphaOK, PackageWith
<1> HIDE DEF xm, xc
<1>2. [d(xm, xc) EXCEPT !.component = c] = d(xm, c)
  BY DEF PackageWith
<1>3. [d(xm, c) EXCEPT !.migrations = m] = d(m, c)
  BY DEF PackageWith
<1>4. [d(xm, xc) EXCEPT !.migrations = m] = d(m, xc)
  BY DEF PackageWith
<1>5. [d(m, xc) EXCEPT !.component = c] = d(m, c)
  BY DEF PackageWith
<1> HIDE DEF d
<1>6. [x EXCEPT !.component = c, !.migrations = m] = d(m, c)
  BY <1>1, <1>2, <1>3
<1>7. [x EXCEPT !.migrations = m, !.component = c] = d(m, c)
  BY <1>1, <1>4, <1>5
<1> QED BY <1>6, <1>7 DEF d

LEMMA NoScriptsOK == ScriptsOK(NoScripts) /\ NoScripts.prepare = <<>> /\ NoScripts.before = <<>> /\ NoScripts.after = <<>>
<1>1. NoScripts.prepare = <<>> /\ NoScripts.before = <<>> /\ NoScripts.after = <<>>
  BY DEF NoScripts
<1>2. NoScripts = [prepare |-> NoScripts.prepare, before |-> NoScripts.before, after |-> NoScripts.after]
  BY DEF NoScripts
<1> QED BY <1>1, <1>2, EmptyList DEF ScriptsOK

\* The component after the migration of its scripts.
LEMMA ScriptedFacts ==
    ASSUME NEW x, AlphaOK(x)
    PROVE  LET c == x.component
               y == Scripted(x) IN
           /\ AlphaComponentOK(y)
           /\ "scripts-to-actions" \in x.migrations =>
                y = With(c, NoScripts, c.onCreate, c.before, c.after, c.success)
           /\ "scripts-to-actions" \notin x.migrations =>
                y = With(c, c.scripts, c.onCreate \o RunAll(c.scripts.prepare),
                         c.before \o RunAll(c.scripts.before), c.after \o RunAll(c.scripts.after),
                         c.success)
<1> DEFINE c == x.component
           y == Scripted(x)
           l1 == c.onCreate \o RunAll(c.scripts.prepare)
           l2 == c.before \o RunAll(c.scripts.before)
           l3 == c.after \o RunAll(c.scripts.after)
<1>1. AlphaComponentOK(c)
  BY DEF AlphaOK
<1>2. y = IF "scripts-to-actions" \in x.migrations
          THEN [c EXCEPT !.scripts = NoScripts] ELSE MigrateScripts(c)
  BY Zenon DEF Scripted
<1> HIDE DEF c, y
<1>3. [c EXCEPT !.scripts = NoScripts] = With(c, NoScripts, c.onCreate, c.before, c.after, c.success)
  BY <1>1, EditScripts, Zenon
<1>4. MigrateScripts(c) = With(c, c.scripts, l1, l2, l3, c.success)
  BY <1>1, ScriptsComponent, Zenon
<1>5. /\ ActionList(c.onCreate) /\ ActionList(c.before) /\ ActionList(c.after)
      /\ ActionList(c.success) /\ ScriptsOK(c.scripts)
  BY <1>1, WithSame DEF AlphaComponentOK
<1>6. ActionList(l1) /\ ActionList(l2) /\ ActionList(l3)
  BY <1>5, RunAllFacts, ConcatActions DEF ScriptsOK
<1> HIDE DEF l1, l2, l3
<1>7. AlphaComponentOK(With(c, NoScripts, c.onCreate, c.before, c.after, c.success))
  BY <1>1, <1>5, NoScriptsOK, WithIsOK
<1>8. AlphaComponentOK(With(c, c.scripts, l1, l2, l3, c.success))
  BY <1>1, <1>5, <1>6, WithIsOK
<1>9. CASE "scripts-to-actions" \in x.migrations
  <2>1. y = With(c, NoScripts, c.onCreate, c.before, c.after, c.success)
    BY <1>2, <1>3, <1>9, Zenon
  <2> QED BY <1>7, <1>9, <2>1, Zenon DEF c, y
<1>10. CASE "scripts-to-actions" \notin x.migrations
  <2>1. y = With(c, c.scripts, l1, l2, l3, c.success)
    BY <1>2, <1>4, <1>10, Zenon
  <2> QED BY <1>8, <1>10, <2>1, Zenon DEF c, y, l1, l2, l3
<1> QED BY <1>9, <1>10

LEMMA PackageWithFields ==
    ASSUME NEW x, NEW m, NEW c
    PROVE  LET y == PackageWith(x, m, c) IN
           /\ y.api = x.api /\ y.kind = x.kind /\ y.copied = x.copied /\ y.url = x.url
           /\ y.note = x.note /\ y.override = x.override /\ y.checksum = x.checksum
           /\ y.signed = x.signed /\ y.provenance = x.provenance
           /\ y.requirements = x.requirements /\ y.migrations = m /\ y.component = c
           /\ AlphaComponentOK(c) => AlphaOK(y)
<1> DEFINE y == PackageWith(x, m, c)
<1>1. /\ y.api = x.api /\ y.kind = x.kind /\ y.copied = x.copied /\ y.url = x.url
      /\ y.note = x.note /\ y.override = x.override /\ y.checksum = x.checksum
      /\ y.signed = x.signed /\ y.provenance = x.provenance
      /\ y.requirements = x.requirements /\ y.migrations = m /\ y.component = c
  BY DEF PackageWith
<1>2. y = [api |-> y.api, kind |-> y.kind, copied |-> y.copied, url |-> y.url, note |-> y.note,
            override |-> y.override, checksum |-> y.checksum, signed |-> y.signed,
            provenance |-> y.provenance, requirements |-> y.requirements,
            migrations |-> y.migrations, component |-> y.component]
  BY DEF PackageWith
<1> HIDE DEF y
<1>3. AlphaComponentOK(c) => AlphaOK(y)
  BY <1>1, <1>2 DEF AlphaOK
<1> QED BY <1>1, <1>3 DEF y

\* The component after both migrations.
LEMMA MigratedFacts ==
    ASSUME NEW x, AlphaOK(x)
    PROVE  LET y == Scripted(x)
               z == Migrated(x) IN
           /\ AlphaComponentOK(z)
           /\ "pluralize-set-variable" \in x.migrations =>
                z = With(y, y.scripts, Clear(y.onCreate), Clear(y.before), Clear(y.after),
                         Clear(y.success))
           /\ "pluralize-set-variable" \notin x.migrations =>
                z = With(y, y.scripts, Plural(y.onCreate), Plural(y.before), Plural(y.after),
                         Plural(y.success))
<1> DEFINE y == Scripted(x)
           z == Migrated(x)
           k == With(y, y.scripts, Clear(y.onCreate), Clear(y.before), Clear(y.after), Clear(y.success))
           p == With(y, y.scripts, Plural(y.onCreate), Plural(y.before), Plural(y.after),
                     Plural(y.success))
<1>1. AlphaComponentOK(y)
  BY ScriptedFacts
<1>2. z = IF "pluralize-set-variable" \in x.migrations
          THEN ClearSetVariables(y) ELSE PluralizeSetVariable(y)
  BY Zenon DEF Migrated
<1> HIDE DEF y, z
<1>3. ClearSetVariables(y) = k
  BY <1>1, ClearComponent, Zenon DEF ClearSetVariables
<1>4. PluralizeSetVariable(y) = p
  BY <1>1, PluralComponent, Zenon
<1>5. /\ ActionList(y.onCreate) /\ ActionList(y.before) /\ ActionList(y.after)
      /\ ActionList(y.success) /\ ScriptsOK(y.scripts)
  BY <1>1, WithSame DEF AlphaComponentOK
<1>6. /\ ActionList(Clear(y.onCreate)) /\ ActionList(Clear(y.before))
      /\ ActionList(Clear(y.after)) /\ ActionList(Clear(y.success))
  BY <1>5, ClearFacts
<1>7. /\ ActionList(Plural(y.onCreate)) /\ ActionList(Plural(y.before))
      /\ ActionList(Plural(y.after)) /\ ActionList(Plural(y.success))
  BY <1>5, PluralFacts
<1>8. AlphaComponentOK(k) /\ AlphaComponentOK(p)
  BY <1>1, <1>5, <1>6, <1>7, WithIsOK
<1> HIDE DEF k, p
<1>9. CASE "pluralize-set-variable" \in x.migrations
  <2>1. z = k
    BY <1>2, <1>3, <1>9, Zenon
  <2> QED BY <1>8, <1>9, <2>1, Zenon DEF y, z, k
<1>10. CASE "pluralize-set-variable" \notin x.migrations
  <2>1. z = p
    BY <1>2, <1>4, <1>10, Zenon
  <2> QED BY <1>8, <1>10, <2>1, Zenon DEF y, z, p
<1> QED BY <1>9, <1>10

LEMMA MigrateIs ==
    ASSUME NEW x, AlphaOK(x)
    PROVE  /\ MigrateDeprecated(x) = PackageWith(x, BothMigrations, Migrated(x))
           /\ AlphaOK(MigrateDeprecated(x))
<1> DEFINE z == Migrated(x)
           m == BothMigrations
<1>1. MigrateDeprecated(x) = [x EXCEPT !.component = z, !.migrations = m]
  BY Zenon DEF MigrateDeprecated, Migrated, Scripted, BothMigrations
<1>2. AlphaComponentOK(z)
  BY MigratedFacts
<1> HIDE DEF z, m
<1>3. [x EXCEPT !.component = z, !.migrations = m] = PackageWith(x, m, z)
  BY PackageEdit
<1>4. AlphaOK(PackageWith(x, m, z))
  BY <1>2, PackageWithFields
<1> QED BY <1>1, <1>3, <1>4, Zenon DEF z, m

-----------------------------------------------------------------------------
(* What a package makes Zarf do.                                           *)

LEMMA BehaviourIs ==
    ASSUME NEW x, AlphaOK(x)
    PROVE  LET c == x.component IN
           Behaviour(x) =
             [component |-> With(c, NoScripts, Clear(c.onCreate), Clear(c.before), Clear(c.after),
                                 Clear(c.success)),
              package |-> PackageWith(x, {}, {})]
<1> DEFINE c == x.component
           d == With(c, NoScripts, c.onCreate, c.before, c.after, c.success)
           e == {}
<1>1. Behaviour(x) =
        [component |-> EditActions([c EXCEPT !.scripts = NoScripts], LAMBDA a : [a EXCEPT !.setVar = ""]),
         package |-> [x EXCEPT !.migrations = e, !.component = e]]
  BY Zenon DEF Behaviour
<1>2. AlphaComponentOK(c)
  BY DEF AlphaOK
<1> HIDE DEF c, e
<1>3. [c EXCEPT !.scripts = NoScripts] = d
  BY <1>2, EditScripts, Zenon
<1>4. AlphaComponentOK(d)
  BY <1>2, NoScriptsOK, WithIsOK DEF AlphaComponentOK
<1>5. /\ d.scripts = NoScripts /\ d.onCreate = c.onCreate /\ d.before = c.before
      /\ d.after = c.after /\ d.success = c.success
  BY WithFields
<1>6. With(d, NoScripts, Clear(c.onCreate), Clear(c.before), Clear(c.after), Clear(c.success)) =
      With(c, NoScripts, Clear(c.onCreate), Clear(c.before), Clear(c.after), Clear(c.success))
  BY WithWith
<1> HIDE DEF d
<1>7. EditActions(d, LAMBDA a : [a EXCEPT !.setVar = ""]) =
      With(d, d.scripts, Clear(d.onCreate), Clear(d.before), Clear(d.after), Clear(d.success))
  BY <1>4, ClearComponent, Zenon
<1>8. EditActions(d, LAMBDA a : [a EXCEPT !.setVar = ""]) =
      With(c, NoScripts, Clear(c.onCreate), Clear(c.before), Clear(c.after), Clear(c.success))
  BY <1>5, <1>6, <1>7, Zenon
<1>9. [x EXCEPT !.migrations = e, !.component = e] = PackageWith(x, e, e)
  BY PackageEdit
<1> QED BY <1>1, <1>3, <1>8, <1>9, Zenon DEF c, e

LEMMA BehaviourSame ==
    ASSUME NEW x, AlphaOK(x), NEW y, AlphaOK(y), NEW s, NEW l1, NEW l2, NEW l3, NEW l4, NEW m,
           y = PackageWith(x, m, With(x.component, s, l1, l2, l3, l4)),
           Clear(l1) = Clear(x.component.onCreate), Clear(l2) = Clear(x.component.before),
           Clear(l3) = Clear(x.component.after), Clear(l4) = Clear(x.component.success)
    PROVE  Behaviour(y) = Behaviour(x)
<1> DEFINE c == x.component
           d == With(c, s, l1, l2, l3, l4)
           k == With(c, NoScripts, Clear(c.onCreate), Clear(c.before), Clear(c.after), Clear(c.success))
<1>1. y.component = d
  BY PackageWithFields
<1>2. d.onCreate = l1 /\ d.before = l2 /\ d.after = l3 /\ d.success = l4
  BY WithFields
<1>3. With(d, NoScripts, Clear(c.onCreate), Clear(c.before), Clear(c.after), Clear(c.success)) = k
  BY WithWith
<1>4. PackageWith(y, {}, {}) = PackageWith(x, {}, {})
  <2>1. /\ y.api = x.api /\ y.kind = x.kind /\ y.copied = x.copied /\ y.url = x.url
        /\ y.note = x.note /\ y.override = x.override /\ y.checksum = x.checksum
        /\ y.signed = x.signed /\ y.provenance = x.provenance
        /\ y.requirements = x.requirements
    BY PackageWithFields
  <2> QED BY <2>1 DEF PackageWith
<1> HIDE DEF c, d, k
<1>5. Behaviour(x) = [component |-> k, package |-> PackageWith(x, {}, {})]
  BY BehaviourIs, Zenon DEF k, c
<1>6. Behaviour(y) =
        [component |-> With(d, NoScripts, Clear(l1), Clear(l2), Clear(l3), Clear(l4)),
         package |-> PackageWith(y, {}, {})]
  BY <1>1, <1>2, BehaviourIs, Zenon
<1>7. With(d, NoScripts, Clear(l1), Clear(l2), Clear(l3), Clear(l4)) = k
  BY <1>3, Zenon DEF c
<1> QED BY <1>4, <1>5, <1>6, <1>7, Zenon

LEMMA NothingToRun == RunAll(<<>>) = <<>>
<1>1. ActionList(RunAll(<<>>)) /\ Len(RunAll(<<>>)) = 0
  BY EmptyList, RunAllFacts
<1>2. IsList(RunAll(<<>>))
  BY <1>1 DEF ActionList
<1>3. \A i \in 1 .. 0 : RunAll(<<>>)[i] = <<>>[i]
  OBVIOUS
<1> QED BY <1>1, <1>2, <1>3, EmptyList, SameList

Unset(s) == \A i \in 1 .. Len(s) : s[i].setVar = ""

LEMMA ClearClear ==
    ASSUME NEW s, ActionList(s)
    PROVE  Clear(Clear(s)) = Clear(s)
BY ClearFacts, Zenon

LEMMA PluralSame ==
    ASSUME NEW s, ActionList(s), Unset(s)
    PROVE  Plural(s) = s
BY PluralFacts, Zenon DEF Unset

\* What was migrated before, or holds nothing deprecated, is not changed by the
\* migrations of the next parse.
LEMMA MigratedBehaviour ==
    ASSUME NEW x, AlphaOK(x),
           "scripts-to-actions" \in x.migrations \/ x.component.scripts = NoScripts,
           \/ "pluralize-set-variable" \in x.migrations
           \/ /\ Unset(x.component.onCreate) /\ Unset(x.component.before)
              /\ Unset(x.component.after) /\ Unset(x.component.success)
    PROVE  Behaviour(MigrateDeprecated(x)) = Behaviour(x)
<1> DEFINE c == x.component
           y == Scripted(x)
           z == Migrated(x)
           W(l1, l2, l3, l4) == With(c, NoScripts, l1, l2, l3, l4)
<1>1. /\ AlphaComponentOK(c) /\ ActionList(c.onCreate) /\ ActionList(c.before)
      /\ ActionList(c.after) /\ ActionList(c.success)
  BY DEF AlphaOK, AlphaComponentOK
<1>2. y = W(c.onCreate, c.before, c.after, c.success)
  <2>1. CASE "scripts-to-actions" \in x.migrations
    BY <2>1, ScriptedFacts, Zenon
  <2>2. CASE "scripts-to-actions" \notin x.migrations
    <3>1. c.scripts = NoScripts
      BY <2>2
    <3>2. y = With(c, c.scripts, c.onCreate \o RunAll(c.scripts.prepare),
                   c.before \o RunAll(c.scripts.before), c.after \o RunAll(c.scripts.after),
                   c.success)
      BY <2>2, ScriptedFacts, Zenon
    <3>3. /\ RunAll(c.scripts.prepare) = <<>> /\ RunAll(c.scripts.before) = <<>>
          /\ RunAll(c.scripts.after) = <<>>
      BY <3>1, NoScriptsOK, NothingToRun
    <3>4. c.onCreate \o <<>> = c.onCreate /\ c.before \o <<>> = c.before /\ c.after \o <<>> = c.after
      BY <1>1, ConcatEmpty DEF ActionList
    <3> QED BY <3>1, <3>2, <3>3, <3>4, Zenon
  <2> QED BY <2>1, <2>2
<1>3. /\ y.scripts = NoScripts /\ y.onCreate = c.onCreate /\ y.before = c.before
      /\ y.after = c.after /\ y.success = c.success
  BY <1>2, WithFields
<1>4. \A l1, l2, l3, l4 : With(y, NoScripts, l1, l2, l3, l4) = W(l1, l2, l3, l4)
  BY <1>2, WithWith
<1>5. MigrateDeprecated(x) = PackageWith(x, BothMigrations, z) /\ AlphaOK(MigrateDeprecated(x))
  BY MigrateIs
<1>a. "pluralize-set-variable" \notin x.migrations =>
        /\ Unset(c.onCreate) /\ Unset(c.before) /\ Unset(c.after) /\ Unset(c.success)
  BY Zenon
<1>b. "pluralize-set-variable" \in x.migrations =>
        z = With(y, y.scripts, Clear(y.onCreate), Clear(y.before), Clear(y.after), Clear(y.success))
  BY MigratedFacts, Zenon
<1>c. "pluralize-set-variable" \notin x.migrations =>
        z = With(y, y.scripts, Plural(y.onCreate), Plural(y.before), Plural(y.after),
                 Plural(y.success))
  BY MigratedFacts, Zenon
<1>d. ASSUME NEW l1, NEW l2, NEW l3, NEW l4, z = W(l1, l2, l3, l4),
             Clear(l1) = Clear(c.onCreate), Clear(l2) = Clear(c.before),
             Clear(l3) = Clear(c.after), Clear(l4) = Clear(c.success)
      PROVE  Behaviour(MigrateDeprecated(x)) = Behaviour(x)
  <2> DEFINE m == MigrateDeprecated(x)
             b == BothMigrations
  <2>1. AlphaOK(m) /\ m = PackageWith(x, b, With(x.component, NoScripts, l1, l2, l3, l4))
    BY <1>5, <1>d, Zenon
  <2> HIDE DEF m, b, z, W
  <2>2. Behaviour(m) = Behaviour(x)
    BY <1>d, <2>1, BehaviourSame, Zenon
  <2> QED BY <2>2 DEF m
<1> HIDE DEF c, y, z, W
<1>6. CASE "pluralize-set-variable" \in x.migrations
  <2>1. z = W(Clear(c.onCreate), Clear(c.before), Clear(c.after), Clear(c.success))
    BY <1>3, <1>4, <1>6, <1>b, Zenon
  <2>2. /\ Clear(Clear(c.onCreate)) = Clear(c.onCreate) /\ Clear(Clear(c.before)) = Clear(c.before)
        /\ Clear(Clear(c.after)) = Clear(c.after) /\ Clear(Clear(c.success)) = Clear(c.success)
    BY <1>1, ClearClear, Zenon
  <2> QED BY <1>d, <2>1, <2>2, Zenon
<1>7. CASE "pluralize-set-variable" \notin x.migrations
  <2>1. /\ Plural(c.onCreate) = c.onCreate /\ Plural(c.before) = c.before
        /\ Plural(c.after) = c.after /\ Plural(c.success) = c.success
    BY <1>1, <1>7, <1>a, PluralSame, Zenon
  <2>2. z = W(Plural(c.onCreate), Plural(c.before), Plural(c.after), Plural(c.success))
    BY <1>3, <1>4, <1>7, <1>c, Zenon
  <2>3. z = W(c.onCreate, c.before, c.after, c.success)
    BY <2>1, <2>2
  <2> QED BY <1>d, <2>3, Zenon
<1> QED BY <1>6, <1>7, Zenon

-----------------------------------------------------------------------------
(* The generic package.                                                    *)

GenericFields ==
    {"api", "kind", "copied", "url", "note", "override", "prevent", "checksum", "buildChecksum",
     "signed", "provenance", "requirements", "migrations", "original", "component"}
ComponentFields ==
    {"name", "copied", "image", "service", "optional", "required", "import", "health", "scripts",
     "removed", "repo", "chart", "manifest", "actions"}
ChartFields == {"at", "source", "values", "schema", "skipSchema", "ns"}
ManifestFields == {"template", "templating", "ns"}

ComponentOK(c) ==
    /\ ComponentFields \subseteq DOMAIN c
    /\ ChartFields \subseteq DOMAIN c.chart
    /\ ManifestFields \subseteq DOMAIN c.manifest
    /\ IsList(c.chart.values)
    /\ ScriptsOK(c.scripts)
    /\ ActionList(c.actions.onCreate) /\ ActionList(c.actions.before)
    /\ ActionList(c.actions.after) /\ ActionList(c.actions.success)

GenericOK(g) == GenericFields \subseteq DOMAIN g /\ ComponentOK(g.component)

\* A v1alpha1 package becomes a generic one.
LEMMA GenericOfAlpha ==
    ASSUME NEW x, AlphaOK(x)
    PROVE  /\ GenericOK(AlphaToGeneric(x)) /\ AlphaToGeneric(x).original = "v1alpha1"
           /\ AlphaToGeneric(x).migrations = x.migrations
<1> DEFINE g == AlphaToGeneric(x)
           c == AlphaComponentToGeneric(x.component)
<1>1. GenericFields \subseteq DOMAIN g /\ g.original = "v1alpha1" /\ g.migrations = x.migrations
  BY DEF GenericFields, AlphaToGeneric
<1>2. g.component = c
  BY DEF AlphaToGeneric
<1>3. ComponentFields \subseteq DOMAIN c
  BY DEF ComponentFields, AlphaComponentToGeneric
<1>4. /\ c.chart = AlphaChartToGeneric(x.component.chart)
      /\ c.manifest = AlphaManifestToGeneric(x.component.manifest)
      /\ c.scripts = x.component.scripts
      /\ c.actions = AlphaActionsToGeneric(x.component)
  BY DEF AlphaComponentToGeneric
<1>5. /\ ChartFields \subseteq DOMAIN AlphaChartToGeneric(x.component.chart)
      /\ ManifestFields \subseteq DOMAIN AlphaManifestToGeneric(x.component.manifest)
  BY DEF ChartFields, ManifestFields, AlphaChartToGeneric, AlphaManifestToGeneric
<1>6. AlphaComponentOK(x.component) /\ AlphaChartOK(x.component.chart)
  BY DEF AlphaOK, AlphaComponentOK
<1>7. AlphaChartToGeneric(x.component.chart).values =
        AlphaValuesFilesToGeneric(x.component.chart.plain, x.component.chart.templated)
  BY DEF AlphaChartToGeneric
<1>8. IsList(AlphaChartToGeneric(x.component.chart).values)
  BY <1>6, <1>7, SplitInverts DEF AlphaChartOK
<1>9. ScriptsOK(x.component.scripts)
  BY <1>6, WithSame
<1>10. /\ c.actions.onCreate = x.component.onCreate /\ c.actions.before = x.component.before
       /\ c.actions.after = x.component.after /\ c.actions.success = x.component.success
  BY <1>4 DEF AlphaActionsToGeneric
<1>11. /\ ActionList(x.component.onCreate) /\ ActionList(x.component.before)
       /\ ActionList(x.component.after) /\ ActionList(x.component.success)
  BY <1>6 DEF AlphaComponentOK
<1> HIDE DEF c, g
<1>12. ComponentOK(c)
  BY <1>3, <1>4, <1>5, <1>8, <1>9, <1>10, <1>11 DEF ComponentOK
<1> QED BY <1>1, <1>2, <1>12 DEF GenericOK, g

\* And a generic one is written as v1alpha1.
LEMMA AlphaOfGeneric ==
    ASSUME NEW g, GenericOK(g)
    PROVE  LET w == AlphaFromGeneric(g)
               c == g.component IN
           /\ AlphaOK(w) /\ w.note = "" /\ w.kind # "" /\ w.api \in {"", "v1alpha1"}
           /\ w.migrations = g.migrations
           /\ w.component.scripts = c.scripts
           /\ w.component.onCreate = c.actions.onCreate /\ w.component.before = c.actions.before
           /\ w.component.after = c.actions.after /\ w.component.success = c.actions.success
<1> DEFINE w == AlphaFromGeneric(g)
           c == g.component
           d == AlphaComponentFromGeneric(c)
           h == AlphaChartFromGeneric(c.chart)
<1>1. d = [name |-> c.name, copied |-> c.copied, image |-> c.image.name,
         required |-> RequiredFromGeneric(c), import |-> AlphaImportFromGeneric(c.import),
         health |-> c.health, scripts |-> c.scripts, removed |-> c.removed,
         repo |-> AlphaReposFromGeneric(c.repo), chart |-> h,
         manifest |-> AlphaManifestFromGeneric(c.manifest),
         onCreate |-> c.actions.onCreate, before |-> c.actions.before,
         after |-> c.actions.after, success |-> c.actions.success]
  BY ComponentFrom
<1>2. AlphaChartOK(h)
  <2> DEFINE v == c.chart.values
             p == PathsOf(v, DOMAIN v \ Templated(v))
             q == PathsOf(v, Templated(v))
  <2>1. h = [at |-> AlphaSourceFromGeneric(c.chart), schema |-> SchemaFromGeneric(c.chart),
             ns |-> c.chart.ns, plain |-> p, templated |-> q]
    BY Zenon DEF AlphaChartFromGeneric, Templated
  <2>2. IsList(v)
    BY DEF GenericOK, ComponentOK
  <2>3. Templated(v) \subseteq DOMAIN v /\ DOMAIN v \ Templated(v) \subseteq DOMAIN v
    BY DEF Templated
  <2>4. IsList(p) /\ IsList(q)
    BY <2>2, <2>3, PathsAreList
  <2> HIDE DEF p, q, v, h, c
  <2> QED BY <2>1, <2>4 DEF AlphaChartOK
<1>3. /\ AlphaReposFromGeneric(c.repo) =
           [url |-> AlphaReposFromGeneric(c.repo).url, ref |-> AlphaReposFromGeneric(c.repo).ref]
      /\ AlphaManifestFromGeneric(c.manifest) =
           [template |-> AlphaManifestFromGeneric(c.manifest).template,
            ns |-> AlphaManifestFromGeneric(c.manifest).ns]
  BY DEF AlphaReposFromGeneric, AlphaManifestFromGeneric
<1>4. /\ ScriptsOK(c.scripts) /\ ActionList(c.actions.onCreate) /\ ActionList(c.actions.before)
      /\ ActionList(c.actions.after) /\ ActionList(c.actions.success)
  BY DEF GenericOK, ComponentOK
<1> HIDE DEF c, h, d
<1>5. /\ d.scripts = c.scripts /\ d.repo = AlphaReposFromGeneric(c.repo) /\ d.chart = h
      /\ d.manifest = AlphaManifestFromGeneric(c.manifest)
      /\ d.onCreate = c.actions.onCreate /\ d.before = c.actions.before
      /\ d.after = c.actions.after /\ d.success = c.actions.success
  BY <1>1
<1>6. d = [name |-> d.name, copied |-> d.copied, image |-> d.image, required |-> d.required,
            import |-> d.import, health |-> d.health, scripts |-> d.scripts,
            removed |-> d.removed, repo |-> d.repo, chart |-> d.chart, manifest |-> d.manifest,
            onCreate |-> d.onCreate, before |-> d.before, after |-> d.after, success |-> d.success]
  BY <1>1
<1>7. AlphaComponentOK(d)
  BY <1>2, <1>3, <1>4, <1>5, <1>6 DEF AlphaComponentOK, ScriptsOK
<1>8. /\ w.component = d /\ w.migrations = g.migrations
      /\ w = [api |-> w.api, kind |-> w.kind, copied |-> w.copied, url |-> w.url, note |-> w.note,
            override |-> w.override, checksum |-> w.checksum, signed |-> w.signed,
            provenance |-> w.provenance, requirements |-> w.requirements,
            migrations |-> w.migrations, component |-> w.component]
  BY DEF AlphaFromGeneric, d, c
<1>9. w.note = ""
  BY DEF AlphaFromGeneric, AlphaMetadataFromGeneric
<1> DEFINE e == ""
<1>10. /\ w.kind = IF c.service # e THEN "ZarfInitConfig"
                    ELSE IF g.kind = e THEN "ZarfPackageConfig" ELSE g.kind
       /\ w.api = IF g.api = e THEN e ELSE "v1alpha1"
  BY Zenon DEF AlphaFromGeneric, c
<1>11. "ZarfInitConfig" # e /\ "ZarfPackageConfig" # e
  BY Zenon
<1> HIDE DEF w, e
<1>12. w.kind # e /\ w.api \in {e, "v1alpha1"}
  BY <1>10, <1>11
<1>13. AlphaOK(w)
  BY <1>7, <1>8 DEF AlphaOK
<1>14. w.kind # "" /\ w.api \in {"", "v1alpha1"}
  BY <1>12, Zenon DEF e
<1> QED BY <1>5, <1>8, <1>9, <1>13, <1>14, Zenon DEF w, c

-----------------------------------------------------------------------------
(* Written as v1beta1.                                                     *)

\* An action without its variables, and the conditions of waits filled in.
Bare(s) == [i \in DOMAIN s |-> [s[i] EXCEPT !.setVar = "", !.setVars = {}]]
Filled(s) == [i \in DOMAIN s |-> IF s[i].wait = "" THEN [s[i] EXCEPT !.wait = "exists"] ELSE s[i]]

\* backfillWaitExists is for packages that were v1alpha1.
Upgraded(g, s) == IF g.original = "v1alpha1" THEN Filled(s) ELSE s

LEMMA BetaMetadataIs ==
    ASSUME NEW g
    PROVE  LET b == BetaFromGeneric(g) IN
           /\ b.kind = "ZarfPackageConfig" /\ b.copied = g.copied
           /\ b.note = (IF g.note # "" THEN g.note ELSE g.url)
           /\ b.prevent <=> (IF g.override # "unset" THEN g.override = "false" ELSE g.prevent)
           /\ b.checksum = (IF g.buildChecksum # "" THEN g.buildChecksum ELSE g.checksum)
           /\ b.signed = g.signed /\ b.provenance = g.provenance
           /\ b.requirements = g.requirements /\ b.migrations = g.migrations
<1> DEFINE b == BetaFromGeneric(g)
           p == BetaMetadataFromGeneric(g)
           q == BetaBuildFromGeneric(g)
<1>1. /\ b.kind = "ZarfPackageConfig" /\ b.copied = g.copied /\ b.note = p.note
      /\ b.checksum = q.checksum /\ b.signed = q.signed /\ b.provenance = q.provenance
      /\ b.requirements = q.requirements /\ b.migrations = q.migrations
  BY DEF BetaFromGeneric
<1>2. b.prevent = p.prevent
  BY DEF BetaFromGeneric
<1>3. /\ q.checksum = (IF g.buildChecksum # "" THEN g.buildChecksum ELSE g.checksum)
      /\ q.signed = g.signed /\ q.provenance = g.provenance
      /\ q.requirements = g.requirements /\ q.migrations = g.migrations
  BY Zenon DEF BetaBuildFromGeneric
<1>4. p.note = (IF g.note # "" THEN g.note ELSE g.url)
  BY Zenon DEF BetaMetadataFromGeneric
<1>5. p.prevent = (IF g.override # "unset" THEN g.override = "false" ELSE g.prevent)
  BY Zenon DEF BetaMetadataFromGeneric
<1>6. p.prevent <=> (IF g.override # "unset" THEN g.override = "false" ELSE g.prevent)
  BY <1>5, Zenon
<1> HIDE DEF b, p, q
<1>7. b.prevent <=> (IF g.override # "unset" THEN g.override = "false" ELSE g.prevent)
  BY <1>2, <1>6, Zenon
<1> QED BY <1>1, <1>3, <1>4, <1>7, Zenon DEF b

LEMMA BetaComponentIs ==
    ASSUME NEW g
    PROVE  LET c == g.component
               d == BetaFromGeneric(g).component
               a == c.actions IN
           /\ d.name = c.name /\ d.copied = c.copied /\ d.image = c.image
           /\ d.service = (IF c.service # "" THEN c.service
                           ELSE IF g.kind = "ZarfInitConfig" /\ c.name = "zarf-registry"
                                THEN "registry" ELSE "")
           /\ d.optional = OptionalFromGeneric(c)
           /\ d.import = BetaImportFromGeneric(c.import)
           /\ d.repo = BetaRepositoriesFromGeneric(c.repo)
           /\ d.chart = BetaChartFromGeneric(c.chart)
           /\ d.manifest = BetaManifestFromGeneric(c.manifest)
           /\ d.onCreate = Upgraded(g, Bare(a.onCreate))
           /\ d.before = Upgraded(g, Bare(a.before))
           /\ d.success = Upgraded(g, Bare(a.after \o a.success)) \o HealthCheckWaits(c)
<1> DEFINE c == g.component
           b == BetaFromGeneric(g)
           a == BetaActionsFromGeneric(c)
           W(s) == IF g.original = "v1alpha1" THEN BackfillWaitExists(s) ELSE s
           d == [name |-> c.name, copied |-> c.copied, image |-> c.image,
                 service |-> ServiceFromGeneric(c, g.kind = "ZarfInitConfig"),
                 optional |-> OptionalFromGeneric(c),
                 import |-> BetaImportFromGeneric(c.import),
                 repo |-> BetaRepositoriesFromGeneric(c.repo),
                 chart |-> BetaChartFromGeneric(c.chart),
                 manifest |-> BetaManifestFromGeneric(c.manifest),
                 onCreate |-> W(a.onCreate), before |-> W(a.before),
                 success |-> W(a.success) \o HealthCheckWaits(c)]
<1>1. b.component = BetaComponentFromGeneric(c, g.kind = "ZarfInitConfig", g.original = "v1alpha1")
  BY Zenon DEF BetaFromGeneric
<1>2. BetaComponentFromGeneric(c, g.kind = "ZarfInitConfig", g.original = "v1alpha1") = d
  BY Zenon DEF BetaComponentFromGeneric
<1>3. ServiceFromGeneric(c, g.kind = "ZarfInitConfig") =
        (IF c.service # "" THEN c.service
         ELSE IF g.kind = "ZarfInitConfig" /\ c.name = "zarf-registry" THEN "registry" ELSE "")
  BY Zenon DEF ServiceFromGeneric
<1>4. /\ a.onCreate = Bare(c.actions.onCreate) /\ a.before = Bare(c.actions.before)
      /\ a.success = Bare(c.actions.after \o c.actions.success)
  BY Zenon DEF BetaActionsFromGeneric, Bare, MapSeq
<1>5. \A s : BackfillWaitExists(s) = Filled(s)
  BY Zenon DEF BackfillWaitExists, Filled, MapSeq
<1>6. \A s : W(s) = Upgraded(g, s)
  BY <1>5, Zenon DEF Upgraded
<1>7. /\ d.name = c.name /\ d.copied = c.copied /\ d.image = c.image
      /\ d.service = ServiceFromGeneric(c, g.kind = "ZarfInitConfig")
      /\ d.optional = OptionalFromGeneric(c)
      /\ d.import = BetaImportFromGeneric(c.import)
      /\ d.repo = BetaRepositoriesFromGeneric(c.repo)
      /\ d.chart = BetaChartFromGeneric(c.chart)
      /\ d.manifest = BetaManifestFromGeneric(c.manifest)
      /\ d.onCreate = W(a.onCreate) /\ d.before = W(a.before)
      /\ d.success = W(a.success) \o HealthCheckWaits(c)
  BY Zenon
<1> HIDE DEF a, b, c, d, W
<1>8. /\ d.onCreate = Upgraded(g, Bare(c.actions.onCreate))
      /\ d.before = Upgraded(g, Bare(c.actions.before))
      /\ d.success = Upgraded(g, Bare(c.actions.after \o c.actions.success)) \o HealthCheckWaits(c)
  BY <1>4, <1>6, <1>7, Zenon
<1>9. b.component = d
  BY <1>1, <1>2, Zenon
<1> QED BY <1>3, <1>7, <1>8, <1>9, Zenon DEF b, c

Dropped(a, z, w) == [a EXCEPT !.setVar = z, !.setVars = w]

LEMMA BareAction ==
    ASSUME NEW a, IsAction(a), NEW z, NEW w
    PROVE  LET x == Dropped(a, z, w) IN
           /\ IsAction(x) /\ x.setVar = z /\ x.setVars = w
           /\ x.cmd = a.cmd /\ x.wait = a.wait /\ x.ns = a.ns
           /\ a.setVar = z /\ a.setVars = w => x = a
<1>1. PICK b, c, d, e, f : a = [cmd |-> b, wait |-> c, ns |-> d, setVar |-> e, setVars |-> f]
  BY DEF IsAction
<1> DEFINE x == Dropped(a, z, w)
           y == [a EXCEPT !.setVar = z]
<1>2. y = [cmd |-> b, wait |-> c, ns |-> d, setVar |-> z, setVars |-> f]
  BY <1>1
<1>3. x = [y EXCEPT !.setVars = w]
  BY <1>1 DEF Dropped
<1> HIDE DEF x, y
<1>4. x = [cmd |-> b, wait |-> c, ns |-> d, setVar |-> z, setVars |-> w]
  BY <1>2, <1>3
<1>5. /\ IsAction(x) /\ x.setVar = z /\ x.setVars = w
      /\ x.cmd = a.cmd /\ x.wait = a.wait /\ x.ns = a.ns
      /\ a.setVar = z /\ a.setVars = w => x = a
  BY <1>1, <1>4 DEF IsAction
<1> QED BY <1>5 DEF x

LEMMA FilledAction ==
    ASSUME NEW a, IsAction(a), NEW z
    PROVE  LET x == [a EXCEPT !.wait = z] IN
           /\ IsAction(x) /\ x.setVar = a.setVar /\ x.setVars = a.setVars
           /\ x.cmd = a.cmd /\ x.wait = z /\ x.ns = a.ns
<1>1. PICK b, c, d, e, f : a = [cmd |-> b, wait |-> c, ns |-> d, setVar |-> e, setVars |-> f]
  BY DEF IsAction
<1> DEFINE x == [a EXCEPT !.wait = z]
<1>2. x = [cmd |-> b, wait |-> z, ns |-> d, setVar |-> e, setVars |-> f]
  BY <1>1
<1> HIDE DEF x
<1>3. /\ IsAction(x) /\ x.setVar = a.setVar /\ x.setVars = a.setVars
      /\ x.cmd = a.cmd /\ x.wait = z /\ x.ns = a.ns
  BY <1>1, <1>2 DEF IsAction
<1> QED BY <1>3 DEF x

\* What every list of a v1beta1 component is.
BareList(s) ==
    /\ ActionList(s)
    /\ \A i \in 1 .. Len(s) : s[i].setVar = "" /\ s[i].setVars = {}

LEMMA BareFacts ==
    ASSUME NEW s, ActionList(s)
    PROVE  /\ BareList(Bare(s)) /\ Len(Bare(s)) = Len(s)
           /\ \A i \in 1 .. Len(s) : /\ Bare(s)[i].cmd = s[i].cmd /\ Bare(s)[i].wait = s[i].wait
                                     /\ Bare(s)[i].ns = s[i].ns
           /\ BareList(s) => Bare(s) = s
<1> DEFINE t == Bare(s)
           e == ""
           n == {}
           B(a) == Dropped(a, e, n)
<1>1. IsList(s) /\ (\A i \in 1 .. Len(s) : IsAction(s[i])) /\ DOMAIN s = 1 .. Len(s)
  BY ListDomain DEF ActionList
<1>2. t = [i \in DOMAIN s |-> B(s[i])]
  BY Zenon DEF Bare, Dropped
<1>3. BareList(s) <=> ActionList(s) /\ \A i \in 1 .. Len(s) : s[i].setVar = e /\ s[i].setVars = n
  BY Zenon DEF BareList
<1>4. BareList(t) <=> ActionList(t) /\ \A i \in 1 .. Len(t) : t[i].setVar = e /\ t[i].setVars = n
  BY Zenon DEF BareList
<1> HIDE DEF t, e, n
<1>a. ASSUME NEW a, IsAction(a)
      PROVE  /\ IsAction(B(a)) /\ B(a).setVar = e /\ B(a).setVars = n
             /\ B(a).cmd = a.cmd /\ B(a).wait = a.wait /\ B(a).ns = a.ns
             /\ a.setVar = e /\ a.setVars = n => B(a) = a
  BY <1>a, BareAction
<1> HIDE DEF B
<1>5. t = [i \in DOMAIN s |-> t[i]]
  BY <1>2
<1>6. IsList(t) /\ Len(t) = Len(s)
  BY <1>1, <1>5, MapList
<1>7. ASSUME NEW i \in 1 .. Len(s)
      PROVE  /\ IsAction(t[i]) /\ t[i].setVar = e /\ t[i].setVars = n
             /\ t[i].cmd = s[i].cmd /\ t[i].wait = s[i].wait /\ t[i].ns = s[i].ns
             /\ s[i].setVar = e /\ s[i].setVars = n => t[i] = s[i]
  <2>1. t[i] = B(s[i]) /\ IsAction(s[i])
    BY <1>1, <1>2
  <2> QED BY <1>a, <2>1
<1>8. ActionList(t)
  BY <1>6, <1>7 DEF ActionList
<1>9. BareList(t)
  BY <1>4, <1>6, <1>7, <1>8
<1>10. BareList(s) => t = s
  BY <1>1, <1>3, <1>6, <1>7, SameList
<1> QED BY <1>6, <1>7, <1>9, <1>10 DEF t

LEMMA FilledFacts ==
    ASSUME NEW s, BareList(s)
    PROVE  /\ BareList(Filled(s)) /\ Len(Filled(s)) = Len(s)
           /\ \A i \in 1 .. Len(s) : /\ Filled(s)[i].cmd = s[i].cmd /\ Filled(s)[i].ns = s[i].ns
                                     /\ EffectiveWait(Filled(s)[i].wait) = EffectiveWait(s[i].wait)
<1> DEFINE t == Filled(s)
           e == ""
           n == {}
<1>1. /\ ActionList(s) /\ \A i \in 1 .. Len(s) : s[i].setVar = e /\ s[i].setVars = n
  BY Zenon DEF BareList
<1>3. t = [i \in DOMAIN s |-> IF s[i].wait = e THEN [s[i] EXCEPT !.wait = "exists"] ELSE s[i]]
  BY Zenon DEF Filled
<1>4. BareList(t) <=> ActionList(t) /\ \A i \in 1 .. Len(t) : t[i].setVar = e /\ t[i].setVars = n
  BY Zenon DEF BareList
<1>5. EffectiveWait(e) = "exists" /\ EffectiveWait("exists") = "exists"
  BY Zenon DEF EffectiveWait
<1> HIDE DEF t, e, n
<1>2. IsList(s) /\ (\A i \in 1 .. Len(s) : IsAction(s[i])) /\ DOMAIN s = 1 .. Len(s)
  BY <1>1, ListDomain DEF ActionList
<1>6. t = [i \in DOMAIN s |-> t[i]]
  BY <1>3
<1>7. IsList(t) /\ Len(t) = Len(s)
  BY <1>2, <1>6, MapList
<1>8. ASSUME NEW i \in 1 .. Len(s)
      PROVE  /\ IsAction(t[i]) /\ t[i].setVar = e /\ t[i].setVars = n
             /\ t[i].cmd = s[i].cmd /\ t[i].ns = s[i].ns
             /\ EffectiveWait(t[i].wait) = EffectiveWait(s[i].wait)
  <2>1. t[i] = IF s[i].wait = e THEN [s[i] EXCEPT !.wait = "exists"] ELSE s[i]
    BY <1>2, <1>3
  <2>2. IsAction(s[i]) /\ s[i].setVar = e /\ s[i].setVars = n
    BY <1>1, <1>2
  <2>3. CASE s[i].wait = e
    <3> DEFINE x == [s[i] EXCEPT !.wait = "exists"]
    <3>1. /\ IsAction(x) /\ x.setVar = s[i].setVar /\ x.setVars = s[i].setVars
          /\ x.cmd = s[i].cmd /\ x.wait = "exists" /\ x.ns = s[i].ns
      BY <2>2, FilledAction, Zenon
    <3> HIDE DEF x
    <3>2. t[i] = x
      BY <2>1, <2>3 DEF x
    <3> QED BY <1>5, <2>2, <2>3, <3>1, <3>2
  <2>4. CASE s[i].wait # e
    BY <2>1, <2>2, <2>4
  <2> QED BY <2>3, <2>4
<1>9. ActionList(t)
  BY <1>7, <1>8 DEF ActionList
<1>10. BareList(t)
  BY <1>4, <1>7, <1>8, <1>9
<1> QED BY <1>7, <1>8, <1>10 DEF t

LEMMA ConcatBare ==
    ASSUME NEW s, BareList(s), NEW t, BareList(t)
    PROVE  BareList(s \o t)
<1> DEFINE e == ""
           n == {}
           u == s \o t
<1>1. /\ ActionList(s) /\ \A i \in 1 .. Len(s) : s[i].setVar = e /\ s[i].setVars = n
      /\ ActionList(t) /\ \A i \in 1 .. Len(t) : t[i].setVar = e /\ t[i].setVars = n
  BY Zenon DEF BareList
<1>2. BareList(u) <=> ActionList(u) /\ \A i \in 1 .. Len(u) : u[i].setVar = e /\ u[i].setVars = n
  BY Zenon DEF BareList
<1> HIDE DEF e, n
<1>3. ActionList(u)
  BY <1>1, ConcatActions
<1>4. IsList(s) /\ IsList(t) /\ Len(s) \in Nat
  BY <1>1, ListDomain DEF ActionList
<1>5. /\ \A i \in 1 .. Len(s) : u[i] = s[i]
      /\ \A i \in 1 .. Len(u) : i > Len(s) => i - Len(s) \in 1 .. Len(t) /\ u[i] = t[i - Len(s)]
  BY <1>4, ConcatList
<1> HIDE DEF u
<1>6. ASSUME NEW i \in 1 .. Len(u) PROVE u[i].setVar = e /\ u[i].setVars = n
  <2>1. CASE i > Len(s)
    BY <1>1, <1>5, <2>1
  <2>2. CASE ~(i > Len(s))
    <3>1. i \in 1 .. Len(s)
      BY <1>4, <2>2
    <3> QED BY <1>1, <1>5, <3>1
  <2> QED BY <2>1, <2>2
<1>7. BareList(u)
  BY <1>2, <1>3, <1>6
<1> QED BY <1>7 DEF u

LEMMA EmptyActions == ActionList(<<>>) /\ BareList(<<>>)
<1>1. ActionList(<<>>)
  BY EmptyList DEF ActionList
<1>2. \A i \in 1 .. Len(<<>>) : <<>>[i].setVar = "" /\ <<>>[i].setVars = {}
  <2> DEFINE e == ""
             n == {}
  <2> HIDE DEF e, n
  <2>1. \A i \in 1 .. Len(<<>>) : <<>>[i].setVar = e /\ <<>>[i].setVars = n
    BY EmptyList
  <2> QED BY <2>1, Zenon DEF e, n
<1> QED BY <1>1, <1>2, Zenon DEF BareList

LEMMA HealthFacts ==
    ASSUME NEW c, IsList(c.health)
    PROVE  BareList(HealthCheckWaits(c)) /\ Len(HealthCheckWaits(c)) = Len(c.health)
<1> DEFINE h == c.health
           t == HealthCheckWaits(c)
           e == ""
           n == {}
<1>1. t = [i \in DOMAIN h |-> [cmd |-> e, wait |-> e, ns |-> h[i], setVar |-> e, setVars |-> n]]
  BY Zenon DEF HealthCheckWaits, MapSeq
<1>2. BareList(t) <=> ActionList(t) /\ \A i \in 1 .. Len(t) : t[i].setVar = e /\ t[i].setVars = n
  BY Zenon DEF BareList
<1> HIDE DEF t, e, n
<1>3. t = [i \in DOMAIN h |-> t[i]]
  BY <1>1
<1>4. IsList(t) /\ Len(t) = Len(h) /\ DOMAIN h = 1 .. Len(h)
  BY <1>3, MapList
<1>5. \A i \in 1 .. Len(t) : IsAction(t[i]) /\ t[i].setVar = e /\ t[i].setVars = n
  BY <1>1, <1>4 DEF IsAction
<1>6. BareList(t)
  BY <1>2, <1>4, <1>5 DEF ActionList
<1> QED BY <1>4, <1>6 DEF t

RepoRefs == {"", "tag", "commit", "refs/heads/branch"}
SourceFields == {"type", "url", "urlRef", "ref", "path"}
NoLocation == [url |-> "", ref |-> "", version |-> "", gitPath |-> "", local |-> ""]

\* A v1beta1 package, and a generic one that was read from it.
BetaComponentOK(c) ==
    /\ c.repo.urlRef \in RepoRefs
    /\ SourceFields \subseteq DOMAIN c.chart.source
    /\ IsList(c.chart.values)
    /\ BareList(c.onCreate) /\ BareList(c.before) /\ BareList(c.success)

BetaOK(b) == b.kind = "ZarfPackageConfig" /\ BetaComponentOK(b.component)

ComponentOfBeta(c) ==
    /\ c.required = "unset" /\ c.import.path = "" /\ c.health = <<>> /\ c.scripts = NoScripts
    /\ c.removed = FALSE
    /\ c.repo.urlRef \in RepoRefs
    /\ c.chart.at = NoLocation /\ c.chart.schema = "unset"
    /\ SourceFields \subseteq DOMAIN c.chart.source
    /\ c.chart.source.type = "git" => c.chart.source.ref # "none"
    /\ c.manifest.template = "unset"
    /\ c.actions.after = <<>>
    /\ BareList(c.actions.onCreate) /\ BareList(c.actions.before) /\ BareList(c.actions.success)

GenericOfBeta(g) ==
    /\ g.original = "v1beta1" /\ g.api = "v1beta1" /\ g.kind = "ZarfPackageConfig" /\ g.url = ""
    /\ g.override = Bool(~g.prevent)
    /\ g.checksum \in {"", g.buildChecksum}
    /\ ComponentOfBeta(g.component)

LEMMA BetaPackageOK ==
    ASSUME NEW b \in BetaPackage,
           \A l \in {"onCreate", "before", "success"} : SetsNothing(b.component[l])
    PROVE  BetaOK(b)
<1> DEFINE c == b.component
<1>1. b.kind = "ZarfPackageConfig" /\ c \in BetaComponent
  BY DEF BetaPackage
<1> HIDE DEF c
<1>2. /\ c.repo \in [url : STRING, urlRef : RepoRefs, ref : STRING]
      /\ c.chart \in [source : Source, values : Seq(ValuesFile), skipSchema : BOOLEAN, ns : STRING]
      /\ c.onCreate \in Seq(Action) /\ c.before \in Seq(Action) /\ c.success \in Seq(Action)
  <2>1. BetaComponent =
          [name : STRING, copied : STRING, image : [name : STRING, source : STRING],
           service : STRING, optional : BOOLEAN, import : Seq(STRING),
           repo : [url : STRING, urlRef : RepoRefs, ref : STRING],
           chart : [source : Source, values : Seq(ValuesFile), skipSchema : BOOLEAN, ns : STRING],
           manifest : [templating : BOOLEAN, ns : STRING],
           onCreate : Seq(Action), before : Seq(Action), success : Seq(Action)]
    BY Zenon DEF BetaComponent, RepoRefs
  <2> QED BY <1>1, <2>1
<1>3. c.repo.urlRef \in RepoRefs
  BY <1>2
<1>4. c.chart.source \in Source /\ c.chart.values \in Seq(ValuesFile)
  BY <1>2
<1>5. SourceFields \subseteq DOMAIN c.chart.source
  BY <1>4 DEF Source, SourceFields
<1>6. IsList(c.chart.values)
  BY <1>4, ListOf
<1>7. ActionList(c.onCreate) /\ ActionList(c.before) /\ ActionList(c.success)
  BY <1>2, ActionsOK
<1>8. SetsNothing(c.onCreate) /\ SetsNothing(c.before) /\ SetsNothing(c.success)
  <2> HIDE DEF SetsNothing
  <2> QED BY Zenon DEF c
<1>9. ASSUME NEW s, ActionList(s), SetsNothing(s) PROVE BareList(s)
  <2>1. DOMAIN s = 1 .. Len(s)
    BY <1>9, ListDomain DEF ActionList
  <2> QED BY <1>9, <2>1, Zenon DEF SetsNothing, BareList
<1>10. BareList(c.onCreate) /\ BareList(c.before) /\ BareList(c.success)
  BY <1>7, <1>8, <1>9, Zenon
<1>11. BetaComponentOK(c)
  BY <1>3, <1>5, <1>6, <1>10, Zenon DEF BetaComponentOK
<1> QED BY <1>1, <1>11, Zenon DEF BetaOK, c

\* A v1beta1 package becomes a generic one.
LEMMA GenericFromBeta ==
    ASSUME NEW b, BetaOK(b)
    PROVE  GenericOK(BetaToGeneric(b)) /\ GenericOfBeta(BetaToGeneric(b))
<1> DEFINE g == BetaToGeneric(b)
           c == b.component
           d == BetaComponentToGeneric(c)
           h == BetaChartToGeneric(c.chart)
           e == ""
<1>1. BetaComponentOK(c) /\ b.kind = "ZarfPackageConfig"
  BY DEF BetaOK
<1>2. /\ c.repo.urlRef \in RepoRefs /\ SourceFields \subseteq DOMAIN c.chart.source
      /\ IsList(c.chart.values)
      /\ BareList(c.onCreate) /\ BareList(c.before) /\ BareList(c.success)
  BY <1>1, Zenon DEF BetaComponentOK
<1>3. /\ GenericFields \subseteq DOMAIN g
      /\ g.original = "v1beta1" /\ g.api = "v1beta1" /\ g.kind = b.kind /\ g.url = e
      /\ g.checksum = e /\ g.component = d
  BY DEF GenericFields, BetaToGeneric
<1>4. g.override = Bool(~b.prevent) /\ g.prevent = b.prevent
  BY Zenon DEF BetaToGeneric
<1>5. g.override = Bool(~g.prevent)
  BY <1>4, Zenon
<1>6. /\ ComponentFields \subseteq DOMAIN d
      /\ d.required = "unset" /\ d.health = <<>> /\ d.scripts = NoScripts
  BY DEF ComponentFields, BetaComponentToGeneric
<1>a. d.import.path = e
  BY Zenon DEF BetaComponentToGeneric
<1>b. /\ d.repo = BetaRepositoriesToGeneric(c.repo) /\ d.chart = h
      /\ d.actions = BetaActionsToGeneric(c)
  BY DEF BetaComponentToGeneric
<1>7. d.removed = FALSE
  BY Zenon DEF BetaComponentToGeneric
<1>8. ManifestFields \subseteq DOMAIN d.manifest /\ d.manifest.template = "unset"
  BY DEF BetaComponentToGeneric, ManifestFields
<1>11. /\ ChartFields \subseteq DOMAIN h /\ h.at = NoLocation /\ h.schema = "unset"
       /\ h.values = c.chart.values
  BY DEF BetaChartToGeneric, ChartFields, NoLocation
<1>12. h.source = [c.chart.source EXCEPT !.ref =
                     IF c.chart.source.type = "git" /\ c.chart.source.ref = "none" THEN "nil"
                     ELSE c.chart.source.ref]
  BY Zenon DEF BetaChartToGeneric
<1> HIDE DEF g, c, d, h, e
<1>9. d.repo.urlRef = c.repo.urlRef
  BY <1>b DEF BetaRepositoriesToGeneric
<1>10. /\ d.actions.onCreate = c.onCreate /\ d.actions.before = c.before
       /\ d.actions.after = <<>> /\ d.actions.success = c.success
  BY <1>b DEF BetaActionsToGeneric
<1>13. SourceFields \subseteq DOMAIN h.source /\ (h.source.type = "git" => h.source.ref # "none")
  <2> DEFINE s == c.chart.source
  <2>1. SourceFields \subseteq DOMAIN s
    BY <1>2
  <2>2. h.source = [s EXCEPT !.ref = IF s.type = "git" /\ s.ref = "none" THEN "nil" ELSE s.ref]
    BY <1>12
  <2> HIDE DEF s
  <2> QED BY <2>1, <2>2 DEF SourceFields
<1>14. ActionList(c.onCreate) /\ ActionList(c.before) /\ ActionList(c.success) /\ ActionList(<<>>)
  BY <1>2, EmptyActions, Zenon DEF BareList
<1>15. ComponentOK(d)
  BY <1>2, <1>6, <1>8, <1>10, <1>11, <1>14, <1>b, NoScriptsOK DEF ComponentOK
<1>16. ComponentOfBeta(d)
  BY <1>2, <1>6, <1>7, <1>8, <1>9, <1>10, <1>11, <1>13, <1>a, <1>b, Zenon DEF ComponentOfBeta, e
<1>17. GenericOK(g)
  BY <1>3, <1>15 DEF GenericOK
<1>18. GenericOfBeta(g)
  BY <1>1, <1>3, <1>5, <1>16, Zenon DEF GenericOfBeta, e
<1> QED BY <1>17, <1>18 DEF g

-----------------------------------------------------------------------------
(* From the generic package to v1beta1 and back.                           *)

LEMMA GitRefs ==
    /\ ClassifyGitRef("") = "none" /\ ClassifyGitRef("tag") = "tag"
    /\ ClassifyGitRef("commit") = "commit" /\ ClassifyGitRef("refs/heads/branch") = "branch"
    /\ FlattenGitRef("tag") = "tag" /\ FlattenGitRef("commit") = "commit"
    /\ FlattenGitRef("branch") = "refs/heads/branch"
    /\ FlattenGitRef("none") = "" /\ FlattenGitRef("nil") = ""
    /\ \A r : ClassifyGitRef(r) \in {"none", "tag", "commit", "branch"}
    /\ \A r : r # "" => ClassifyGitRef(r) # "none"
<1>1. ClassifyGitRef("") = "none" /\ ClassifyGitRef("tag") = "tag"
  BY Zenon DEF ClassifyGitRef
<1>2. ClassifyGitRef("commit") = "commit" /\ ClassifyGitRef("refs/heads/branch") = "branch"
  BY Zenon DEF ClassifyGitRef
<1>3. FlattenGitRef("tag") = "tag" /\ FlattenGitRef("commit") = "commit"
  BY Zenon DEF FlattenGitRef
<1>4. FlattenGitRef("branch") = "refs/heads/branch"
  BY Zenon DEF FlattenGitRef
<1>5. FlattenGitRef("none") = "" /\ FlattenGitRef("nil") = ""
  BY Zenon DEF FlattenGitRef
<1>6. ASSUME NEW r
      PROVE  /\ ClassifyGitRef(r) \in {"none", "tag", "commit", "branch"}
             /\ r # "" => ClassifyGitRef(r) # "none"
  <2>1. CASE r = ""
    BY <1>1, <2>1, Zenon
  <2>2. CASE r # "" /\ r = "commit"
    BY <1>2, <2>2, Zenon
  <2>3. CASE r # "" /\ r = "refs/heads/branch"
    BY <1>2, <2>3, Zenon
  <2>4. CASE r # "" /\ r # "commit" /\ r # "refs/heads/branch"
    <3>1. ClassifyGitRef(r) = "tag"
      BY <2>4, Zenon DEF ClassifyGitRef
    <3> QED BY <3>1, Zenon
  <2> QED BY <2>1, <2>2, <2>3, <2>4, Zenon
<1> QED BY <1>1, <1>2, <1>3, <1>4, <1>5, <1>6, Zenon

LEMMA RepoFields ==
    ASSUME NEW r
    PROVE  /\ AlphaReposFromGeneric(r) =
                [url |-> r.url,
                 ref |-> IF r.ref \in {"nil", "none"} THEN r.urlRef ELSE FlattenGitRef(r.ref)]
           /\ LET t == BetaRepositoriesToGeneric(r) IN
              t.url = r.url /\ t.urlRef = r.urlRef /\ t.ref = r.ref
BY DEF AlphaReposFromGeneric, BetaRepositoriesToGeneric

\* The reference of a repository that is a part of its URL moves out of it.
LEMMA RepoAgain ==
    ASSUME NEW r, r.urlRef \in RepoRefs
    PROVE  LET s == BetaRepositoriesFromGeneric(r) IN
           /\ s.urlRef \in RepoRefs
           /\ AlphaReposFromGeneric(BetaRepositoriesToGeneric(s)) = AlphaReposFromGeneric(r)
<1> DEFINE s == BetaRepositoriesFromGeneric(r)
           t == BetaRepositoriesToGeneric(s)
           u == r.urlRef
           e == ""
<1>1. s = IF r.ref # "nil" \/ u = e THEN r
          ELSE [url |-> r.url, urlRef |-> e, ref |-> ClassifyGitRef(u)]
  BY Zenon DEF BetaRepositoriesFromGeneric
<1>2. t.url = s.url /\ t.urlRef = s.urlRef /\ t.ref = s.ref
  BY RepoFields
<1>3. u \in {e, "tag", "commit", "refs/heads/branch"} /\ e \in RepoRefs
  BY Zenon DEF RepoRefs
<1>4. /\ ClassifyGitRef("tag") = "tag" /\ FlattenGitRef("tag") = "tag"
      /\ ClassifyGitRef("commit") = "commit" /\ FlattenGitRef("commit") = "commit"
      /\ ClassifyGitRef("refs/heads/branch") = "branch"
      /\ FlattenGitRef("branch") = "refs/heads/branch"
  BY GitRefs, Zenon
<1> HIDE DEF s, t, u, e
<1>5. CASE r.ref # "nil" \/ u = e
  <2>1. s = r
    BY <1>1, <1>5
  <2>2. AlphaReposFromGeneric(t) = AlphaReposFromGeneric(r)
    BY <1>2, <2>1, RepoFields
  <2> QED BY <2>1, <2>2 DEF s, t
<1>6. CASE ~(r.ref # "nil" \/ u = e)
  <2>1. s.url = r.url /\ s.urlRef = e /\ s.ref = ClassifyGitRef(u)
    BY <1>1, <1>6
  <2>2. /\ ClassifyGitRef(u) \notin {"nil", "none"} /\ FlattenGitRef(ClassifyGitRef(u)) = u
    BY <1>3, <1>4, <1>6
  <2>3. AlphaReposFromGeneric(t) = [url |-> r.url, ref |-> u]
    BY <1>2, <2>1, <2>2, RepoFields
  <2>4. AlphaReposFromGeneric(r) = [url |-> r.url, ref |-> u]
    BY <1>6, RepoFields DEF u
  <2>5. s.urlRef \in RepoRefs
    BY <1>3, <2>1
  <2> QED BY <2>3, <2>4, <2>5, Zenon DEF s, t
<1> QED BY <1>5, <1>6, Zenon

\* The fields of the source that its flat form is made of.
FlatSource(at, type, url, urlRef, ref, path) ==
    LET flat == FlattenGitRef(ref)
        branch == type = "git" /\ flat = "refs/heads/branch"
        digest == type = "oci" /\ ref = "digest"
    IN  IF at.url # "" \/ at.local # "" \/ type = "none" THEN at
        ELSE [url |-> IF type = "local" THEN "" ELSE url,
              ref |-> IF branch THEN flat ELSE IF digest THEN "digest"
                      ELSE IF type \in {"oci", "helm"} THEN urlRef ELSE "",
              version |-> IF branch \/ digest THEN "" ELSE IF type = "git" THEN flat ELSE ref,
              gitPath |-> IF type = "git" THEN path ELSE "",
              local |-> IF type = "local" THEN path ELSE ""]

LEMMA SourceIs ==
    ASSUME NEW p
    PROVE  AlphaSourceFromGeneric(p) =
           FlatSource(p.at, p.source.type, p.source.url, p.source.urlRef, p.source.ref, p.source.path)
BY Zenon DEF AlphaSourceFromGeneric, FlatSource

LEMMA ChartSame ==
    ASSUME NEW p, NEW q, p.at = q.at, p.values = q.values, p.ns = q.ns, p.schema = q.schema,
           p.skipSchema <=> q.skipSchema,
           p.source.type = q.source.type, p.source.url = q.source.url,
           p.source.urlRef = q.source.urlRef, p.source.ref = q.source.ref,
           p.source.path = q.source.path
    PROVE  AlphaChartFromGeneric(p) = AlphaChartFromGeneric(q)
<1>1. AlphaSourceFromGeneric(p) = AlphaSourceFromGeneric(q)
  BY SourceIs
<1>2. SchemaFromGeneric(p) = SchemaFromGeneric(q)
  BY DEF SchemaFromGeneric
<1>3. ASSUME NEW h
      PROVE  AlphaChartFromGeneric(h) =
          [at |-> AlphaSourceFromGeneric(h), schema |-> SchemaFromGeneric(h), ns |-> h.ns,
           plain |-> PathsOf(h.values, DOMAIN h.values \ Templated(h.values)),
           templated |-> PathsOf(h.values, Templated(h.values))]
  BY DEF AlphaChartFromGeneric, Templated
<1> QED BY <1>1, <1>2, <1>3

LEMMA ManifestSame ==
    ASSUME NEW p, NEW q, p.template = q.template, p.ns = q.ns, p.templating <=> q.templating
    PROVE  AlphaManifestFromGeneric(p) = AlphaManifestFromGeneric(q)
<1>1. TemplateFromGeneric(p) = TemplateFromGeneric(q)
  BY DEF TemplateFromGeneric
<1> QED BY <1>1 DEF AlphaManifestFromGeneric

LEMMA PackageSame ==
    ASSUME NEW g, NEW h,
           h.api = g.api, h.kind = g.kind, h.copied = g.copied, h.url = g.url, h.note = g.note,
           h.override = g.override, h.signed = g.signed, h.provenance = g.provenance,
           h.requirements = g.requirements, h.migrations = g.migrations,
           AlphaMetadataFromGeneric(h).checksum = AlphaMetadataFromGeneric(g).checksum,
           h.component.service = g.component.service,
           AlphaComponentFromGeneric(h.component) = AlphaComponentFromGeneric(g.component)
    PROVE  AlphaFromGeneric(h) = AlphaFromGeneric(g)
<1> DEFINE e == ""
           M(k) == AlphaMetadataFromGeneric(k)
<1>1. ASSUME NEW k
      PROVE  AlphaFromGeneric(k) =
        [api |-> IF k.api = e THEN e ELSE "v1alpha1",
         kind |-> IF k.component.service # e THEN "ZarfInitConfig"
                  ELSE IF k.kind = e THEN "ZarfPackageConfig" ELSE k.kind,
         copied |-> k.copied, url |-> M(k).url, note |-> M(k).note, override |-> M(k).override,
         checksum |-> M(k).checksum, signed |-> k.signed, provenance |-> k.provenance,
         requirements |-> k.requirements, migrations |-> k.migrations,
         component |-> AlphaComponentFromGeneric(k.component)]
  BY Zenon DEF AlphaFromGeneric
<1>2. ASSUME NEW k
      PROVE  /\ M(k).url = IF k.url = e THEN k.note ELSE k.url
             /\ M(k).note = e /\ M(k).override = k.override
  BY Zenon DEF AlphaMetadataFromGeneric
<1> HIDE DEF e, M
<1>3. M(h).checksum = M(g).checksum
  BY DEF M
<1>4. M(h).url = M(g).url /\ M(h).note = M(g).note /\ M(h).override = M(g).override
  BY <1>2
<1> QED BY <1>1, <1>3, <1>4

\* A Git reference that is not given, in v1beta1 and in the generic package.
NoneRef(s) == IF s.type = "git" /\ s.ref = "nil" THEN "none" ELSE s.ref
NilRef(s) == IF s.type = "git" /\ s.ref = "none" THEN "nil" ELSE s.ref

LEMMA BetaChartFields ==
    ASSUME NEW p
    PROVE  LET q == BetaChartFromGeneric(p) IN
           /\ q.values = p.values /\ q.ns = p.ns
           /\ q.skipSchema <=> (p.skipSchema \/ p.schema = "false")
           /\ q.source = IF p.source.type = "none" THEN InferSource(p.at)
                         ELSE [p.source EXCEPT !.ref = NoneRef(p.source)]
<1> DEFINE q == BetaChartFromGeneric(p)
<1>1. q.skipSchema = (p.skipSchema \/ p.schema = "false")
  BY Zenon DEF BetaChartFromGeneric
<1>2. q.skipSchema <=> (p.skipSchema \/ p.schema = "false")
  BY <1>1, Zenon
<1>3. /\ q.values = p.values /\ q.ns = p.ns
      /\ q.source = IF p.source.type = "none" THEN InferSource(p.at)
                    ELSE [p.source EXCEPT !.ref = NoneRef(p.source)]
  BY Zenon DEF BetaChartFromGeneric, NoneRef
<1> QED BY <1>2, <1>3, Zenon

LEMMA GenericChartFields ==
    ASSUME NEW q
    PROVE  LET r == BetaChartToGeneric(q) IN
           /\ r.at = NoLocation /\ r.values = q.values /\ r.schema = "unset" /\ r.ns = q.ns
           /\ r.skipSchema = q.skipSchema
           /\ r.source = [q.source EXCEPT !.ref = NilRef(q.source)]
BY Zenon DEF BetaChartToGeneric, NoLocation, NilRef

LEMMA BetaManifestFields ==
    ASSUME NEW m
    PROVE  LET n == BetaManifestFromGeneric(m) IN
           /\ n.ns = m.ns
           /\ n.templating <=> (m.templating \/ IsTrue(m.template))
<1> DEFINE n == BetaManifestFromGeneric(m)
<1>1. n.templating = (m.templating \/ IsTrue(m.template)) /\ n.ns = m.ns
  BY Zenon DEF BetaManifestFromGeneric
<1> QED BY <1>1, Zenon

\* The component of a v1beta1 package comes back as it was.
LEMMA BetaComponentAgain ==
    ASSUME NEW g, GenericOK(g), GenericOfBeta(g)
    PROVE  LET d == BetaFromGeneric(g).component
               k == BetaComponentToGeneric(d) IN
           /\ BetaComponentOK(d)
           /\ k.service = g.component.service
           /\ AlphaComponentFromGeneric(k) = AlphaComponentFromGeneric(g.component)
<1> DEFINE c == g.component
           d == BetaFromGeneric(g).component
           k == BetaComponentToGeneric(d)
           a == c.actions
           e == ""
<1>1. /\ g.kind = "ZarfPackageConfig" /\ g.original = "v1beta1" /\ ComponentOfBeta(c)
  BY Zenon DEF GenericOfBeta
<1>2. ComponentOK(c)
  BY DEF GenericOK
<1>3. /\ c.required = "unset" /\ c.import.path = e /\ c.health = <<>> /\ c.scripts = NoScripts
      /\ c.removed = FALSE /\ c.repo.urlRef \in RepoRefs
      /\ c.chart.at = NoLocation /\ c.chart.schema = "unset"
      /\ SourceFields \subseteq DOMAIN c.chart.source
      /\ c.chart.source.type = "git" => c.chart.source.ref # "none"
      /\ c.manifest.template = "unset"
  BY <1>1, Zenon DEF ComponentOfBeta
<1>4. /\ a.after = <<>> /\ BareList(a.onCreate) /\ BareList(a.before) /\ BareList(a.success)
  BY <1>1, Zenon DEF ComponentOfBeta
<1>5. IsList(c.chart.values)
  BY <1>2 DEF ComponentOK
<1>6. /\ d.name = c.name /\ d.copied = c.copied /\ d.image = c.image
      /\ d.service = (IF c.service # e THEN c.service
                      ELSE IF g.kind = "ZarfInitConfig" /\ c.name = "zarf-registry"
                           THEN "registry" ELSE e)
      /\ d.optional = OptionalFromGeneric(c)
      /\ d.import = BetaImportFromGeneric(c.import)
      /\ d.repo = BetaRepositoriesFromGeneric(c.repo)
      /\ d.chart = BetaChartFromGeneric(c.chart)
      /\ d.manifest = BetaManifestFromGeneric(c.manifest)
      /\ d.onCreate = Upgraded(g, Bare(a.onCreate))
      /\ d.before = Upgraded(g, Bare(a.before))
      /\ d.success = Upgraded(g, Bare(a.after \o a.success)) \o HealthCheckWaits(c)
  BY BetaComponentIs, Zenon
<1>7. /\ k.name = d.name /\ k.copied = d.copied /\ k.image = d.image /\ k.service = d.service
      /\ k.required = "unset" /\ k.health = <<>> /\ k.scripts = NoScripts
      /\ k.repo = BetaRepositoriesToGeneric(d.repo) /\ k.chart = BetaChartToGeneric(d.chart)
      /\ k.actions = BetaActionsToGeneric(d)
  BY DEF BetaComponentToGeneric
<1>8. k.import.path = e /\ k.import.local = d.import /\ k.removed = FALSE /\ k.optional = d.optional
  BY Zenon DEF BetaComponentToGeneric
<1>9. /\ k.manifest.template = "unset" /\ k.manifest.ns = d.manifest.ns
      /\ k.manifest.templating = d.manifest.templating
  BY Zenon DEF BetaComponentToGeneric
<1>10. BetaImportFromGeneric(c.import) =
         IF c.import.local = <<>> /\ c.import.path # e THEN <<c.import.path>> ELSE c.import.local
  BY Zenon DEF BetaImportFromGeneric
<1>11. \A i : AlphaImportFromGeneric(i) = IF i.path = e /\ i.local # <<>> THEN i.local[1] ELSE i.path
  BY Zenon DEF AlphaImportFromGeneric
<1>12. ASSUME NEW q
       PROVE  AlphaComponentFromGeneric(q) =
        [name |-> q.name, copied |-> q.copied, image |-> q.image.name,
         required |-> RequiredFromGeneric(q), import |-> AlphaImportFromGeneric(q.import),
         health |-> q.health, scripts |-> q.scripts, removed |-> q.removed,
         repo |-> AlphaReposFromGeneric(q.repo), chart |-> AlphaChartFromGeneric(q.chart),
         manifest |-> AlphaManifestFromGeneric(q.manifest),
         onCreate |-> q.actions.onCreate, before |-> q.actions.before,
         after |-> q.actions.after, success |-> q.actions.success]
  BY ComponentFrom
<1> HIDE DEF c, d, k, a, e
<1>13. k.service = c.service
  BY <1>1, <1>6, <1>7
<1>14. RequiredFromGeneric(k) = RequiredFromGeneric(c)
  <2>1. OptionalFromGeneric(c) = c.optional
    BY <1>3, Zenon DEF OptionalFromGeneric
  <2>2. k.optional = c.optional
    BY <1>6, <1>8, <2>1, Zenon
  <2>3. k.required = c.required
    BY <1>3, <1>7, Zenon
  <2> QED BY <2>2, <2>3, Zenon DEF RequiredFromGeneric
<1>15. AlphaImportFromGeneric(k.import) = AlphaImportFromGeneric(c.import)
  <2>1. d.import = c.import.local
    BY <1>3, <1>6, <1>10, Zenon
  <2> QED BY <1>3, <1>8, <1>11, <2>1
<1>16. /\ AlphaReposFromGeneric(k.repo) = AlphaReposFromGeneric(c.repo)
       /\ d.repo.urlRef \in RepoRefs
  BY <1>3, <1>6, <1>7, RepoAgain, Zenon
<1>17. /\ AlphaChartFromGeneric(k.chart) = AlphaChartFromGeneric(c.chart)
       /\ IsList(d.chart.values) /\ SourceFields \subseteq DOMAIN d.chart.source
  <2> DEFINE p == c.chart
             q == d.chart
             r == k.chart
             s == p.source
  <2>a. q = BetaChartFromGeneric(p) /\ r = BetaChartToGeneric(q)
    BY <1>6, <1>7, Zenon
  <2>1. q.values = p.values /\ q.ns = p.ns
    BY <1>6, BetaChartFields, Zenon
  <2>2. q.skipSchema <=> p.skipSchema
    <3>1. p.schema # "false"
      BY <1>3
    <3>2. q.skipSchema <=> (p.skipSchema \/ p.schema = "false")
      BY <1>6, BetaChartFields, Zenon
    <3> QED BY <3>1, <3>2, Zenon
  <2>b. p.source = s /\ p.at = NoLocation
    BY <1>3
  <2> HIDE DEF p, q, r, s
  <2>3. q.source = IF s.type = "none" THEN InferSource(p.at) ELSE [s EXCEPT !.ref = NoneRef(s)]
    BY <2>a, <2>b, BetaChartFields
  <2>4. /\ r.at = NoLocation /\ r.values = q.values /\ r.schema = "unset" /\ r.ns = q.ns
        /\ r.skipSchema = q.skipSchema /\ r.source = [q.source EXCEPT !.ref = NilRef(q.source)]
    BY <2>a, GenericChartFields
  <2>7. InferSource(NoLocation) = NoSource
    BY Zenon DEF InferSource, NoLocation
  <2>8. NoSource.type = "none" /\ SourceFields \subseteq DOMAIN NoSource
    BY DEF NoSource, SourceFields
  <2>9. CASE s.type # "none"
    <3>1. q.source = [s EXCEPT !.ref = NoneRef(s)]
      BY <2>3, <2>9
    <3>2. /\ SourceFields \subseteq DOMAIN s /\ (s.type = "git" => s.ref # "none")
      BY <1>3 DEF s, p
    <3>3. /\ SourceFields \subseteq DOMAIN q.source /\ q.source.type = s.type
          /\ q.source.url = s.url /\ q.source.urlRef = s.urlRef /\ q.source.path = s.path
          /\ q.source.ref = NoneRef(s)
      BY <3>1, <3>2 DEF SourceFields
    <3>4. /\ r.source.type = s.type /\ r.source.url = s.url /\ r.source.urlRef = s.urlRef
          /\ r.source.path = s.path
      BY <2>4, <3>3 DEF SourceFields
    <3>5. r.source.ref = s.ref
      <4>1. r.source.ref = NilRef(q.source)
        BY <2>4, <3>3 DEF SourceFields
      <4> QED BY <3>2, <3>3, <4>1 DEF NilRef, NoneRef
    <3>6. /\ r.at = p.at /\ r.values = p.values /\ r.ns = p.ns /\ r.schema = p.schema
      BY <1>3, <2>1, <2>4 DEF p
    <3>7. r.skipSchema <=> p.skipSchema
      BY <2>2, <2>4, Zenon DEF p, q
    <3>8. AlphaChartFromGeneric(r) = AlphaChartFromGeneric(p)
      BY <2>b, <3>4, <3>5, <3>6, <3>7, ChartSame
    <3> QED BY <1>5, <2>1, <3>3, <3>8 DEF p, q, r
  <2>10. CASE s.type = "none"
    <3>1. q.source = NoSource
      BY <2>3, <2>7, <2>10, <2>b
    <3>a. FlatSource(NoLocation, "none", r.source.url, r.source.urlRef, r.source.ref, r.source.path) =
          FlatSource(NoLocation, "none", s.url, s.urlRef, s.ref, s.path)
      BY Zenon DEF FlatSource
    <3>2. r.source.type = "none"
      BY <2>4, <2>8, <3>1 DEF SourceFields
    <3>3. AlphaSourceFromGeneric(r) = AlphaSourceFromGeneric(p)
      BY <2>4, <2>10, <2>b, <3>2, <3>a, SourceIs
    <3>4. r.schema = p.schema
      BY <1>3, <2>4 DEF p
    <3>5. r.skipSchema <=> p.skipSchema
      BY <2>2, <2>4, Zenon DEF p, q
    <3>6. SchemaFromGeneric(r) = SchemaFromGeneric(p)
      BY <3>4, <3>5 DEF SchemaFromGeneric
    <3>7. AlphaChartFromGeneric(r) = AlphaChartFromGeneric(p)
      BY <2>1, <2>4, <3>3, <3>6 DEF AlphaChartFromGeneric
    <3> QED BY <1>5, <2>1, <2>8, <3>1, <3>7 DEF p, q, r
  <2> QED BY <2>9, <2>10, Zenon
<1>18. AlphaManifestFromGeneric(k.manifest) = AlphaManifestFromGeneric(c.manifest)
  <2>1. /\ d.manifest.ns = c.manifest.ns
        /\ d.manifest.templating <=> (c.manifest.templating \/ IsTrue(c.manifest.template))
    BY <1>6, BetaManifestFields, Zenon
  <2>2. ~IsTrue(c.manifest.template)
    BY <1>3 DEF IsTrue
  <2>3. d.manifest.templating <=> c.manifest.templating
    BY <2>1, <2>2, Zenon
  <2>4. k.manifest.templating <=> c.manifest.templating
    BY <1>9, <2>3, Zenon
  <2> QED BY <1>3, <1>9, <2>1, <2>4, ManifestSame
<1>19. /\ d.onCreate = a.onCreate /\ d.before = a.before /\ d.success = a.success
  <2>1. \A s : Upgraded(g, s) = s
    BY <1>1 DEF Upgraded
  <2>2. ActionList(a.onCreate) /\ ActionList(a.before) /\ ActionList(a.success)
    BY <1>4, Zenon DEF BareList
  <2>3. /\ Bare(a.onCreate) = a.onCreate /\ Bare(a.before) = a.before
        /\ Bare(a.success) = a.success
    BY <1>4, <2>2, BareFacts, Zenon
  <2>4. <<>> \o a.success = a.success /\ a.success \o <<>> = a.success
    BY <2>2, ConcatEmpty DEF ActionList
  <2>5. HealthCheckWaits(c) = <<>>
    <3>1. BareList(HealthCheckWaits(c)) /\ Len(HealthCheckWaits(c)) = 0
      BY <1>3, EmptyList, HealthFacts
    <3>2. IsList(HealthCheckWaits(c))
      BY <3>1, Zenon DEF BareList, ActionList
    <3>3. \A i \in 1 .. 0 : HealthCheckWaits(c)[i] = <<>>[i]
      OBVIOUS
    <3> QED BY <3>1, <3>2, <3>3, EmptyList, SameList
  <2> QED BY <1>4, <1>6, <2>1, <2>3, <2>4, <2>5, Zenon
<1>20. /\ k.actions.onCreate = a.onCreate /\ k.actions.before = a.before
       /\ k.actions.after = a.after /\ k.actions.success = a.success
  BY <1>4, <1>7, <1>19 DEF BetaActionsToGeneric
<1>21. k.removed = c.removed
  BY <1>3, <1>8, Zenon
<1>22. AlphaComponentFromGeneric(k) = AlphaComponentFromGeneric(c)
  BY <1>3, <1>6, <1>7, <1>12, <1>14, <1>15, <1>16, <1>17, <1>18, <1>20, <1>21 DEF a
<1>23. BetaComponentOK(d)
  BY <1>4, <1>16, <1>17, <1>19, Zenon DEF BetaComponentOK
<1> QED BY <1>13, <1>22, <1>23, Zenon DEF c, d, k

\* And so does the package: v1alpha1 readers see the same before and after.
LEMMA BetaAgain ==
    ASSUME NEW g, GenericOK(g), GenericOfBeta(g)
    PROVE  LET b == BetaFromGeneric(g) IN
           /\ BetaOK(b)
           /\ AlphaFromGeneric(BetaToGeneric(b)) = AlphaFromGeneric(g)
<1> DEFINE b == BetaFromGeneric(g)
           h == BetaToGeneric(b)
           e == ""
<1>1. /\ g.api = "v1beta1" /\ g.kind = "ZarfPackageConfig" /\ g.url = e
      /\ g.override = Bool(~g.prevent) /\ g.checksum \in {e, g.buildChecksum}
  BY Zenon DEF GenericOfBeta
<1>2. /\ b.kind = "ZarfPackageConfig" /\ b.copied = g.copied
      /\ b.note = (IF g.note # e THEN g.note ELSE g.url)
      /\ b.prevent <=> (IF g.override # "unset" THEN g.override = "false" ELSE g.prevent)
      /\ b.checksum = (IF g.buildChecksum # e THEN g.buildChecksum ELSE g.checksum)
      /\ b.signed = g.signed /\ b.provenance = g.provenance
      /\ b.requirements = g.requirements /\ b.migrations = g.migrations
  BY BetaMetadataIs, Zenon
<1>3. /\ h.api = "v1beta1" /\ h.kind = b.kind /\ h.copied = b.copied /\ h.url = e
      /\ h.note = b.note /\ h.checksum = e /\ h.buildChecksum = b.checksum
      /\ h.signed = b.signed /\ h.provenance = b.provenance
      /\ h.requirements = b.requirements /\ h.migrations = b.migrations
      /\ h.component = BetaComponentToGeneric(b.component)
  BY DEF BetaToGeneric
<1>4. h.override = Bool(~b.prevent)
  BY Zenon DEF BetaToGeneric
<1>5. /\ BetaComponentOK(b.component)
      /\ h.component.service = g.component.service
      /\ AlphaComponentFromGeneric(h.component) = AlphaComponentFromGeneric(g.component)
  BY <1>3, BetaComponentAgain, Zenon
<1>6. ASSUME NEW k
      PROVE  AlphaMetadataFromGeneric(k).checksum = IF k.checksum # e THEN k.checksum ELSE k.buildChecksum
  BY Zenon DEF AlphaMetadataFromGeneric
<1> HIDE DEF b, h, e
<1>7. h.override = g.override
  <2>1. CASE g.prevent
    <3>1. Bool(~g.prevent) = "false"
      BY <2>1, Zenon DEF Bool
    <3>2. g.override = "false"
      BY <1>1, <3>1, Zenon
    <3>3. b.prevent
      BY <1>2, <3>2
    <3>4. Bool(~b.prevent) = "false"
      BY <3>3, Zenon DEF Bool
    <3> QED BY <1>4, <3>2, <3>4, Zenon
  <2>2. CASE ~g.prevent
    <3>1. Bool(~g.prevent) = "true"
      BY <2>2, Zenon DEF Bool
    <3>2. g.override = "true"
      BY <1>1, <3>1, Zenon
    <3>3. ~b.prevent
      BY <1>2, <3>2
    <3>4. Bool(~b.prevent) = "true"
      BY <3>3, Zenon DEF Bool
    <3> QED BY <1>4, <3>2, <3>4, Zenon
  <2> QED BY <2>1, <2>2, Zenon
<1>8. h.note = g.note
  BY <1>1, <1>2, <1>3
<1>9. AlphaMetadataFromGeneric(h).checksum = AlphaMetadataFromGeneric(g).checksum
  BY <1>1, <1>2, <1>3, <1>6
<1>10. AlphaFromGeneric(h) = AlphaFromGeneric(g)
  BY <1>1, <1>2, <1>3, <1>5, <1>7, <1>8, <1>9, PackageSame
<1>11. BetaOK(b)
  BY <1>2, <1>5, Zenon DEF BetaOK
<1> QED BY <1>10, <1>11 DEF b, h

LEMMA UpgradedList ==
    ASSUME NEW g, NEW s, BareList(s)
    PROVE  BareList(Upgraded(g, s))
BY FilledFacts, Zenon DEF Upgraded

LEMMA InferFields ==
    ASSUME NEW at
    PROVE  SourceFields \subseteq DOMAIN InferSource(at)
<1> DEFINE e == ""
           n == [type |-> "none", url |-> e, urlRef |-> e, ref |-> e, path |-> e]
           S(t) == [n EXCEPT !.type = "local", !.path = at.local]
           T == [n EXCEPT !.type = "oci", !.url = "oci", !.urlRef = at.ref, !.ref = at.version]
           U(r) == [n EXCEPT !.type = "git", !.url = at.url, !.path = at.gitPath, !.ref = r]
           V == [n EXCEPT !.type = "helm", !.url = at.url, !.urlRef = at.ref, !.ref = at.version]
<1>1. InferSource(at) \in {n, S(e), T, U(ClassifyGitRef(IF at.ref # "" THEN at.ref ELSE at.version)), V}
  BY Zenon DEF InferSource, NoSource
<1> HIDE DEF e
<1>2. \A t : DOMAIN S(t) = DOMAIN n
  OBVIOUS
<1>3. DOMAIN T = DOMAIN n
  OBVIOUS
<1>4. \A r : DOMAIN U(r) = DOMAIN n
  OBVIOUS
<1>5. DOMAIN V = DOMAIN n
  OBVIOUS
<1>6. SourceFields \subseteq DOMAIN n
  BY DEF SourceFields
<1> HIDE DEF n, S, T, U, V
<1> QED BY <1>1, <1>2, <1>3, <1>4, <1>5, <1>6, Zenon

LEMMA AlphaGenericIs ==
    ASSUME NEW x
    PROVE  LET g == AlphaToGeneric(x)
               c == g.component
               y == x.component IN
           /\ g.kind = x.kind /\ g.override = x.override /\ (g.prevent <=> x.override = "false")
           /\ g.original = "v1alpha1"
           /\ c.name = y.name /\ c.service = "" /\ c.required = y.required
           /\ c.optional <=> ~IsTrue(y.required)
           /\ c.import.path = y.import /\ c.import.local = <<>> /\ c.health = y.health
           /\ c.repo.urlRef = y.repo.ref /\ c.repo.ref = "nil"
           /\ c.chart.at = y.chart.at /\ c.chart.source = NoSource
           /\ c.chart.values = AlphaValuesFilesToGeneric(y.chart.plain, y.chart.templated)
           /\ c.chart.schema = y.chart.schema /\ (c.chart.skipSchema <=> y.chart.schema = "false")
           /\ c.manifest.template = y.manifest.template
           /\ c.manifest.templating <=> IsTrue(y.manifest.template)
           /\ c.actions.onCreate = y.onCreate /\ c.actions.before = y.before
           /\ c.actions.after = y.after /\ c.actions.success = y.success
<1> DEFINE g == AlphaToGeneric(x)
           c == g.component
           y == x.component
           k == AlphaComponentToGeneric(y)
           e == ""
<1>1. g.kind = x.kind /\ g.override = x.override /\ g.original = "v1alpha1" /\ c = k
  BY DEF AlphaToGeneric
<1>2. g.prevent = (x.override = "false")
  BY Zenon DEF AlphaToGeneric
<1>3. g.prevent <=> x.override = "false"
  BY <1>2, Zenon
<1>4. /\ k.name = y.name /\ k.service = e /\ k.required = y.required /\ k.health = y.health
      /\ k.repo = AlphaReposToGeneric(y.repo) /\ k.chart = AlphaChartToGeneric(y.chart)
      /\ k.manifest = AlphaManifestToGeneric(y.manifest) /\ k.actions = AlphaActionsToGeneric(y)
  BY DEF AlphaComponentToGeneric
<1>5. k.optional = ~IsTrue(y.required)
  BY Zenon DEF AlphaComponentToGeneric
<1>6. k.optional <=> ~IsTrue(y.required)
  BY <1>5, Zenon
<1>7. k.import.path = y.import /\ k.import.local = <<>>
  BY DEF AlphaComponentToGeneric
<1>8. ASSUME NEW r PROVE AlphaReposToGeneric(r).urlRef = r.ref /\ AlphaReposToGeneric(r).ref = "nil"
  BY DEF AlphaReposToGeneric
<1>9. ASSUME NEW h
      PROVE  LET q == AlphaChartToGeneric(h) IN
             /\ q.at = h.at /\ q.source = NoSource /\ q.schema = h.schema
             /\ q.values = AlphaValuesFilesToGeneric(h.plain, h.templated)
             /\ q.skipSchema <=> h.schema = "false"
  BY ChartSkips DEF AlphaChartToGeneric
<1>10. ASSUME NEW m
       PROVE  LET q == AlphaManifestToGeneric(m) IN
              q.template = m.template /\ (q.templating <=> IsTrue(m.template))
  BY DEF AlphaManifestToGeneric
<1>11. LET q == AlphaActionsToGeneric(y) IN
       /\ q.onCreate = y.onCreate /\ q.before = y.before
       /\ q.after = y.after /\ q.success = y.success
  BY DEF AlphaActionsToGeneric
<1> HIDE DEF g, c, y, k, e
<1>12. /\ k.repo.urlRef = y.repo.ref /\ k.repo.ref = "nil"
       /\ k.chart.at = y.chart.at /\ k.chart.source = NoSource
       /\ k.chart.values = AlphaValuesFilesToGeneric(y.chart.plain, y.chart.templated)
       /\ k.chart.schema = y.chart.schema /\ (k.chart.skipSchema <=> y.chart.schema = "false")
       /\ k.manifest.template = y.manifest.template
       /\ k.manifest.templating <=> IsTrue(y.manifest.template)
       /\ k.actions.onCreate = y.onCreate /\ k.actions.before = y.before
       /\ k.actions.after = y.after /\ k.actions.success = y.success
  BY <1>4, <1>8, <1>9, <1>10, <1>11
<1> QED BY <1>1, <1>3, <1>4, <1>6, <1>7, <1>12, Zenon DEF g, c, y, e

\* What upgrade-schema prints is a v1beta1 package.
LEMMA UpgradeIsBeta ==
    ASSUME NEW x, AlphaOK(x), IsList(x.component.health)
    PROVE  BetaOK(BetaFromGeneric(AlphaToGeneric(x)))
<1> DEFINE g == AlphaToGeneric(x)
           c == g.component
           b == BetaFromGeneric(g)
           d == b.component
           a == c.actions
           e == ""
<1>1. GenericOK(g)
  BY GenericOfAlpha
<1>2. c.health = x.component.health /\ c.chart.source = NoSource /\ c.repo.ref = "nil"
  BY AlphaGenericIs, Zenon
<1>3. /\ IsList(c.chart.values) /\ ActionList(a.onCreate) /\ ActionList(a.before)
      /\ ActionList(a.after) /\ ActionList(a.success)
  BY <1>1 DEF GenericOK, ComponentOK
<1>4. b.kind = "ZarfPackageConfig"
  BY BetaMetadataIs, Zenon
<1>5. /\ d.repo = BetaRepositoriesFromGeneric(c.repo)
      /\ d.chart = BetaChartFromGeneric(c.chart)
      /\ d.onCreate = Upgraded(g, Bare(a.onCreate))
      /\ d.before = Upgraded(g, Bare(a.before))
      /\ d.success = Upgraded(g, Bare(a.after \o a.success)) \o HealthCheckWaits(c)
  BY BetaComponentIs, Zenon
<1>6. BetaRepositoriesFromGeneric(c.repo) =
        IF c.repo.ref # "nil" \/ c.repo.urlRef = e THEN c.repo
        ELSE [url |-> c.repo.url, urlRef |-> e, ref |-> ClassifyGitRef(c.repo.urlRef)]
  BY Zenon DEF BetaRepositoriesFromGeneric
<1>7. e \in RepoRefs
  BY Zenon DEF RepoRefs
<1>8. NoSource.type = "none"
  BY DEF NoSource
<1> HIDE DEF g, c, b, d, a, e
<1>9. d.repo.urlRef \in RepoRefs
  BY <1>2, <1>5, <1>6, <1>7
<1>10. d.chart.values = c.chart.values /\ d.chart.source = InferSource(c.chart.at)
  <2>1. LET p == c.chart
            q == d.chart IN
        /\ q.values = p.values
        /\ q.source = IF p.source.type = "none" THEN InferSource(p.at)
                      ELSE [p.source EXCEPT !.ref = NoneRef(p.source)]
    BY <1>5, BetaChartFields
  <2> QED BY <1>2, <1>8, <2>1
<1>11. SourceFields \subseteq DOMAIN d.chart.source /\ IsList(d.chart.values)
  BY <1>3, <1>10, InferFields
<1>12. ActionList(a.after \o a.success)
  BY <1>3, ConcatActions
<1>13. BareList(Bare(a.onCreate)) /\ BareList(Bare(a.before)) /\ BareList(Bare(a.after \o a.success))
  BY <1>3, <1>12, BareFacts, Zenon
<1>14. /\ BareList(Upgraded(g, Bare(a.onCreate))) /\ BareList(Upgraded(g, Bare(a.before)))
       /\ BareList(Upgraded(g, Bare(a.after \o a.success)))
  BY <1>13, UpgradedList, Zenon
<1>15. BareList(HealthCheckWaits(c))
  BY <1>2, HealthFacts
<1>16. BareList(d.onCreate) /\ BareList(d.before) /\ BareList(d.success)
  BY <1>5, <1>14, <1>15, ConcatBare
<1>17. BetaComponentOK(d)
  BY <1>9, <1>11, <1>16 DEF BetaComponentOK
<1> QED BY <1>4, <1>17, Zenon DEF BetaOK, b, d, g

-----------------------------------------------------------------------------
(* The operations on a definition.                                         *)

SetBuild(g, ck, bc, sg, pr, rq) ==
    [g EXCEPT !.checksum = ck, !.buildChecksum = bc, !.signed = sg, !.provenance = pr,
              !.requirements = rq]
SetSigned(g, sg, pr, rq) == [g EXCEPT !.signed = sg, !.provenance = pr, !.requirements = rq]
SetSources(g, im, rp) == [g EXCEPT !.component.image = im, !.component.repo = rp]
SetNamespaces(g, n, m, a) ==
    [g EXCEPT !.component.chart.ns = n, !.component.manifest.ns = m, !.component.actions = a]

Built(g) == SetBuild(g, "sum", "sum", "unset", {}, {})
Signed(g) == SetSigned(g, "true", g.provenance \cup {"bundle"}, g.requirements \cup {"v0.71.0"})
Stripped(g) ==
    SetSources(g, [name |-> "", source |-> ""], [url |-> "", urlRef |-> "", ref |-> "nil"])
Overridden(g, target) ==
    SetNamespaces(g, target, target, OverrideWaits(g.component.actions, g.component.chart.ns, target))

\* What none of them touches.
SameRest(g, h) ==
    /\ GenericFields \subseteq DOMAIN h
    /\ h.original = g.original /\ h.api = g.api /\ h.kind = g.kind /\ h.url = g.url
    /\ h.override = g.override /\ h.prevent = g.prevent /\ h.migrations = g.migrations

LEMMA PackageFieldsSet ==
    ASSUME NEW g, GenericFields \subseteq DOMAIN g, NEW ck, NEW bc, NEW sg, NEW pr, NEW rq
    PROVE  LET h == SetBuild(g, ck, bc, sg, pr, rq)
               k == SetSigned(g, sg, pr, rq) IN
           /\ SameRest(g, h) /\ h.checksum = ck /\ h.buildChecksum = bc /\ h.component = g.component
           /\ SameRest(g, k) /\ k.checksum = g.checksum /\ k.buildChecksum = g.buildChecksum
           /\ k.component = g.component
BY DEF GenericFields, SameRest, SetBuild, SetSigned

LEMMA ComponentFieldsSet ==
    ASSUME NEW g, GenericFields \subseteq DOMAIN g, ComponentFields \subseteq DOMAIN g.component,
           NEW im, NEW rp
    PROVE  LET h == SetSources(g, im, rp)
               c == g.component
               d == h.component IN
           /\ SameRest(g, h) /\ h.checksum = g.checksum /\ h.buildChecksum = g.buildChecksum
           /\ ComponentFields \subseteq DOMAIN d /\ d.repo = rp
           /\ d.required = c.required /\ d.import = c.import /\ d.health = c.health
           /\ d.scripts = c.scripts /\ d.removed = c.removed /\ d.chart = c.chart
           /\ d.manifest = c.manifest /\ d.actions = c.actions
BY DEF GenericFields, ComponentFields, SameRest, SetSources

LEMMA NamespacesSet ==
    ASSUME NEW g, GenericFields \subseteq DOMAIN g, ComponentFields \subseteq DOMAIN g.component,
           ChartFields \subseteq DOMAIN g.component.chart,
           ManifestFields \subseteq DOMAIN g.component.manifest,
           NEW n, NEW m, NEW a
    PROVE  LET h == SetNamespaces(g, n, m, a)
               c == g.component
               d == h.component IN
           /\ SameRest(g, h) /\ h.checksum = g.checksum /\ h.buildChecksum = g.buildChecksum
           /\ ComponentFields \subseteq DOMAIN d
           /\ d.required = c.required /\ d.import = c.import /\ d.health = c.health
           /\ d.scripts = c.scripts /\ d.removed = c.removed /\ d.repo = c.repo
           /\ ChartFields \subseteq DOMAIN d.chart /\ d.chart.ns = n
           /\ d.chart.at = c.chart.at /\ d.chart.schema = c.chart.schema
           /\ d.chart.values = c.chart.values /\ d.chart.source = c.chart.source
           /\ ManifestFields \subseteq DOMAIN d.manifest /\ d.manifest.ns = m
           /\ d.manifest.template = c.manifest.template
           /\ d.actions = a
BY DEF GenericFields, ComponentFields, ChartFields, ManifestFields, SameRest, SetNamespaces

LEMMA NextIs ==
    ASSUME NEW g
    PROVE  /\ SetBuildData(g) = (Change(Built(g)) /\ UNCHANGED moved)
           /\ SetBuildSigned(g) = (Change(Signed(g)) /\ UNCHANGED moved)
           /\ RemoveSources(g) = (Change(Stripped(g)) /\ UNCHANGED moved)
           /\ OverrideNamespace(g, "target") =>
                /\ Change(Overridden(g, "target"))
                /\ moved' = IF g.component.chart.ns = "target" THEN "" ELSE g.component.chart.ns
                /\ Cardinality(UniqueNamespaces(g)) = 1
<1>1. SetBuildData(g) = (Change(Built(g)) /\ UNCHANGED moved)
  BY Zenon DEF SetBuildData, Built, SetBuild
<1>2. SetBuildSigned(g) = (Change(Signed(g)) /\ UNCHANGED moved)
  BY Zenon DEF SetBuildSigned, Signed, SetSigned
<1>3. RemoveSources(g) = (Change(Stripped(g)) /\ UNCHANGED moved)
  BY Zenon DEF RemoveSources, Stripped, SetSources
<1>4. OverrideNamespace(g, "target") =>
                /\ Change(Overridden(g, "target"))
                /\ moved' = IF g.component.chart.ns = "target" THEN "" ELSE g.component.chart.ns
                /\ Cardinality(UniqueNamespaces(g)) = 1
  BY Zenon DEF OverrideNamespace, Overridden, SetNamespaces
<1> QED BY <1>1, <1>2, <1>3, <1>4, Zenon

\* A definition keeps its shape and where it came from.
Kept(g, h) ==
    /\ GenericOK(h) /\ h.original = g.original /\ h.migrations = g.migrations
    /\ GenericOfBeta(g) => GenericOfBeta(h)

LEMMA BuildKept ==
    ASSUME NEW g, GenericOK(g)
    PROVE  /\ Kept(g, Built(g)) /\ Built(g).component = g.component
           /\ Kept(g, Signed(g)) /\ Signed(g).component = g.component
<1>1. GenericFields \subseteq DOMAIN g
  BY DEF GenericOK
<1> DEFINE h == Built(g)
           k == Signed(g)
<1>2. SameRest(g, h) /\ h.checksum = "sum" /\ h.buildChecksum = "sum" /\ h.component = g.component
  BY <1>1, PackageFieldsSet DEF Built
<1>3. /\ SameRest(g, k) /\ k.checksum = g.checksum /\ k.buildChecksum = g.buildChecksum
      /\ k.component = g.component
  BY <1>1, PackageFieldsSet DEF Signed
<1> HIDE DEF h, k
<1>4. GenericOK(h) /\ GenericOK(k)
  BY <1>2, <1>3 DEF GenericOK, SameRest
<1>5. GenericOfBeta(g) => GenericOfBeta(h)
  BY <1>2, Zenon DEF GenericOfBeta, SameRest
<1>6. GenericOfBeta(g) => GenericOfBeta(k)
  BY <1>3, Zenon DEF GenericOfBeta, SameRest
<1>7. Kept(g, h) /\ Kept(g, k)
  BY <1>2, <1>3, <1>4, <1>5, <1>6 DEF Kept, SameRest
<1> QED BY <1>2, <1>3, <1>7 DEF h, k

LEMMA StripKept ==
    ASSUME NEW g, GenericOK(g)
    PROVE  /\ Kept(g, Stripped(g))
           /\ Stripped(g).component.actions = g.component.actions
           /\ UniqueNamespaces(Stripped(g)) = UniqueNamespaces(g)
<1> DEFINE im == [name |-> "", source |-> ""]
           rp == [url |-> "", urlRef |-> "", ref |-> "nil"]
           h == SetSources(g, im, rp)
           c == g.component
           d == h.component
<1>1. GenericFields \subseteq DOMAIN g /\ ComponentFields \subseteq DOMAIN c /\ ComponentOK(c)
  BY DEF GenericOK, ComponentOK
<1>2. rp.urlRef \in RepoRefs
  BY Zenon DEF RepoRefs
<1>3. h = Stripped(g)
  BY Zenon DEF Stripped
<1> HIDE DEF im, rp
<1>4. /\ SameRest(g, h) /\ h.checksum = g.checksum /\ h.buildChecksum = g.buildChecksum
      /\ ComponentFields \subseteq DOMAIN d /\ d.repo = rp
      /\ d.required = c.required /\ d.import = c.import /\ d.health = c.health
      /\ d.scripts = c.scripts /\ d.removed = c.removed /\ d.chart = c.chart
      /\ d.manifest = c.manifest /\ d.actions = c.actions
  BY <1>1, ComponentFieldsSet
<1> HIDE DEF h, c, d
<1>5. ComponentOK(d)
  BY <1>1, <1>4 DEF ComponentOK
<1>6. ComponentOfBeta(c) => ComponentOfBeta(d)
  <2> SUFFICES ASSUME ComponentOfBeta(c) PROVE ComponentOfBeta(d)
    OBVIOUS
  <2>1. /\ d.required = "unset" /\ d.import.path = "" /\ d.health = <<>> /\ d.scripts = NoScripts
        /\ d.removed = FALSE
        /\ d.repo.urlRef \in RepoRefs
        /\ d.chart.at = NoLocation /\ d.chart.schema = "unset"
        /\ SourceFields \subseteq DOMAIN d.chart.source
        /\ d.manifest.template = "unset"
        /\ d.actions.after = <<>>
    BY <1>2, <1>4, Zenon DEF ComponentOfBeta
  <2>2. /\ d.chart.source.type = "git" => d.chart.source.ref # "none"
        /\ BareList(d.actions.onCreate) /\ BareList(d.actions.before) /\ BareList(d.actions.success)
    BY <1>4, Zenon DEF ComponentOfBeta
  <2> QED BY <2>1, <2>2, Zenon DEF ComponentOfBeta
<1>7. GenericOK(h)
  BY <1>4, <1>5 DEF GenericOK, SameRest, d
<1>8. GenericOfBeta(g) => GenericOfBeta(h)
  BY <1>4, <1>6, Zenon DEF GenericOfBeta, SameRest, c, d
<1>9. Kept(g, h)
  BY <1>4, <1>7, <1>8 DEF Kept, SameRest
<1>10. UniqueNamespaces(h) = UniqueNamespaces(g)
  BY <1>4 DEF UniqueNamespaces, c, d
<1>11. h.component.actions = g.component.actions
  BY <1>4 DEF c, d
<1> QED BY <1>3, <1>9, <1>10, <1>11, Zenon

\* A list of actions whose waits follow the releases.
MovedList(s, o, t) ==
    [i \in DOMAIN s |-> IF s[i].wait # "none" /\ s[i].ns = o THEN [s[i] EXCEPT !.ns = t] ELSE s[i]]

LEMMA MovedAction ==
    ASSUME NEW a, IsAction(a), NEW z
    PROVE  LET x == [a EXCEPT !.ns = z] IN
           /\ IsAction(x) /\ x.setVar = a.setVar /\ x.setVars = a.setVars
           /\ x.cmd = a.cmd /\ x.wait = a.wait /\ x.ns = z
<1>1. PICK b, c, d, e, f : a = [cmd |-> b, wait |-> c, ns |-> d, setVar |-> e, setVars |-> f]
  BY DEF IsAction
<1> DEFINE x == [a EXCEPT !.ns = z]
<1>2. x = [cmd |-> b, wait |-> c, ns |-> z, setVar |-> e, setVars |-> f]
  BY <1>1
<1> HIDE DEF x
<1>3. /\ IsAction(x) /\ x.setVar = a.setVar /\ x.setVars = a.setVars
      /\ x.cmd = a.cmd /\ x.wait = a.wait /\ x.ns = z
  BY <1>1, <1>2 DEF IsAction
<1> QED BY <1>3 DEF x

LEMMA MovedFacts ==
    ASSUME NEW s, ActionList(s), NEW o, NEW t
    PROVE  LET m == MovedList(s, o, t) IN
           /\ ActionList(m) /\ Len(m) = Len(s) /\ DOMAIN m = 1 .. Len(m)
           /\ \A i \in 1 .. Len(s) : /\ m[i].cmd = s[i].cmd /\ m[i].setVar = s[i].setVar
                                     /\ m[i].setVars = s[i].setVars
                                     /\ o # t => (m[i].wait # "none" => m[i].ns # o)
<1> DEFINE m == MovedList(s, o, t)
<1>1. IsList(s) /\ (\A i \in 1 .. Len(s) : IsAction(s[i])) /\ DOMAIN s = 1 .. Len(s)
  BY ListDomain DEF ActionList
<1>2. m = [i \in DOMAIN s |-> m[i]]
  BY DEF MovedList
<1>3. IsList(m) /\ Len(m) = Len(s) /\ DOMAIN m = 1 .. Len(s)
  BY <1>1, <1>2, MapList
<1>4. ASSUME NEW i \in 1 .. Len(s)
      PROVE  /\ IsAction(m[i]) /\ m[i].cmd = s[i].cmd /\ m[i].setVar = s[i].setVar
             /\ m[i].setVars = s[i].setVars
             /\ o # t => (m[i].wait # "none" => m[i].ns # o)
  <2>1. m[i] = IF s[i].wait # "none" /\ s[i].ns = o THEN [s[i] EXCEPT !.ns = t] ELSE s[i]
    BY <1>1 DEF MovedList
  <2>2. IsAction(s[i])
    BY <1>1
  <2> HIDE DEF m
  <2>3. CASE s[i].wait # "none" /\ s[i].ns = o
    <3> DEFINE x == [s[i] EXCEPT !.ns = t]
    <3>1. /\ IsAction(x) /\ x.setVar = s[i].setVar /\ x.setVars = s[i].setVars
          /\ x.cmd = s[i].cmd /\ x.wait = s[i].wait /\ x.ns = t
      BY <2>2, MovedAction
    <3>2. m[i] = x
      BY <2>1, <2>3
    <3> HIDE DEF x
    <3> QED BY <3>1, <3>2
  <2>4. CASE ~(s[i].wait # "none" /\ s[i].ns = o)
    BY <2>1, <2>2, <2>4
  <2> QED BY <2>3, <2>4
<1> HIDE DEF m
<1>5. ActionList(m)
  BY <1>3, <1>4 DEF ActionList
<1> QED BY <1>3, <1>4, <1>5 DEF m

LEMMA MovedBare ==
    ASSUME NEW s, BareList(s), NEW o, NEW t
    PROVE  BareList(MovedList(s, o, t))
<1> DEFINE m == MovedList(s, o, t)
           e == ""
           n == {}
<1>1. ActionList(s) /\ \A i \in 1 .. Len(s) : s[i].setVar = e /\ s[i].setVars = n
  BY Zenon DEF BareList
<1>2. BareList(m) <=> ActionList(m) /\ \A i \in 1 .. Len(m) : m[i].setVar = e /\ m[i].setVars = n
  BY Zenon DEF BareList
<1> HIDE DEF e, n
<1>3. /\ ActionList(m) /\ Len(m) = Len(s)
      /\ \A i \in 1 .. Len(s) : m[i].setVar = s[i].setVar /\ m[i].setVars = s[i].setVars
  BY <1>1, MovedFacts
<1> HIDE DEF m
<1>4. BareList(m)
  BY <1>1, <1>2, <1>3
<1> QED BY <1>4 DEF m

LEMMA MovedEmpty ==
    ASSUME NEW o, NEW t
    PROVE  MovedList(<<>>, o, t) = <<>>
<1> DEFINE m == MovedList(<<>>, o, t)
<1>1. ActionList(m) /\ Len(m) = 0
  BY EmptyActions, EmptyList, MovedFacts
<1>2. IsList(m)
  BY <1>1 DEF ActionList
<1>3. \A i \in 1 .. 0 : m[i] = <<>>[i]
  OBVIOUS
<1> HIDE DEF m
<1>4. m = <<>>
  BY <1>1, <1>2, <1>3, EmptyList, SameList
<1> QED BY <1>4 DEF m

LEMMA OverrideIs ==
    ASSUME NEW a, NEW o, NEW t
    PROVE  LET m == OverrideWaits(a, o, t) IN
           /\ m.onCreate = MovedList(a.onCreate, o, t) /\ m.before = MovedList(a.before, o, t)
           /\ m.after = MovedList(a.after, o, t) /\ m.success = MovedList(a.success, o, t)
<1> DEFINE m == OverrideWaits(a, o, t)
<1>1. m = [l \in ActionLists |-> MovedList(a[l], o, t)]
  BY Zenon DEF OverrideWaits, MovedList, MapSeq
<1>2. /\ "onCreate" \in ActionLists /\ "before" \in ActionLists
      /\ "after" \in ActionLists /\ "success" \in ActionLists
  BY DEF ActionLists
<1> HIDE DEF m
<1>3. /\ m.onCreate = MovedList(a.onCreate, o, t) /\ m.before = MovedList(a.before, o, t)
      /\ m.after = MovedList(a.after, o, t) /\ m.success = MovedList(a.success, o, t)
  BY <1>1, <1>2
<1> QED BY <1>3 DEF m

LEMMA OverrideKept ==
    ASSUME NEW g, GenericOK(g), NEW t
    PROVE  LET a == g.component.actions
               o == g.component.chart.ns
               m == Overridden(g, t).component.actions IN
           /\ Kept(g, Overridden(g, t))
           /\ m.onCreate = MovedList(a.onCreate, o, t) /\ m.before = MovedList(a.before, o, t)
           /\ m.after = MovedList(a.after, o, t) /\ m.success = MovedList(a.success, o, t)
           /\ UniqueNamespaces(Overridden(g, t)) = {t}
<1> DEFINE c == g.component
           a == c.actions
           o == c.chart.ns
           m == OverrideWaits(a, o, t)
           h == SetNamespaces(g, t, t, m)
           d == h.component
<1>1. /\ GenericFields \subseteq DOMAIN g /\ ComponentFields \subseteq DOMAIN c /\ ComponentOK(c)
      /\ ChartFields \subseteq DOMAIN c.chart /\ ManifestFields \subseteq DOMAIN c.manifest
  BY DEF GenericOK, ComponentOK
<1>2. h = Overridden(g, t)
  BY Zenon DEF Overridden
<1>3. /\ m.onCreate = MovedList(a.onCreate, o, t) /\ m.before = MovedList(a.before, o, t)
      /\ m.after = MovedList(a.after, o, t) /\ m.success = MovedList(a.success, o, t)
  BY OverrideIs
<1> HIDE DEF m
<1>4. /\ SameRest(g, h) /\ h.checksum = g.checksum /\ h.buildChecksum = g.buildChecksum
      /\ ComponentFields \subseteq DOMAIN d
      /\ d.required = c.required /\ d.import = c.import /\ d.health = c.health
      /\ d.scripts = c.scripts /\ d.removed = c.removed /\ d.repo = c.repo
      /\ ChartFields \subseteq DOMAIN d.chart /\ d.chart.ns = t
      /\ d.chart.at = c.chart.at /\ d.chart.schema = c.chart.schema
      /\ d.chart.values = c.chart.values /\ d.chart.source = c.chart.source
      /\ ManifestFields \subseteq DOMAIN d.manifest /\ d.manifest.ns = t
      /\ d.manifest.template = c.manifest.template
      /\ d.actions = m
  BY <1>1, NamespacesSet
<1>5. /\ ActionList(a.onCreate) /\ ActionList(a.before) /\ ActionList(a.after)
      /\ ActionList(a.success)
  BY <1>1 DEF ComponentOK
<1> HIDE DEF h, c, d, a, o
<1>6. /\ ActionList(m.onCreate) /\ ActionList(m.before) /\ ActionList(m.after)
      /\ ActionList(m.success)
  BY <1>3, <1>5, MovedFacts
<1>7. ComponentOK(d)
  BY <1>1, <1>4, <1>6 DEF ComponentOK
<1>8. ComponentOfBeta(c) => ComponentOfBeta(d)
  <2> SUFFICES ASSUME ComponentOfBeta(c) PROVE ComponentOfBeta(d)
    OBVIOUS
  <2>1. /\ d.required = "unset" /\ d.import.path = "" /\ d.health = <<>> /\ d.scripts = NoScripts
        /\ d.removed = FALSE
        /\ d.repo.urlRef \in RepoRefs
        /\ d.chart.at = NoLocation /\ d.chart.schema = "unset"
        /\ SourceFields \subseteq DOMAIN d.chart.source
        /\ d.manifest.template = "unset"
    BY <1>4, Zenon DEF ComponentOfBeta
  <2>2. d.chart.source.type = "git" => d.chart.source.ref # "none"
    BY <1>4, Zenon DEF ComponentOfBeta
  <2>3. /\ a.after = <<>> /\ BareList(a.onCreate) /\ BareList(a.before) /\ BareList(a.success)
    BY Zenon DEF ComponentOfBeta, a
  <2>4. d.actions.after = <<>>
    BY <1>3, <1>4, <2>3, MovedEmpty
  <2>5. BareList(d.actions.onCreate) /\ BareList(d.actions.before) /\ BareList(d.actions.success)
    BY <1>3, <1>4, <2>3, MovedBare
  <2> QED BY <2>1, <2>2, <2>4, <2>5, Zenon DEF ComponentOfBeta
<1>9. GenericOK(h)
  BY <1>4, <1>7 DEF GenericOK, SameRest, d
<1>10. GenericOfBeta(g) => GenericOfBeta(h)
  BY <1>4, <1>8, Zenon DEF GenericOfBeta, SameRest, c, d
<1>11. Kept(g, h)
  BY <1>4, <1>9, <1>10 DEF Kept, SameRest
<1>12. UniqueNamespaces(h) = {t}
  BY <1>4 DEF UniqueNamespaces, d
<1>13. h.component.actions = m
  BY <1>4 DEF d
<1> QED BY <1>2, <1>3, <1>11, <1>12, <1>13, Zenon DEF a, o, c

-----------------------------------------------------------------------------
(* What is written is read.                                                *)

\* The file was written by a single author in a single version.
AuthoredInv ==
    \/ \E a \in AlphaPackages : authored = Documents({a}, {})
    \/ \E b \in BetaPackages : authored = Documents({}, {b})

\* A v1alpha1 document, which is the last one written once there is one; a
\* v1beta1 document that was never written by Zarf; and both, where v1alpha1 is
\* what a reader of v1beta1 makes of the other.
AlphaFile ==
    \E a \in file.alpha :
        /\ file = Documents({a}, {}) /\ AlphaOK(a)
        /\ written # {} =>
             /\ written = {a} /\ a.migrations = BothMigrations
             /\ a.note = "" /\ a.kind # "" /\ a.api \in {"", "v1alpha1"}

BetaFile == \E b \in file.beta : file = Documents({}, {b}) /\ BetaOK(b)

BothFiles ==
    \E b \in file.beta :
        /\ file = Documents({AlphaFromGeneric(BetaToGeneric(b))}, {b}) /\ BetaOK(b)
        /\ written \subseteq file.alpha

\* What a process has in memory.
DefInv ==
    \A g \in def :
        /\ GenericOK(g)
        /\ \/ g.original = "v1alpha1" /\ g.migrations = BothMigrations
           \/ GenericOfBeta(g)

WriteInv == AuthoredInv /\ (AlphaFile \/ BetaFile \/ BothFiles) /\ DefInv

\* The commands of the lists l are those of component c and its scripts.
Ran(c, l) ==
    /\ Commands(l.onCreate) = Commands(c.onCreate) \o c.scripts.prepare
    /\ Commands(l.before) = Commands(c.before) \o c.scripts.before
    /\ Commands(l.after) = Commands(c.after) \o c.scripts.after
    /\ Commands(l.success) = Commands(c.success)

\* Once the migrations are recorded, the scripts are among the actions.
ScriptInv ==
    /\ WriteInv
    /\ \A a \in authored.alpha :
          /\ \/ file.beta # {} \/ file.alpha = {a}
             \/ \A w \in file.alpha : w.migrations = BothMigrations /\ Ran(a.component, w.component)
          /\ \A g \in def : g.original = "v1alpha1" => Ran(a.component, g.component.actions)

\* A v1beta1 document without the other one is the author's, or was printed by
\* upgrade-schema; and only a definition in memory has its namespace overridden.
UpgradedFile ==
    authored.beta = {} /\ file.alpha = {} =>
        \A a \in authored.alpha : file.beta = {BetaFromGeneric(AlphaToGeneric(a))}

NothingMoved == def = {} => moved = ""

MeaningInv == WriteInv /\ UpgradedFile /\ NothingMoved /\ NoWaitLeftBehind

LEMMA DocumentsFields ==
    ASSUME NEW s, NEW t
    PROVE  Documents(s, t).alpha = s /\ Documents(s, t).beta = t
BY DEF Documents

LEMMA ReadAlphaFile ==
    ASSUME NEW f, NEW a, f = Documents({a}, {})
    PROVE  f.alpha = {a} /\ f.beta = {} /\ ParseMultiDoc(f) = AlphaToGeneric(MigrateDeprecated(a))
<1>1. f.alpha = {a} /\ f.beta = {}
  BY DEF Documents
<1>2. (CHOOSE x \in {a} : TRUE) = a
  OBVIOUS
<1> QED BY <1>1, <1>2, Zenon DEF ParseMultiDoc

LEMMA ReadBetaFile ==
    ASSUME NEW f, NEW s, NEW b, f = Documents(s, {b})
    PROVE  f.alpha = s /\ f.beta = {b} /\ ParseMultiDoc(f) = BetaToGeneric(b)
<1>1. f.alpha = s /\ f.beta = {b}
  BY DEF Documents
<1>2. (CHOOSE x \in {b} : TRUE) = b
  OBVIOUS
<1>3. {b} # {}
  OBVIOUS
<1> QED BY <1>1, <1>2, <1>3, Zenon DEF ParseMultiDoc

\* What a parse puts in memory.
Definition(g) ==
    /\ GenericOK(g)
    /\ \/ g.original = "v1alpha1" /\ g.migrations = BothMigrations
       \/ GenericOfBeta(g)

LEMMA MigratedIs ==
    ASSUME NEW x, AlphaOK(x)
    PROVE  LET m == MigrateDeprecated(x) IN
           /\ AlphaOK(m) /\ m.migrations = BothMigrations
           /\ m.note = x.note /\ m.kind = x.kind /\ m.api = x.api /\ m.component = Migrated(x)
<1> DEFINE m == MigrateDeprecated(x)
<1>1. m = PackageWith(x, BothMigrations, Migrated(x)) /\ AlphaOK(m)
  BY MigrateIs
<1> QED BY <1>1, PackageWithFields

LEMMA ParsedIs ==
    ASSUME AlphaFile \/ BetaFile \/ BothFiles
    PROVE  Definition(ParseMultiDoc(file))
<1>1. CASE AlphaFile
  <2>1. PICK a : file = Documents({a}, {}) /\ AlphaOK(a)
    BY <1>1, Zenon DEF AlphaFile
  <2> DEFINE m == MigrateDeprecated(a)
  <2>2. ParseMultiDoc(file) = AlphaToGeneric(m)
    BY <2>1, ReadAlphaFile
  <2>3. AlphaOK(m) /\ m.migrations = BothMigrations
    BY <2>1, MigratedIs
  <2> HIDE DEF m
  <2>4. /\ GenericOK(AlphaToGeneric(m)) /\ AlphaToGeneric(m).original = "v1alpha1"
        /\ AlphaToGeneric(m).migrations = m.migrations
    BY <2>3, GenericOfAlpha
  <2> QED BY <2>2, <2>3, <2>4 DEF Definition
<1>2. CASE BetaFile \/ BothFiles
  <2>1. PICK s, b : file = Documents(s, {b}) /\ BetaOK(b)
    BY <1>2, Zenon DEF BetaFile, BothFiles
  <2>2. ParseMultiDoc(file) = BetaToGeneric(b)
    BY <2>1, ReadBetaFile
  <2> QED BY <2>1, <2>2, GenericFromBeta DEF Definition
<1> QED BY <1>1, <1>2

LEMMA AuthoredPackage ==
    ASSUME AuthoredInv, NEW a \in authored.alpha
    PROVE  /\ a \in AlphaPackages /\ authored = Documents({a}, {})
           /\ AlphaOK(a) /\ IsList(a.component.health) /\ a.migrations = {}
<1>1. PICK x \in AlphaPackages : authored = Documents({x}, {})
  <2>1. ASSUME NEW b, authored = Documents({}, {b}) PROVE FALSE
    BY <2>1, ReadBetaFile
  <2> QED BY <2>1 DEF AuthoredInv
<1>2. a = x
  BY <1>1, ReadAlphaFile
<1>3. a \in AlphaPackage
  BY <1>1, <1>2, DefinitionAssumption
<1>4. a.migrations = {}
  BY <1>1, <1>2, DefinitionAssumption
<1> QED BY <1>1, <1>2, <1>3, <1>4, AlphaPackageOK

\* What is written of a definition.
LEMMA WrittenIs ==
    ASSUME NEW g, Definition(g)
    PROVE  LET w == AlphaFromGeneric(g)
               b == BetaFromGeneric(g) IN
           \/ /\ MarshalPackageDefinition(g) = Documents({w}, {}) /\ AlphaOK(w)
              /\ w.migrations = BothMigrations /\ g.original = "v1alpha1"
              /\ w.note = "" /\ w.kind # "" /\ w.api \in {"", "v1alpha1"}
           \/ /\ MarshalPackageDefinition(g) = Documents({w}, {b}) /\ BetaOK(b)
              /\ w = AlphaFromGeneric(BetaToGeneric(b))
<1> DEFINE w == AlphaFromGeneric(g)
           b == BetaFromGeneric(g)
<1>1. MarshalPackageDefinition(g) = Documents({w}, IF g.original = "v1beta1" THEN {b} ELSE {})
  BY Zenon DEF MarshalPackageDefinition
<1>2. CASE g.original = "v1alpha1" /\ g.migrations = BothMigrations
  <2>1. MarshalPackageDefinition(g) = Documents({w}, {})
    BY <1>1, <1>2, Zenon
  <2>2. /\ AlphaOK(w) /\ w.note = "" /\ w.kind # "" /\ w.api \in {"", "v1alpha1"}
        /\ w.migrations = g.migrations
    BY AlphaOfGeneric, Zenon DEF Definition
  <2> QED BY <1>2, <2>1, <2>2, Zenon
<1>3. CASE GenericOfBeta(g)
  <2>1. g.original = "v1beta1"
    BY <1>3, Zenon DEF GenericOfBeta
  <2>2. MarshalPackageDefinition(g) = Documents({w}, {b})
    BY <1>1, <2>1, Zenon
  <2>3. BetaOK(b) /\ AlphaFromGeneric(BetaToGeneric(b)) = w
    BY <1>3, BetaAgain DEF Definition
  <2> QED BY <2>2, <2>3, Zenon
<1> QED BY <1>2, <1>3, Zenon DEF Definition

\* The steps of Next.
LEMMA ChangesKeep ==
    ASSUME NEW g, Definition(g), NEW h, Kept(g, h)
    PROVE  Definition(h)
BY DEF Definition, Kept

LEMMA StepCases ==
    ASSUME DefInv, Next
    PROVE  \/ Parse
           \/ UpgradeSchema
           \/ \E g \in def : Definition(g) /\ Write(g)
           \/ \E g \in def : \E h : Definition(g) /\ Change(h) /\ Kept(g, h) /\ Definition(h)
<1>1. ASSUME NEW g \in def,
             \/ SetBuildData(g) \/ SetBuildSigned(g) \/ RemoveSources(g)
             \/ OverrideNamespace(g, "target")
      PROVE  \E h : Definition(g) /\ Change(h) /\ Kept(g, h) /\ Definition(h)
  <2>1. Definition(g) /\ GenericOK(g)
    BY DEF DefInv, Definition
  <2>2. /\ Kept(g, Built(g)) /\ Kept(g, Signed(g)) /\ Kept(g, Stripped(g))
        /\ Kept(g, Overridden(g, "target"))
    BY <2>1, BuildKept, StripKept, OverrideKept
  <2>3. \/ Change(Built(g)) \/ Change(Signed(g)) \/ Change(Stripped(g))
        \/ Change(Overridden(g, "target"))
    BY <1>1, NextIs, Zenon
  <2> QED BY <2>1, <2>2, <2>3, ChangesKeep, Zenon
<1>2. ASSUME NEW g \in def, Write(g) PROVE Definition(g)
  BY DEF DefInv, Definition
<1> QED BY <1>1, <1>2, Zenon DEF Next

LEMMA AuthoredKept ==
    ASSUME AuthoredInv, UNCHANGED authored
    PROVE  AuthoredInv'
BY DEF AuthoredInv

LEMMA FilesKept ==
    ASSUME AlphaFile \/ BetaFile \/ BothFiles, UNCHANGED <<file, written>>
    PROVE  (AlphaFile \/ BetaFile \/ BothFiles)'
BY Zenon DEF AlphaFile, BetaFile, BothFiles

LEMMA DefIs ==
    ASSUME NEW g, Definition(g), def' = {g}
    PROVE  DefInv'
BY DEF DefInv, Definition

LEMMA WriteInit == Init => WriteInv
<1> SUFFICES ASSUME Init PROVE WriteInv
  OBVIOUS
<1>1. authored = file /\ def = {} /\ written = {}
  BY Zenon DEF Init
<1>2. DefInv
  BY <1>1 DEF DefInv
<1>3. CASE \E a \in AlphaPackages : file = Documents({a}, {})
  <2>1. PICK a \in AlphaPackages : file = Documents({a}, {})
    BY <1>3
  <2>2. AuthoredInv
    BY <1>1, <2>1 DEF AuthoredInv
  <2>3. AlphaOK(a)
    BY AlphaPackageOK, DefinitionAssumption
  <2>4. a \in file.alpha
    BY <2>1, ReadAlphaFile
  <2>5. AlphaFile
    BY <1>1, <2>1, <2>3, <2>4, Zenon DEF AlphaFile
  <2> QED BY <1>2, <2>2, <2>5 DEF WriteInv
<1>4. CASE \E b \in BetaPackages : file = Documents({}, {b})
  <2>1. PICK b \in BetaPackages : file = Documents({}, {b})
    BY <1>4
  <2>2. AuthoredInv
    BY <1>1, <2>1 DEF AuthoredInv
  <2>3. BetaOK(b)
    BY BetaPackageOK, DefinitionAssumption
  <2>4. b \in file.beta
    BY <2>1, DocumentsFields
  <2>5. BetaFile
    BY <2>1, <2>3, <2>4, Zenon DEF BetaFile
  <2> QED BY <1>2, <2>2, <2>5 DEF WriteInv
<1> QED BY <1>3, <1>4, Zenon DEF Init

LEMMA WriteStep == WriteInv /\ [Next]_vars => WriteInv'
<1> SUFFICES ASSUME WriteInv, [Next]_vars PROVE WriteInv'
  OBVIOUS
<1>1. AuthoredInv /\ (AlphaFile \/ BetaFile \/ BothFiles) /\ DefInv
  BY DEF WriteInv
<1>2. CASE Parse
  <2>1. /\ def' = {ParseMultiDoc(file)}
        /\ UNCHANGED <<file, authored, written>>
    BY <1>2 DEF Parse
  <2>2. Definition(ParseMultiDoc(file))
    BY <1>1, ParsedIs
  <2> QED BY <1>1, <2>1, <2>2, AuthoredKept, FilesKept, DefIs DEF WriteInv
<1>3. CASE UpgradeSchema
  <2>1. PICK a \in file.alpha :
          /\ def = {} /\ file = authored /\ UNCHANGED <<def, authored>>
          /\ file' = Documents({}, {BetaFromGeneric(AlphaToGeneric(a))})
    BY <1>3 DEF UpgradeSchema
  <2>2. AlphaOK(a) /\ IsList(a.component.health)
    BY <1>1, <2>1, AuthoredPackage
  <2> DEFINE b == BetaFromGeneric(AlphaToGeneric(a))
  <2>3. BetaOK(b)
    BY <2>2, UpgradeIsBeta
  <2>4. file' = Documents({}, {b})
    BY <2>1
  <2> HIDE DEF b
  <2>5. b \in file'.beta
    BY <2>4, DocumentsFields
  <2>6. BetaFile'
    BY <2>3, <2>4, <2>5, Zenon DEF BetaFile
  <2>7. DefInv'
    BY <2>1 DEF DefInv
  <2> QED BY <1>1, <2>1, <2>6, <2>7, AuthoredKept DEF WriteInv
<1>4. CASE \E g \in def : Definition(g) /\ Write(g)
  <2>1. PICK g \in def : Definition(g) /\ Write(g)
    BY <1>4
  <2> DEFINE w == AlphaFromGeneric(g)
             b == BetaFromGeneric(g)
  <2>2. /\ file' = MarshalPackageDefinition(g) /\ written' = {w} /\ def' = {}
        /\ UNCHANGED authored
    BY <2>1, Zenon DEF Write
  <2>3. \/ /\ MarshalPackageDefinition(g) = Documents({w}, {}) /\ AlphaOK(w)
           /\ w.migrations = BothMigrations /\ g.original = "v1alpha1"
           /\ w.note = "" /\ w.kind # "" /\ w.api \in {"", "v1alpha1"}
        \/ /\ MarshalPackageDefinition(g) = Documents({w}, {b}) /\ BetaOK(b)
           /\ w = AlphaFromGeneric(BetaToGeneric(b))
    BY <2>1, WrittenIs, Zenon
  <2> HIDE DEF w, b
  <2>4. DefInv'
    BY <2>2 DEF DefInv
  <2>5. CASE /\ MarshalPackageDefinition(g) = Documents({w}, {}) /\ AlphaOK(w)
             /\ w.migrations = BothMigrations /\ g.original = "v1alpha1"
             /\ w.note = "" /\ w.kind # "" /\ w.api \in {"", "v1alpha1"}
    <3>1. file' = Documents({w}, {})
      BY <2>2, <2>5, Zenon
    <3>2. w \in file'.alpha
      BY <3>1, ReadAlphaFile
    <3>3. AlphaFile'
      BY <2>2, <2>5, <3>1, <3>2, Zenon DEF AlphaFile
    <3> QED BY <1>1, <2>2, <2>4, <3>3, AuthoredKept, Zenon DEF WriteInv
  <2>6. CASE /\ MarshalPackageDefinition(g) = Documents({w}, {b}) /\ BetaOK(b)
             /\ w = AlphaFromGeneric(BetaToGeneric(b))
    <3>1. file' = Documents({w}, {b})
      BY <2>2, <2>6
    <3>2. b \in file'.beta /\ written' \subseteq file'.alpha
      BY <2>2, <3>1, DocumentsFields
    <3>3. BothFiles'
      BY <2>6, <3>1, <3>2, Zenon DEF BothFiles
    <3> QED BY <1>1, <2>2, <2>4, <3>3, AuthoredKept, Zenon DEF WriteInv
  <2> QED BY <2>3, <2>5, <2>6, Zenon
<1>5. CASE \E g \in def : \E h : Definition(g) /\ Change(h) /\ Kept(g, h) /\ Definition(h)
  <2>1. PICK h : Change(h) /\ Definition(h)
    BY <1>5
  <2>2. def' = {h} /\ UNCHANGED <<file, authored, written>>
    BY <2>1 DEF Change
  <2> QED BY <1>1, <2>1, <2>2, AuthoredKept, FilesKept, DefIs DEF WriteInv
<1>6. CASE UNCHANGED vars
  <2>1. UNCHANGED <<file, def, authored, written>>
    BY <1>6 DEF vars
  <2>2. DefInv'
    BY <1>1, <2>1 DEF DefInv
  <2> QED BY <1>1, <2>1, <2>2, AuthoredKept, FilesKept DEF WriteInv
<1> QED BY <1>1, <1>2, <1>3, <1>4, <1>5, <1>6, StepCases

\* A package that was migrated, or never was v1alpha1, is read back from its
\* v1alpha1 document as it was.
LEMMA AlphaReadAgain ==
    ASSUME NEW w, AlphaOK(w), w.note = "", w.kind # "", w.api \in {"", "v1alpha1"},
           "scripts-to-actions" \in w.migrations \/ w.component.scripts = NoScripts,
           \/ "pluralize-set-variable" \in w.migrations
           \/ /\ Unset(w.component.onCreate) /\ Unset(w.component.before)
              /\ Unset(w.component.after) /\ Unset(w.component.success)
    PROVE  Behaviour(AlphaFromGeneric(AlphaToGeneric(MigrateDeprecated(w)))) = Behaviour(w)
<1> DEFINE m == MigrateDeprecated(w)
<1>1. AlphaOK(m) /\ m.note = w.note /\ m.kind = w.kind /\ m.api = w.api
  BY MigratedIs, Zenon
<1>2. Behaviour(m) = Behaviour(w)
  BY MigratedBehaviour, Zenon
<1> HIDE DEF m
<1>3. m.note = "" /\ m.kind # "" /\ m.api \in {"", "v1alpha1"}
  BY <1>1, Zenon
<1>4. AlphaFromGeneric(AlphaToGeneric(m)) = m
  BY <1>1, <1>3, AlphaRoundTrip, Zenon
<1> QED BY <1>2, <1>4, Zenon DEF m

LEMMA BareUnset ==
    ASSUME NEW s, BareList(s)
    PROVE  Unset(s)
BY Zenon DEF BareList, Unset

LEMMA WriteInvImplies == WriteInv => WrittenIsRead
<1> SUFFICES ASSUME WriteInv PROVE WrittenIsRead
  OBVIOUS
<1>1. CASE AlphaFile
  <2>1. PICK a : /\ file = Documents({a}, {}) /\ AlphaOK(a)
                 /\ written # {} =>
                      /\ written = {a} /\ a.migrations = BothMigrations
                      /\ a.note = "" /\ a.kind # "" /\ a.api \in {"", "v1alpha1"}
    BY <1>1, Zenon DEF AlphaFile
  <2>2. file.alpha = {a} /\ file.beta = {} /\ ReadAsAlpha = AlphaFromGeneric(AlphaToGeneric(MigrateDeprecated(a)))
    BY <2>1, ReadAlphaFile, Zenon DEF ReadAsAlpha
  <2>3. ASSUME NEW v \in written PROVE Behaviour(ReadAsAlpha) = Behaviour(v)
    <3>1. v = a /\ a.migrations = BothMigrations
      BY <2>1, <2>3, Zenon
    <3>2. a.note = "" /\ a.kind # "" /\ a.api \in {"", "v1alpha1"}
      BY <2>1, <2>3, Zenon
    <3>3. "scripts-to-actions" \in a.migrations /\ "pluralize-set-variable" \in a.migrations
      BY <3>1, Zenon DEF BothMigrations
    <3>4. Behaviour(AlphaFromGeneric(AlphaToGeneric(MigrateDeprecated(a)))) = Behaviour(a)
      BY <2>1, <3>2, <3>3, AlphaReadAgain, Zenon
    <3> QED BY <2>2, <3>1, <3>4, Zenon
  <2> QED BY <2>2, <2>3, Zenon DEF WrittenIsRead
<1>2. CASE BetaFile
  <2>1. PICK b : file = Documents({}, {b})
    BY <1>2, Zenon DEF BetaFile
  <2>2. file.alpha = {}
    BY <2>1, ReadBetaFile, Zenon
  <2> QED BY <2>2, Zenon DEF WrittenIsRead
<1>3. CASE BothFiles
  <2>1. PICK b : /\ file = Documents({AlphaFromGeneric(BetaToGeneric(b))}, {b}) /\ BetaOK(b)
                 /\ written \subseteq file.alpha
    BY <1>3, Zenon DEF BothFiles
  <2> DEFINE h == BetaToGeneric(b)
             w == AlphaFromGeneric(h)
  <2>a. file = Documents({w}, {b})
    BY <2>1
  <2>b. file.alpha = {w} /\ file.beta = {b} /\ ParseMultiDoc(file) = h
    BY <2>a, ReadBetaFile
  <2>2. file.alpha = {w} /\ file.beta = {b} /\ ReadAsAlpha = w
    BY <2>b, Zenon DEF ReadAsAlpha
  <2>3. GenericOK(h) /\ GenericOfBeta(h)
    BY <2>1, GenericFromBeta
  <2>4. /\ AlphaOK(w) /\ w.note = "" /\ w.kind # "" /\ w.api \in {"", "v1alpha1"}
        /\ w.component.scripts = h.component.scripts
        /\ w.component.onCreate = h.component.actions.onCreate
        /\ w.component.before = h.component.actions.before
        /\ w.component.after = h.component.actions.after
        /\ w.component.success = h.component.actions.success
    BY <2>3, AlphaOfGeneric, Zenon
  <2> HIDE DEF h, w
  <2>5. /\ h.component.scripts = NoScripts /\ h.component.actions.after = <<>>
        /\ BareList(h.component.actions.onCreate) /\ BareList(h.component.actions.before)
        /\ BareList(h.component.actions.success)
    BY <2>3, Zenon DEF GenericOfBeta, ComponentOfBeta
  <2>6. BareList(<<>>)
    BY EmptyActions
  <2>7. /\ w.component.scripts = NoScripts
        /\ Unset(w.component.onCreate) /\ Unset(w.component.before)
        /\ Unset(w.component.after) /\ Unset(w.component.success)
    BY <2>4, <2>5, <2>6, BareUnset, Zenon
  <2>8. Behaviour(AlphaFromGeneric(AlphaToGeneric(MigrateDeprecated(w)))) = Behaviour(w)
    BY <2>4, <2>7, AlphaReadAgain, Zenon
  <2>9. \A v \in written : v = w
    BY <2>1, <2>2, Zenon
  <2>10. AlphaFromGeneric(BetaToGeneric(b)) = w
    BY Zenon DEF w, h
  <2> QED BY <2>2, <2>8, <2>9, <2>10, Zenon DEF WrittenIsRead
<1> QED BY <1>1, <1>2, <1>3 DEF WriteInv

\* However often a package is written and read again, a deploy sees what the
\* process that wrote it had in memory, and a Zarf that knows v1alpha1 only reads
\* the same package from its own document: for all documents and all sequences
\* of create, sign, dev deploy, override, upgrade and write.
THEOREM PackagesSurviveWriting == Spec => []WrittenIsRead
<1>1. Init => WriteInv
  BY WriteInit
<1>2. WriteInv /\ [Next]_vars => WriteInv'
  BY WriteStep
<1>3. WriteInv => WrittenIsRead
  BY WriteInvImplies
<1> QED BY <1>1, <1>2, <1>3, PTL DEF Spec

-----------------------------------------------------------------------------
(* Scripts run once.                                                       *)

\* How often something is in a list that is made of two.
LEMMA TimesConcat ==
    ASSUME NEW x, NEW s, IsList(s), NEW t, IsList(t)
    PROVE  /\ Times(x, s) \in Nat /\ Times(x, t) \in Nat
           /\ Times(x, s \o t) = Times(x, s) + Times(x, t)
<1> DEFINE n == Len(s)
           m == Len(t)
           u == s \o t
           A == {i \in 1 .. n : s[i] = x}
           B == {i \in 1 .. m : t[i] = x}
           C == {i \in 1 .. n + m : u[i] = x}
           D == {i \in n + 1 .. n + m : u[i] = x}
<1>1. n \in Nat /\ m \in Nat /\ DOMAIN s = 1 .. n /\ DOMAIN t = 1 .. m
  BY ListDomain
<1>2. /\ IsList(u) /\ Len(u) = n + m
      /\ \A i \in 1 .. n : u[i] = s[i]
      /\ \A i \in 1 .. m : u[n + i] = t[i]
  BY ConcatList
<1>3. DOMAIN u = 1 .. n + m
  BY <1>2, ListDomain
<1>4. Times(x, s) = Cardinality(A) /\ Times(x, t) = Cardinality(B) /\ Times(x, u) = Cardinality(C)
  BY <1>1, <1>3, Zenon DEF Times
<1> HIDE DEF n, m, u
<1>5. IsFiniteSet(1 .. n) /\ IsFiniteSet(1 .. m)
  BY <1>1, IntervalSize
<1>6. IsFiniteSet(A) /\ IsFiniteSet(B)
  BY <1>5, FS_Subset
<1>7. C = A \cup D /\ A \cap D = {}
  BY <1>1, <1>2
<1> DEFINE f == [i \in B |-> n + i]
<1>8. f \in Bijection(B, D)
  <2>1. f \in [B -> D]
    BY <1>1, <1>2
  <2>2. \A a, b \in B : f[a] = f[b] => a = b
    BY <1>1
  <2>3. ASSUME NEW d \in D PROVE \E b \in B : f[b] = d
    <3>1. d - n \in 1 .. m /\ n + (d - n) = d /\ u[d] = x
      BY <1>1
    <3>2. d - n \in B
      BY <1>2, <3>1
    <3> QED BY <3>1, <3>2
  <2> HIDE DEF f
  <2>4. DOMAIN f = B
    BY <2>1
  <2> QED BY <2>1, <2>2, <2>3, <2>4 DEF Bijection, Injection, Surjection, IsInjective
<1>9. ExistsBijection(B, D)
  BY <1>8 DEF ExistsBijection
<1>10. IsFiniteSet(D) /\ Cardinality(D) = Cardinality(B)
  BY <1>6, <1>9, FS_Bijection
<1> HIDE DEF A, B, C, D
<1>11. Cardinality(C) = Cardinality(A) + Cardinality(D) - Cardinality(A \cap D)
  BY <1>6, <1>7, <1>10, FS_Union
<1>12. Cardinality(A \cap D) = 0
  BY <1>7, FS_EmptySet
<1>13. Cardinality(A) \in Nat /\ Cardinality(B) \in Nat
  BY <1>6, FS_CardinalityType
<1> QED BY <1>4, <1>10, <1>11, <1>12, <1>13 DEF u

\* The commands of a list of actions.
LEMMA CommandsFacts ==
    ASSUME NEW s, ActionList(s)
    PROVE  /\ IsList(Commands(s)) /\ Len(Commands(s)) = Len(s)
           /\ \A i \in 1 .. Len(s) : Commands(s)[i] = s[i].cmd
<1>1. IsList(s)
  BY DEF ActionList
<1>2. Commands(s) = [i \in DOMAIN s |-> Commands(s)[i]]
  BY DEF Commands
<1>3. IsList(Commands(s)) /\ Len(Commands(s)) = Len(s) /\ DOMAIN s = 1 .. Len(s)
  BY <1>1, <1>2, MapList
<1> QED BY <1>3 DEF Commands

LEMMA SameCommands ==
    ASSUME NEW s, ActionList(s), NEW t, ActionList(t), Len(t) = Len(s),
           \A i \in 1 .. Len(s) : t[i].cmd = s[i].cmd
    PROVE  Commands(t) = Commands(s)
BY CommandsFacts, SameList

LEMMA RunCommands ==
    ASSUME NEW s, IsList(s)
    PROVE  Commands(RunAll(s)) = s
BY RunAllFacts, CommandsFacts, SameList

LEMMA ConcatCommands ==
    ASSUME NEW s, ActionList(s), NEW t, ActionList(t)
    PROVE  Commands(s \o t) = Commands(s) \o Commands(t)
<1> DEFINE u == s \o t
           a == Commands(u)
           b == Commands(s) \o Commands(t)
<1>1. IsList(s) /\ IsList(t) /\ Len(s) \in Nat /\ Len(t) \in Nat
  BY ListDomain DEF ActionList
<1>2. /\ Len(u) = Len(s) + Len(t)
      /\ \A i \in 1 .. Len(s) : u[i] = s[i]
      /\ \A i \in 1 .. Len(u) : i > Len(s) => i - Len(s) \in 1 .. Len(t) /\ u[i] = t[i - Len(s)]
  BY <1>1, ConcatList
<1>3. ActionList(u)
  BY ConcatActions
<1>4. IsList(a) /\ Len(a) = Len(u) /\ \A i \in 1 .. Len(u) : a[i] = u[i].cmd
  BY <1>3, CommandsFacts
<1>5. /\ IsList(Commands(s)) /\ Len(Commands(s)) = Len(s)
      /\ IsList(Commands(t)) /\ Len(Commands(t)) = Len(t)
      /\ \A i \in 1 .. Len(s) : Commands(s)[i] = s[i].cmd
      /\ \A i \in 1 .. Len(t) : Commands(t)[i] = t[i].cmd
  BY CommandsFacts
<1> DEFINE p == Commands(s)
           q == Commands(t)
<1> HIDE DEF p, q
<1>p. IsList(p) /\ IsList(q)
  BY <1>5 DEF p, q
<1>6a. /\ IsList(p \o q) /\ Len(p \o q) = Len(p) + Len(q)
       /\ \A i \in 1 .. Len(p) : (p \o q)[i] = p[i]
       /\ \A i \in 1 .. Len(p \o q) : i > Len(p) => (p \o q)[i] = q[i - Len(p)]
  BY <1>p, ConcatList
<1>6. /\ IsList(b) /\ Len(b) = Len(s) + Len(t)
      /\ \A i \in 1 .. Len(s) : b[i] = Commands(s)[i]
      /\ \A i \in 1 .. Len(b) : i > Len(s) => b[i] = Commands(t)[i - Len(s)]
  BY <1>5, <1>6a DEF p, q
<1> HIDE DEF u, a, b
<1>7. ASSUME NEW i \in 1 .. Len(a) PROVE a[i] = b[i]
  <2>1. CASE i <= Len(s)
    <3>1. i \in 1 .. Len(s)
      BY <1>1, <2>1
    <3> QED BY <1>1, <1>2, <1>4, <1>5, <1>6, <3>1
  <2>2. CASE i > Len(s)
    <3>1. i \in 1 .. Len(u) /\ i \in 1 .. Len(b)
      BY <1>2, <1>4, <1>6
    <3>2. i - Len(s) \in 1 .. Len(t) /\ u[i] = t[i - Len(s)] /\ b[i] = Commands(t)[i - Len(s)]
      BY <1>2, <1>6, <2>2, <3>1
    <3> QED BY <1>4, <1>5, <3>1, <3>2
  <2>3. i \in Int
    OBVIOUS
  <2> QED BY <1>1, <2>1, <2>2, <2>3
<1>8. a = b
  BY <1>2, <1>4, <1>6, <1>7, SameList
<1> QED BY <1>8 DEF a, b, u

LEMMA AllTimes ==
    ASSUME NEW c, ActionList(c.onCreate), ActionList(c.before), ActionList(c.after),
           ActionList(c.success), NEW x
    PROVE  /\ IsList(AllCommands(c))
           /\ Times(x, AllCommands(c)) =
                Times(x, Commands(c.onCreate)) + Times(x, Commands(c.before)) +
                Times(x, Commands(c.after)) + Times(x, Commands(c.success))
<1> DEFINE p == c.onCreate
           q == c.before
           r == c.after
           s == c.success
           P == Commands(p)
           Q == Commands(q)
           R == Commands(r)
           S == Commands(s)
<1>1. AllCommands(c) = Commands(((p \o q) \o r) \o s)
  BY Zenon DEF AllCommands
<1>2. ActionList(p) /\ ActionList(q) /\ ActionList(r) /\ ActionList(s)
  OBVIOUS
<1> HIDE DEF p, q, r, s
<1>3. ActionList(p \o q) /\ ActionList((p \o q) \o r)
  BY <1>2, ConcatActions
<1>4. /\ Commands(p \o q) = P \o Q /\ Commands((p \o q) \o r) = Commands(p \o q) \o R
      /\ Commands(((p \o q) \o r) \o s) = Commands((p \o q) \o r) \o S
  BY <1>2, <1>3, ConcatCommands
<1>5. IsList(P) /\ IsList(Q) /\ IsList(R) /\ IsList(S)
  BY <1>2, CommandsFacts
<1>6. AllCommands(c) = ((P \o Q) \o R) \o S
  BY <1>1, <1>4
<1> HIDE DEF P, Q, R, S
<1>7. IsList(P \o Q) /\ IsList((P \o Q) \o R) /\ IsList(((P \o Q) \o R) \o S)
  BY <1>5, ConcatList
<1>8. /\ Times(x, P \o Q) = Times(x, P) + Times(x, Q)
      /\ Times(x, (P \o Q) \o R) = Times(x, P \o Q) + Times(x, R)
      /\ Times(x, ((P \o Q) \o R) \o S) = Times(x, (P \o Q) \o R) + Times(x, S)
  BY <1>5, <1>7, TimesConcat
<1>9. /\ IsList(AllCommands(c))
      /\ Times(x, AllCommands(c)) = Times(x, P) + Times(x, Q) + Times(x, R) + Times(x, S)
  BY <1>6, <1>7, <1>8
<1> QED BY <1>9, Zenon DEF P, Q, R, S, p, q, r, s

\* If the lists hold the commands of the component and of its scripts, each runs
\* as often as it is written there.
LEMMA RanTimes ==
    ASSUME NEW c, AlphaComponentOK(c), NEW d, AlphaComponentOK(d), Ran(c, d), NEW x
    PROVE  LET s == c.scripts IN
           Times(x, AllCommands(d)) = Times(x, AllCommands(c) \o s.prepare \o s.before \o s.after)
<1> DEFINE p == c.scripts.prepare
           q == c.scripts.before
           r == c.scripts.after
           A == AllCommands(c)
           c1 == Commands(c.onCreate)
           c2 == Commands(c.before)
           c3 == Commands(c.after)
           c4 == Commands(c.success)
<1>1. /\ ActionList(c.onCreate) /\ ActionList(c.before) /\ ActionList(c.after) /\ ActionList(c.success)
      /\ ActionList(d.onCreate) /\ ActionList(d.before) /\ ActionList(d.after) /\ ActionList(d.success)
      /\ IsList(p) /\ IsList(q) /\ IsList(r)
  BY DEF AlphaComponentOK
<1>2. /\ IsList(A)
      /\ Times(x, A) = Times(x, c1) + Times(x, c2) + Times(x, c3) + Times(x, c4)
      /\ Times(x, AllCommands(d)) =
           Times(x, Commands(d.onCreate)) + Times(x, Commands(d.before)) +
           Times(x, Commands(d.after)) + Times(x, Commands(d.success))
  BY <1>1, AllTimes
<1>3. /\ Commands(d.onCreate) = c1 \o p /\ Commands(d.before) = c2 \o q
      /\ Commands(d.after) = c3 \o r /\ Commands(d.success) = c4
  BY Zenon DEF Ran
<1>4. IsList(c1) /\ IsList(c2) /\ IsList(c3) /\ IsList(c4)
  BY <1>1, CommandsFacts
<1> HIDE DEF p, q, r, A, c1, c2, c3, c4
<1>5. /\ Times(x, c1 \o p) = Times(x, c1) + Times(x, p)
      /\ Times(x, c2 \o q) = Times(x, c2) + Times(x, q)
      /\ Times(x, c3 \o r) = Times(x, c3) + Times(x, r)
  BY <1>1, <1>4, TimesConcat
<1>6. /\ Times(x, c1) \in Nat /\ Times(x, c2) \in Nat /\ Times(x, c3) \in Nat /\ Times(x, c4) \in Nat
      /\ Times(x, p) \in Nat /\ Times(x, q) \in Nat /\ Times(x, r) \in Nat
  BY <1>1, <1>4, TimesConcat
<1>7. IsList(A \o p) /\ IsList((A \o p) \o q)
  BY <1>1, <1>2, ConcatList
<1>8. /\ Times(x, A \o p) = Times(x, A) + Times(x, p)
      /\ Times(x, (A \o p) \o q) = Times(x, A \o p) + Times(x, q)
      /\ Times(x, ((A \o p) \o q) \o r) = Times(x, (A \o p) \o q) + Times(x, r)
  BY <1>1, <1>2, <1>7, TimesConcat
<1>9. Times(x, AllCommands(d)) =
        (Times(x, c1) + Times(x, p)) + (Times(x, c2) + Times(x, q)) + (Times(x, c3) + Times(x, r))
        + Times(x, c4)
  BY <1>2, <1>3, <1>5, Zenon
<1>10. Times(x, ((A \o p) \o q) \o r) =
         (Times(x, c1) + Times(x, c2) + Times(x, c3) + Times(x, c4))
         + Times(x, p) + Times(x, q) + Times(x, r)
  BY <1>2, <1>8, Zenon
<1>11. Times(x, AllCommands(d)) = Times(x, ((A \o p) \o q) \o r)
  BY <1>6, <1>9, <1>10
<1> QED BY <1>11, Zenon DEF A, p, q, r

\* The migrations of setVariable change no command.
LEMMA PluralCommands ==
    ASSUME NEW s, ActionList(s)
    PROVE  Commands(Plural(s)) = Commands(s)
<1>1. /\ ActionList(Plural(s)) /\ Len(Plural(s)) = Len(s)
      /\ \A i \in 1 .. Len(s) : Plural(s)[i].cmd = s[i].cmd
  BY PluralFacts, Zenon
<1> QED BY <1>1, SameCommands

LEMMA ClearCommands ==
    ASSUME NEW s, ActionList(s)
    PROVE  Commands(Clear(s)) = Commands(s)
<1>1. ActionList(Clear(s)) /\ Len(Clear(s)) = Len(s)
  BY ClearFacts, Zenon
<1>2. ASSUME NEW i \in 1 .. Len(s) PROVE Clear(s)[i].cmd = s[i].cmd
  BY ClearFacts, Zenon
<1> QED BY <1>1, <1>2, SameCommands

\* The migration of the scripts adds them once.
LEMMA MigrationRuns ==
    ASSUME NEW a, AlphaOK(a), a.migrations = {}
    PROVE  Ran(a.component, MigrateDeprecated(a).component)
<1> DEFINE c == a.component
           y == Scripted(a)
           z == Migrated(a)
           l1 == c.onCreate \o RunAll(c.scripts.prepare)
           l2 == c.before \o RunAll(c.scripts.before)
           l3 == c.after \o RunAll(c.scripts.after)
<1>1. MigrateDeprecated(a).component = z
  BY MigratedIs
<1>2. AlphaComponentOK(c) /\ AlphaComponentOK(y) /\ AlphaComponentOK(z)
  BY ScriptedFacts, MigratedFacts DEF AlphaOK
<1>3. y = With(c, c.scripts, l1, l2, l3, c.success)
  BY ScriptedFacts
<1>4. z = With(y, y.scripts, Plural(y.onCreate), Plural(y.before), Plural(y.after), Plural(y.success))
  BY MigratedFacts
<1> HIDE DEF c, y, z, l1, l2, l3
<1>5. y.onCreate = l1 /\ y.before = l2 /\ y.after = l3 /\ y.success = c.success
  BY <1>3, WithFields
<1>6. /\ z.onCreate = Plural(l1) /\ z.before = Plural(l2) /\ z.after = Plural(l3)
      /\ z.success = Plural(c.success)
  BY <1>4, <1>5, WithFields
<1>7. /\ ActionList(c.onCreate) /\ ActionList(c.before) /\ ActionList(c.after) /\ ActionList(c.success)
      /\ IsList(c.scripts.prepare) /\ IsList(c.scripts.before) /\ IsList(c.scripts.after)
  BY <1>2 DEF AlphaComponentOK
<1>8. ASSUME NEW s, ActionList(s), NEW t, IsList(t)
      PROVE  Commands(Plural(s \o RunAll(t))) = Commands(s) \o t
  <2>1. ActionList(RunAll(t)) /\ Commands(RunAll(t)) = t
    BY <1>8, RunAllFacts, RunCommands
  <2>2. ActionList(s \o RunAll(t)) /\ Commands(s \o RunAll(t)) = Commands(s) \o t
    BY <1>8, <2>1, ConcatActions, ConcatCommands
  <2> DEFINE u == s \o RunAll(t)
  <2> HIDE DEF u
  <2>3. Commands(Plural(u)) = Commands(u)
    BY <2>2, PluralCommands DEF u
  <2> QED BY <2>2, <2>3 DEF u
<1>9. Commands(Plural(c.success)) = Commands(c.success)
  BY <1>7, PluralCommands
<1>10. Ran(c, z)
  BY <1>6, <1>7, <1>8, <1>9 DEF Ran, l1, l2, l3
<1> QED BY <1>1, <1>10 DEF c

\* And is not repeated once it is recorded.
LEMMA RecordedRuns ==
    ASSUME NEW w, AlphaOK(w), w.migrations = BothMigrations, NEW c, Ran(c, w.component)
    PROVE  Ran(c, MigrateDeprecated(w).component)
<1> DEFINE d == w.component
           y == Scripted(w)
           z == Migrated(w)
<1>1. MigrateDeprecated(w).component = z
  BY MigratedIs
<1>2. "scripts-to-actions" \in w.migrations /\ "pluralize-set-variable" \in w.migrations
  BY DEF BothMigrations
<1>3. y = With(d, NoScripts, d.onCreate, d.before, d.after, d.success)
  BY <1>2, ScriptedFacts
<1>4. z = With(y, y.scripts, Clear(y.onCreate), Clear(y.before), Clear(y.after), Clear(y.success))
  BY <1>2, MigratedFacts
<1>5. ActionList(d.onCreate) /\ ActionList(d.before) /\ ActionList(d.after) /\ ActionList(d.success)
  BY DEF AlphaOK, AlphaComponentOK
<1>6. Ran(c, d)
  OBVIOUS
<1> HIDE DEF d, y, z
<1>7. /\ z.onCreate = Clear(d.onCreate) /\ z.before = Clear(d.before) /\ z.after = Clear(d.after)
      /\ z.success = Clear(d.success)
  BY <1>3, <1>4, WithFields
<1>8. Ran(c, z)
  BY <1>5, <1>6, <1>7, ClearCommands DEF Ran
<1> QED BY <1>1, <1>8

\* The steps that change a definition, one by one.
ChangedTo(g, h) ==
    \/ h = Built(g) \/ h = Signed(g) \/ h = Stripped(g)
    \/ h = Overridden(g, "target")

LEMMA ChangeCases ==
    ASSUME DefInv, Next
    PROVE  \/ Parse
           \/ UpgradeSchema
           \/ \E g \in def : Definition(g) /\ Write(g)
           \/ \E g \in def : \E h : Definition(g) /\ Change(h) /\ ChangedTo(g, h)
<1>1. ASSUME NEW g \in def,
             \/ SetBuildData(g) \/ SetBuildSigned(g) \/ RemoveSources(g)
             \/ OverrideNamespace(g, "target")
      PROVE  \E h : Definition(g) /\ Change(h) /\ ChangedTo(g, h)
  <2>1. Definition(g)
    BY DEF DefInv, Definition
  <2>2. \/ Change(Built(g)) \/ Change(Signed(g)) \/ Change(Stripped(g))
        \/ Change(Overridden(g, "target"))
    BY <1>1, NextIs, Zenon
  <2> QED BY <2>1, <2>2, Zenon DEF ChangedTo
<1>2. ASSUME NEW g \in def, Write(g) PROVE Definition(g)
  BY DEF DefInv, Definition
<1> QED BY <1>1, <1>2, Zenon DEF Next

\* None of them changes what runs.
LEMMA ChangesRun ==
    ASSUME NEW g, GenericOK(g), NEW h, ChangedTo(g, h), NEW c, Ran(c, g.component.actions)
    PROVE  Ran(c, h.component.actions) /\ h.original = g.original
<1> DEFINE a == g.component.actions
           o == g.component.chart.ns
           k == Overridden(g, "target")
           m == k.component.actions
<1>1. /\ Built(g).component = g.component /\ Signed(g).component = g.component
      /\ Stripped(g).component.actions = a
      /\ Built(g).original = g.original /\ Signed(g).original = g.original
      /\ Stripped(g).original = g.original /\ k.original = g.original
  BY BuildKept, StripKept, OverrideKept DEF Kept
<1>2. /\ m.onCreate = MovedList(a.onCreate, o, "target") /\ m.before = MovedList(a.before, o, "target")
      /\ m.after = MovedList(a.after, o, "target") /\ m.success = MovedList(a.success, o, "target")
  BY OverrideKept
<1>3. ActionList(a.onCreate) /\ ActionList(a.before) /\ ActionList(a.after) /\ ActionList(a.success)
  BY DEF GenericOK, ComponentOK
<1>4. Ran(c, a)
  OBVIOUS
<1> HIDE DEF a, o, m, k
<1>5. ASSUME NEW s, ActionList(s) PROVE Commands(MovedList(s, o, "target")) = Commands(s)
  BY <1>5, MovedFacts, SameCommands
<1>6. Ran(c, m)
  BY <1>2, <1>3, <1>4, <1>5 DEF Ran
<1>7. h = Built(g) \/ h = Signed(g) \/ h = Stripped(g) \/ h = k
  BY DEF ChangedTo, k
<1>8. h.original = g.original
  BY <1>1, <1>7, Zenon
<1>9. CASE h = k
  BY <1>6, <1>8, <1>9, Zenon DEF m
<1>10. CASE h = Built(g) \/ h = Signed(g) \/ h = Stripped(g)
  <2>1. h.component.actions = a
    BY <1>1, <1>10 DEF a
  <2> QED BY <1>4, <1>8, <2>1, Zenon
<1> QED BY <1>7, <1>9, <1>10

LEMMA ScriptInit == Init => ScriptInv
<1> SUFFICES ASSUME Init PROVE ScriptInv
  OBVIOUS
<1>1. WriteInv
  BY WriteInit
<1>2. authored = file /\ def = {}
  BY Zenon DEF Init
<1>3. ASSUME NEW a \in authored.alpha PROVE file.alpha = {a}
  <2>1. authored = Documents({a}, {})
    BY <1>1, <1>3, AuthoredPackage DEF WriteInv
  <2> QED BY <1>2, <2>1, ReadAlphaFile
<1> QED BY <1>1, <1>2, <1>3 DEF ScriptInv

\* What is parsed runs the scripts of the author once.
LEMMA ParsedRuns ==
    ASSUME ScriptInv, NEW a \in authored.alpha, ParseMultiDoc(file).original = "v1alpha1"
    PROVE  Ran(a.component, ParseMultiDoc(file).component.actions)
<1> DEFINE g == ParseMultiDoc(file)
<1>1. /\ AuthoredInv /\ (AlphaFile \/ BetaFile \/ BothFiles)
      /\ \/ file.beta # {} \/ file.alpha = {a}
         \/ \A w \in file.alpha : w.migrations = BothMigrations /\ Ran(a.component, w.component)
  BY DEF ScriptInv, WriteInv
<1>2. ASSUME BetaFile \/ BothFiles PROVE FALSE
  <2>1. PICK s, b : file = Documents(s, {b}) /\ BetaOK(b)
    BY <1>2, Zenon DEF BetaFile, BothFiles
  <2>2. g = BetaToGeneric(b)
    BY <2>1, ReadBetaFile
  <2>3. GenericOfBeta(g)
    BY <2>1, <2>2, GenericFromBeta, Zenon
  <2>4. g.original = "v1beta1"
    BY <2>3, Zenon DEF GenericOfBeta
  <2>5. g.original = "v1alpha1"
    OBVIOUS
  <2> HIDE DEF g
  <2> QED BY <2>4, <2>5
<1>3. PICK w : file = Documents({w}, {}) /\ AlphaOK(w)
  BY <1>1, <1>2, Zenon DEF AlphaFile
<1>4. file.alpha = {w} /\ file.beta = {} /\ g = AlphaToGeneric(MigrateDeprecated(w))
  BY <1>3, ReadAlphaFile
<1>5. w = a \/ (w.migrations = BothMigrations /\ Ran(a.component, w.component))
  BY <1>1, <1>4
<1> DEFINE m == MigrateDeprecated(w)
<1>6. Ran(a.component, m.component)
  <2>1. CASE w = a
    BY <1>1, <1>3, <2>1, AuthoredPackage, MigrationRuns
  <2>2. CASE w.migrations = BothMigrations /\ Ran(a.component, w.component)
    BY <1>3, <2>2, RecordedRuns
  <2> QED BY <1>5, <2>1, <2>2
<1> HIDE DEF m, g
<1>7. g.component.actions = AlphaActionsToGeneric(m.component)
  <2>1. AlphaToGeneric(m).component = AlphaComponentToGeneric(m.component)
    BY DEF AlphaToGeneric
  <2>2. AlphaComponentToGeneric(m.component).actions = AlphaActionsToGeneric(m.component)
    BY DEF AlphaComponentToGeneric
  <2> QED BY <1>4, <2>1, <2>2, Zenon DEF m
<1>8. /\ g.component.actions.onCreate = m.component.onCreate
      /\ g.component.actions.before = m.component.before
      /\ g.component.actions.after = m.component.after
      /\ g.component.actions.success = m.component.success
  BY <1>7 DEF AlphaActionsToGeneric
<1>9. Ran(a.component, g.component.actions)
  BY <1>6, <1>8 DEF Ran
<1> QED BY <1>9 DEF g

LEMMA ScriptStep == ScriptInv /\ [Next]_vars => ScriptInv'
<1> SUFFICES ASSUME ScriptInv, [Next]_vars PROVE ScriptInv'
  OBVIOUS
<1>1. WriteInv /\ WriteInv'
  BY WriteStep DEF ScriptInv
<1>2. AuthoredInv /\ DefInv /\ DefInv'
  BY <1>1 DEF WriteInv
<1>3. UNCHANGED authored
  <2>1. Next => UNCHANGED authored
    BY <1>2, ChangeCases, Zenon DEF Parse, UpgradeSchema, Write, Change
  <2> QED BY <2>1, Zenon DEF vars
<1> SUFFICES ASSUME NEW a \in authored.alpha
    PROVE  /\ \/ file'.beta # {} \/ file'.alpha = {a}
              \/ \A w \in file'.alpha :
                    w.migrations = BothMigrations /\ Ran(a.component, w.component)
           /\ \A g \in def' : g.original = "v1alpha1" => Ran(a.component, g.component.actions)
  BY <1>1, <1>3 DEF ScriptInv
<1>4. /\ \/ file.beta # {} \/ file.alpha = {a}
         \/ \A w \in file.alpha : w.migrations = BothMigrations /\ Ran(a.component, w.component)
      /\ \A g \in def : g.original = "v1alpha1" => Ran(a.component, g.component.actions)
  BY DEF ScriptInv
<1>5. CASE Parse
  <2>1. def' = {ParseMultiDoc(file)} /\ UNCHANGED file
    BY <1>5 DEF Parse
  <2>2. ParseMultiDoc(file).original = "v1alpha1" =>
          Ran(a.component, ParseMultiDoc(file).component.actions)
    BY ParsedRuns
  <2> QED BY <1>4, <2>1, <2>2
<1>6. CASE UpgradeSchema
  <2>1. def = {} /\ UNCHANGED def /\ \E b : file' = Documents({}, {b})
    BY <1>6 DEF UpgradeSchema
  <2> QED BY <2>1, DocumentsFields
<1>7. CASE \E g \in def : Definition(g) /\ Write(g)
  <2>1. PICK g \in def : Definition(g) /\ Write(g)
    BY <1>7
  <2> DEFINE w == AlphaFromGeneric(g)
             b == BetaFromGeneric(g)
  <2>2. file' = MarshalPackageDefinition(g) /\ def' = {}
    BY <2>1, Zenon DEF Write
  <2>3. \/ /\ MarshalPackageDefinition(g) = Documents({w}, {})
           /\ w.migrations = BothMigrations /\ g.original = "v1alpha1"
        \/ MarshalPackageDefinition(g) = Documents({w}, {b})
    BY <2>1, WrittenIs, Zenon
  <2>4. /\ w.component.onCreate = g.component.actions.onCreate
        /\ w.component.before = g.component.actions.before
        /\ w.component.after = g.component.actions.after
        /\ w.component.success = g.component.actions.success
    BY <2>1, AlphaOfGeneric, Zenon DEF Definition
  <2> HIDE DEF w, b
  <2>5. CASE MarshalPackageDefinition(g) = Documents({w}, {b})
    BY <2>2, <2>5, DocumentsFields
  <2>6. CASE /\ MarshalPackageDefinition(g) = Documents({w}, {})
             /\ w.migrations = BothMigrations /\ g.original = "v1alpha1"
    <3>1. file'.alpha = {w}
      BY <2>2, <2>6, DocumentsFields
    <3>2. Ran(a.component, g.component.actions)
      BY <1>4, <2>6
    <3>3. Ran(a.component, w.component)
      BY <2>4, <3>2, Zenon DEF Ran
    <3> QED BY <2>2, <2>6, <3>1, <3>3
  <2> QED BY <2>3, <2>5, <2>6
<1>8. CASE \E g \in def : \E h : Definition(g) /\ Change(h) /\ ChangedTo(g, h)
  <2>0. PICK g \in def : \E h : Definition(g) /\ Change(h) /\ ChangedTo(g, h)
    BY <1>8
  <2>1. PICK h : Definition(g) /\ Change(h) /\ ChangedTo(g, h)
    BY <2>0
  <2>2. def' = {h} /\ UNCHANGED file
    BY <2>1 DEF Change
  <2>3. GenericOK(g)
    BY <2>1 DEF Definition
  <2>4. h.original = g.original
    BY <2>1, <2>3, BuildKept, StripKept, OverrideKept DEF Kept, ChangedTo
  <2>5. g.original = "v1alpha1" => Ran(a.component, h.component.actions)
    BY <1>4, <2>1, <2>3, ChangesRun
  <2> QED BY <1>4, <2>2, <2>4, <2>5
<1>9. CASE UNCHANGED vars
  BY <1>4, <1>9 DEF vars
<1> QED BY <1>2, <1>5, <1>6, <1>7, <1>8, <1>9, ChangeCases

\* Every script and every action of the author runs as often as it is written in
\* the package, whatever was changed, written and parsed in between.
THEOREM MigratedScriptsRunOnce == Spec => []ScriptsRunOnce
<1>1. Init => ScriptInv
  BY ScriptInit
<1>2. ScriptInv /\ [Next]_vars => ScriptInv'
  BY ScriptStep
<1>3. ScriptInv => ScriptsRunOnce
  <2> SUFFICES ASSUME ScriptInv, NEW a \in authored.alpha, NEW g \in def, g.original = "v1alpha1",
                      NEW x
               PROVE  LET s == a.component.scripts IN
                      Times(x, AllCommands(AlphaFromGeneric(g).component)) =
                      Times(x, AllCommands(a.component) \o s.prepare \o s.before \o s.after)
    BY Zenon DEF ScriptsRunOnce
  <2> DEFINE d == AlphaFromGeneric(g).component
  <2>1. /\ AuthoredInv /\ GenericOK(g) /\ Ran(a.component, g.component.actions)
    BY DEF ScriptInv, WriteInv, DefInv
  <2>2. AlphaComponentOK(a.component)
    BY <2>1, AuthoredPackage DEF AlphaOK
  <2>3. /\ d.onCreate = g.component.actions.onCreate /\ d.before = g.component.actions.before
        /\ d.after = g.component.actions.after /\ d.success = g.component.actions.success
        /\ AlphaOK(AlphaFromGeneric(g))
    BY <2>1, AlphaOfGeneric, Zenon
  <2>4. AlphaComponentOK(d)
    BY <2>3, Zenon DEF AlphaOK
  <2> HIDE DEF d
  <2>5. Ran(a.component, d)
    BY <2>1, <2>3, Zenon DEF Ran
  <2>6. LET s == a.component.scripts IN
        Times(x, AllCommands(d)) =
        Times(x, AllCommands(a.component) \o s.prepare \o s.before \o s.after)
    BY <2>2, <2>4, <2>5, RanTimes
  <2> QED BY <2>6, Zenon DEF d
<1> QED BY <1>1, <1>2, <1>3, PTL DEF Spec

-----------------------------------------------------------------------------
(* An upgrade keeps the meaning of a package.                              *)

LEMMA RefAgain ==
    ASSUME NEW r
    PROVE  LET x == ClassifyGitRef(r) IN
           /\ ClassifyGitRef(FlattenGitRef(x)) = x
           /\ ClassifyGitRef(FlattenGitRef(IF x = "none" THEN "nil" ELSE x)) = x
<1> DEFINE x == ClassifyGitRef(r)
           e == ""
<1>1. x \in {"none", "tag", "commit", "branch"}
  BY GitRefs, Zenon
<1>2. /\ ClassifyGitRef(e) = "none" /\ ClassifyGitRef("tag") = "tag"
      /\ ClassifyGitRef("commit") = "commit" /\ ClassifyGitRef("refs/heads/branch") = "branch"
      /\ FlattenGitRef("tag") = "tag" /\ FlattenGitRef("commit") = "commit"
      /\ FlattenGitRef("branch") = "refs/heads/branch"
      /\ FlattenGitRef("none") = e /\ FlattenGitRef("nil") = e
  BY GitRefs, Zenon
<1> HIDE DEF x, e
<1>3. /\ ClassifyGitRef(FlattenGitRef(x)) = x
      /\ ClassifyGitRef(FlattenGitRef(IF x = "none" THEN "nil" ELSE x)) = x
  BY <1>1, <1>2
<1> QED BY <1>3, Zenon DEF x

\* A source of a chart by its fields.
SourceOf(t, u, ur, r, p) == [type |-> t, url |-> u, urlRef |-> ur, ref |-> r, path |-> p]

LEMMA InferCases ==
    ASSUME NEW at
    PROVE  LET e == "" IN
           /\ at.url = e /\ at.local = e => InferSource(at) = SourceOf("none", e, e, e, e)
           /\ at.url = e /\ at.local # e => InferSource(at) = SourceOf("local", e, e, e, at.local)
           /\ at.url # e /\ at.url = "oci" =>
                InferSource(at) = SourceOf("oci", at.url, at.ref, at.version, e)
           /\ at.url # e /\ at.url # "oci" /\ (at.gitPath # e \/ at.url = "git") =>
                InferSource(at) =
                SourceOf("git", at.url, e, ClassifyGitRef(IF at.ref # e THEN at.ref ELSE at.version),
                         at.gitPath)
           /\ at.url # e /\ at.url # "oci" /\ at.gitPath = e /\ at.url # "git" =>
                InferSource(at) = SourceOf("helm", at.url, at.ref, at.version, e)
<1> DEFINE e == ""
           n == [type |-> "none", url |-> e, urlRef |-> e, ref |-> e, path |-> e]
           x == ClassifyGitRef(IF at.ref # e THEN at.ref ELSE at.version)
<1>1. InferSource(at) =
        IF at.url = e THEN (IF at.local = e THEN n
                            ELSE [n EXCEPT !.type = "local", !.path = at.local])
        ELSE IF at.url = "oci"
          THEN [n EXCEPT !.type = "oci", !.url = "oci", !.urlRef = at.ref, !.ref = at.version]
        ELSE IF at.gitPath # e \/ at.url = "git"
          THEN [n EXCEPT !.type = "git", !.url = at.url, !.path = at.gitPath, !.ref = x]
        ELSE [n EXCEPT !.type = "helm", !.url = at.url, !.urlRef = at.ref, !.ref = at.version]
  BY Zenon DEF InferSource, NoSource
<1> HIDE DEF e, x
<1>2. n = SourceOf("none", e, e, e, e)
  BY DEF SourceOf
<1> HIDE DEF n
<1>3. [n EXCEPT !.type = "local", !.path = at.local] = SourceOf("local", e, e, e, at.local)
  <2>1. [SourceOf("none", e, e, e, e) EXCEPT !.type = "local"] = SourceOf("local", e, e, e, e)
    BY DEF SourceOf
  <2>2. [SourceOf("local", e, e, e, e) EXCEPT !.path = at.local] = SourceOf("local", e, e, e, at.local)
    BY DEF SourceOf
  <2> QED BY <1>2, <2>1, <2>2
<1>4. [n EXCEPT !.type = "oci", !.url = "oci", !.urlRef = at.ref, !.ref = at.version] =
      SourceOf("oci", "oci", at.ref, at.version, e)
  <2>1. [SourceOf("none", e, e, e, e) EXCEPT !.type = "oci"] = SourceOf("oci", e, e, e, e)
    BY DEF SourceOf
  <2>2. [SourceOf("oci", e, e, e, e) EXCEPT !.url = "oci"] = SourceOf("oci", "oci", e, e, e)
    BY DEF SourceOf
  <2>3. [SourceOf("oci", "oci", e, e, e) EXCEPT !.urlRef = at.ref] = SourceOf("oci", "oci", at.ref, e, e)
    BY DEF SourceOf
  <2>4. [SourceOf("oci", "oci", at.ref, e, e) EXCEPT !.ref = at.version] = SourceOf("oci", "oci", at.ref, at.version, e)
    BY DEF SourceOf
  <2> QED BY <1>2, <2>1, <2>2, <2>3, <2>4
<1>5. [n EXCEPT !.type = "git", !.url = at.url, !.path = at.gitPath, !.ref = x] =
      SourceOf("git", at.url, e, x, at.gitPath)
  <2>1. [SourceOf("none", e, e, e, e) EXCEPT !.type = "git"] = SourceOf("git", e, e, e, e)
    BY DEF SourceOf
  <2>2. [SourceOf("git", e, e, e, e) EXCEPT !.url = at.url] = SourceOf("git", at.url, e, e, e)
    BY DEF SourceOf
  <2>3. [SourceOf("git", at.url, e, e, e) EXCEPT !.path = at.gitPath] = SourceOf("git", at.url, e, e, at.gitPath)
    BY DEF SourceOf
  <2>4. [SourceOf("git", at.url, e, e, at.gitPath) EXCEPT !.ref = x] = SourceOf("git", at.url, e, x, at.gitPath)
    BY DEF SourceOf
  <2> QED BY <1>2, <2>1, <2>2, <2>3, <2>4
<1>6. [n EXCEPT !.type = "helm", !.url = at.url, !.urlRef = at.ref, !.ref = at.version] =
      SourceOf("helm", at.url, at.ref, at.version, e)
  <2>1. [SourceOf("none", e, e, e, e) EXCEPT !.type = "helm"] = SourceOf("helm", e, e, e, e)
    BY DEF SourceOf
  <2>2. [SourceOf("helm", e, e, e, e) EXCEPT !.url = at.url] = SourceOf("helm", at.url, e, e, e)
    BY DEF SourceOf
  <2>3. [SourceOf("helm", at.url, e, e, e) EXCEPT !.urlRef = at.ref] = SourceOf("helm", at.url, at.ref, e, e)
    BY DEF SourceOf
  <2>4. [SourceOf("helm", at.url, at.ref, e, e) EXCEPT !.ref = at.version] = SourceOf("helm", at.url, at.ref, at.version, e)
    BY DEF SourceOf
  <2> QED BY <1>2, <2>1, <2>2, <2>3, <2>4
<1>7. at.url = e /\ at.local = e => InferSource(at) = SourceOf("none", e, e, e, e)
  BY <1>1, <1>2, Zenon
<1>8. at.url = e /\ at.local # e => InferSource(at) = SourceOf("local", e, e, e, at.local)
  BY <1>1, <1>3, Zenon
<1>9. at.url # e /\ at.url = "oci" => InferSource(at) = SourceOf("oci", at.url, at.ref, at.version, e)
  BY <1>1, <1>4, Zenon
<1>10. at.url # e /\ at.url # "oci" /\ (at.gitPath # e \/ at.url = "git") =>
         InferSource(at) = SourceOf("git", at.url, e, x, at.gitPath)
  BY <1>1, <1>5, Zenon
<1>11. at.url # e /\ at.url # "oci" /\ at.gitPath = e /\ at.url # "git" =>
         InferSource(at) = SourceOf("helm", at.url, at.ref, at.version, e)
  BY <1>1, <1>6, Zenon
<1> QED BY <1>7, <1>8, <1>9, <1>10, <1>11, Zenon DEF e, x

\* Written as flat fields again, a source is inferred from them as it was.
LEMMA SourceAgain ==
    ASSUME NEW at, at.version # "digest"
    PROVE  LET s == InferSource(at) IN
           InferSource(FlatSource(NoLocation, s.type, s.url, s.urlRef, NilRef(s), s.path)) = s
<1> DEFINE e == ""
           s == InferSource(at)
           o == NoLocation
           f == FlatSource(o, s.type, s.url, s.urlRef, NilRef(s), s.path)
           k == FlattenGitRef(NilRef(s))
           x == ClassifyGitRef(IF at.ref # e THEN at.ref ELSE at.version)
<1>1. o.url = e /\ o.local = e /\ o.ref = e /\ o.version = e /\ o.gitPath = e
  BY Zenon DEF NoLocation
<1>2. \A z : /\ z.url = e /\ z.local = e => InferSource(z) = SourceOf("none", e, e, e, e)
             /\ z.url = e /\ z.local # e => InferSource(z) = SourceOf("local", e, e, e, z.local)
             /\ z.url # e /\ z.url = "oci" =>
                  InferSource(z) = SourceOf("oci", z.url, z.ref, z.version, e)
             /\ z.url # e /\ z.url # "oci" /\ (z.gitPath # e \/ z.url = "git") =>
                  InferSource(z) =
                  SourceOf("git", z.url, e, ClassifyGitRef(IF z.ref # e THEN z.ref ELSE z.version),
                           z.gitPath)
             /\ z.url # e /\ z.url # "oci" /\ z.gitPath = e /\ z.url # "git" =>
                  InferSource(z) = SourceOf("helm", z.url, z.ref, z.version, e)
  BY InferCases, Zenon
<1>3. f = IF o.url # e \/ o.local # e \/ s.type = "none" THEN o
          ELSE [url |-> IF s.type = "local" THEN e ELSE s.url,
                ref |-> IF s.type = "git" /\ k = "refs/heads/branch" THEN k
                        ELSE IF s.type = "oci" /\ NilRef(s) = "digest" THEN "digest"
                        ELSE IF s.type \in {"oci", "helm"} THEN s.urlRef ELSE e,
                version |-> IF \/ s.type = "git" /\ k = "refs/heads/branch"
                               \/ s.type = "oci" /\ NilRef(s) = "digest" THEN e
                            ELSE IF s.type = "git" THEN k ELSE NilRef(s),
                gitPath |-> IF s.type = "git" THEN s.path ELSE e,
                local |-> IF s.type = "local" THEN s.path ELSE e]
  BY Zenon DEF FlatSource
<1>4. ClassifyGitRef(e) = "none" /\ ClassifyGitRef("refs/heads/branch") = "branch"
  BY GitRefs, Zenon
<1>5. \A t, u, ur, r, p : LET q == SourceOf(t, u, ur, r, p) IN
        q.type = t /\ q.url = u /\ q.urlRef = ur /\ q.ref = r /\ q.path = p
  BY DEF SourceOf
<1>6. "refs/heads/branch" # e
  BY Zenon DEF e
<1> HIDE DEF e, o, f, SourceOf
<1>7. CASE at.url = e /\ at.local = e
  <2>1. s = SourceOf("none", e, e, e, e)
    BY <1>2, <1>7
  <2>2. f = o
    BY <1>3, <1>5, <2>1
  <2>3. InferSource(o) = SourceOf("none", e, e, e, e)
    BY <1>1, <1>2
  <2> QED BY <2>1, <2>2, <2>3, Zenon DEF f, o
<1>8. CASE at.url = e /\ at.local # e
  <2>1. s = SourceOf("local", e, e, e, at.local)
    BY <1>2, <1>8
  <2>2. s.type = "local" /\ s.path = at.local
    BY <1>5, <2>1
  <2> HIDE DEF s, k
  <2>3. f.url = e /\ f.local = at.local
    BY <1>1, <1>3, <2>2
  <2>4. InferSource(f) = SourceOf("local", e, e, e, at.local)
    BY <1>2, <1>8, <2>3
  <2> QED BY <2>1, <2>4, Zenon DEF f, o, s
<1>9. CASE at.url # e /\ at.url = "oci"
  <2>1. s = SourceOf("oci", at.url, at.ref, at.version, e)
    BY <1>2, <1>9
  <2>2. s.type = "oci" /\ s.url = at.url /\ s.urlRef = at.ref /\ s.ref = at.version
    BY <1>5, <2>1
  <2>3. NilRef(s) = at.version
    BY <2>2 DEF NilRef
  <2> HIDE DEF s, k
  <2>4. f.url = at.url /\ f.ref = at.ref /\ f.version = at.version
    BY <1>1, <1>3, <2>2, <2>3
  <2>5. InferSource(f) = SourceOf("oci", at.url, at.ref, at.version, e)
    BY <1>2, <1>9, <2>4
  <2> QED BY <2>1, <2>5, Zenon DEF f, o, s
<1>10. CASE at.url # e /\ at.url # "oci" /\ (at.gitPath # e \/ at.url = "git")
  <2>1. s = SourceOf("git", at.url, e, x, at.gitPath)
    BY <1>2, <1>10
  <2>2. s.type = "git" /\ s.url = at.url /\ s.ref = x /\ s.path = at.gitPath
    BY <1>5, <2>1
  <2>3. NilRef(s) = IF x = "none" THEN "nil" ELSE x
    BY <2>2 DEF NilRef
  <2>4. ClassifyGitRef(k) = x
    BY <2>3, RefAgain
  <2> HIDE DEF s, k, x
  <2>5. /\ f.url = at.url /\ f.gitPath = at.gitPath
        /\ f.ref = IF k = "refs/heads/branch" THEN k ELSE e
        /\ f.version = IF k = "refs/heads/branch" THEN e ELSE k
    BY <1>1, <1>3, <2>2
  <2>6. (IF f.ref # e THEN f.ref ELSE f.version) = k
    BY <1>6, <2>5
  <2>7. InferSource(f) = SourceOf("git", at.url, e, x, at.gitPath)
    BY <1>2, <1>10, <2>4, <2>5, <2>6
  <2> QED BY <2>1, <2>7, Zenon DEF f, o, s
<1>11. CASE at.url # e /\ at.url # "oci" /\ at.gitPath = e /\ at.url # "git"
  <2>1. s = SourceOf("helm", at.url, at.ref, at.version, e)
    BY <1>2, <1>11
  <2>2. s.type = "helm" /\ s.url = at.url /\ s.urlRef = at.ref /\ s.ref = at.version
    BY <1>5, <2>1
  <2>3. NilRef(s) = at.version
    BY <2>2 DEF NilRef
  <2> HIDE DEF s, k
  <2>4. f.url = at.url /\ f.ref = at.ref /\ f.version = at.version /\ f.gitPath = e
    BY <1>1, <1>3, <2>2, <2>3
  <2>5. InferSource(f) = SourceOf("helm", at.url, at.ref, at.version, e)
    BY <1>2, <1>11, <2>4
  <2> QED BY <2>1, <2>5, Zenon DEF f, o, s
<1> QED BY <1>7, <1>8, <1>9, <1>10, <1>11

\* What is written of a generic package, field by field.
LEMMA FromFields ==
    ASSUME NEW k
    PROVE  LET w == AlphaFromGeneric(k)
               c == k.component
               d == w.component IN
           /\ w.override = k.override
           /\ w.kind = (IF c.service # "" THEN "ZarfInitConfig"
                        ELSE IF k.kind = "" THEN "ZarfPackageConfig" ELSE k.kind)
           /\ d = AlphaComponentFromGeneric(c)
           /\ d.required = RequiredFromGeneric(c) /\ d.import = AlphaImportFromGeneric(c.import)
           /\ d.health = c.health /\ d.repo = AlphaReposFromGeneric(c.repo)
           /\ d.chart = AlphaChartFromGeneric(c.chart)
           /\ d.manifest = AlphaManifestFromGeneric(c.manifest)
           /\ d.after = c.actions.after /\ d.success = c.actions.success
<1> DEFINE w == AlphaFromGeneric(k)
           c == k.component
           d == AlphaComponentFromGeneric(c)
<1>1. /\ w.override = k.override
      /\ w.kind = (IF c.service # "" THEN "ZarfInitConfig"
                   ELSE IF k.kind = "" THEN "ZarfPackageConfig" ELSE k.kind)
      /\ w.component = d
  BY Zenon DEF AlphaFromGeneric, AlphaMetadataFromGeneric
<1>2. d = [name |-> c.name, copied |-> c.copied, image |-> c.image.name,
         required |-> RequiredFromGeneric(c), import |-> AlphaImportFromGeneric(c.import),
         health |-> c.health, scripts |-> c.scripts, removed |-> c.removed,
         repo |-> AlphaReposFromGeneric(c.repo), chart |-> AlphaChartFromGeneric(c.chart),
         manifest |-> AlphaManifestFromGeneric(c.manifest),
         onCreate |-> c.actions.onCreate, before |-> c.actions.before,
         after |-> c.actions.after, success |-> c.actions.success]
  BY ComponentFrom
<1> HIDE DEF d
<1>3. /\ d.required = RequiredFromGeneric(c) /\ d.import = AlphaImportFromGeneric(c.import)
      /\ d.health = c.health /\ d.repo = AlphaReposFromGeneric(c.repo)
      /\ d.chart = AlphaChartFromGeneric(c.chart)
      /\ d.manifest = AlphaManifestFromGeneric(c.manifest)
      /\ d.after = c.actions.after /\ d.success = c.actions.success
  BY <1>2
<1> HIDE DEF w, c
<1> QED BY <1>1, <1>3, Zenon DEF d, w, c

LEMMA ChartFromFields ==
    ASSUME NEW h
    PROVE  LET w == AlphaChartFromGeneric(h) IN
           /\ w.at = AlphaSourceFromGeneric(h) /\ w.schema = SchemaFromGeneric(h)
           /\ w.plain = PathsOf(h.values, DOMAIN h.values \ Templated(h.values))
           /\ w.templated = PathsOf(h.values, Templated(h.values))
BY DEF AlphaChartFromGeneric, Templated

LEMMA NothingAdded ==
    ASSUME NEW s, ActionList(s)
    PROVE  s \o RunAll(<<>>) = s
<1>1. IsList(s)
  BY DEF ActionList
<1> QED BY <1>1, NothingToRun, ConcatEmpty

\* The package that the author wrote, as deploy sees it.
LEMMA AuthoredIs ==
    ASSUME NEW a, AlphaOK(a), a.migrations = {}, a.component.scripts = NoScripts
    PROVE  LET x == AlphaFromGeneric(AlphaToGeneric(MigrateDeprecated(a)))
               c == a.component
               d == x.component IN
           /\ x.override = a.override
           /\ x.kind = (IF a.kind = "" THEN "ZarfPackageConfig" ELSE a.kind)
           /\ d.required = c.required /\ d.import = c.import /\ d.health = c.health
           /\ d.repo = c.repo /\ d.chart = c.chart /\ d.manifest = c.manifest
           /\ d.after = Plural(c.after) /\ d.success = Plural(c.success)
<1> DEFINE m == MigrateDeprecated(a)
           g == AlphaToGeneric(m)
           x == AlphaFromGeneric(g)
           c == a.component
           y == Scripted(a)
           z == Migrated(a)
           e == ""
           l1 == c.onCreate \o RunAll(c.scripts.prepare)
           l2 == c.before \o RunAll(c.scripts.before)
           l3 == c.after \o RunAll(c.scripts.after)
<1>1. AlphaOK(m) /\ m = PackageWith(a, BothMigrations, z)
  BY MigrateIs
<1>2. m.kind = a.kind /\ m.override = a.override /\ m.component = z
  BY <1>1, PackageWithFields
<1>3. AlphaComponentOK(c) /\ AlphaComponentOK(y) /\ AlphaComponentOK(z)
  BY ScriptedFacts, MigratedFacts DEF AlphaOK
<1>4. y = With(c, c.scripts, l1, l2, l3, c.success)
  BY ScriptedFacts
<1>5. z = With(y, y.scripts, Plural(y.onCreate), Plural(y.before), Plural(y.after), Plural(y.success))
  BY MigratedFacts
<1>6. g.kind = m.kind /\ g.override = m.override /\ g.component.service = e
  BY AlphaGenericIs, Zenon
<1>7. g.component = AlphaComponentToGeneric(m.component)
  BY DEF AlphaToGeneric
<1>8. /\ x.override = g.override
      /\ x.kind = (IF g.component.service # e THEN "ZarfInitConfig"
                   ELSE IF g.kind = e THEN "ZarfPackageConfig" ELSE g.kind)
      /\ x.component = AlphaComponentFromGeneric(g.component)
  BY FromFields, Zenon
<1>9. c.scripts = NoScripts
  OBVIOUS
<1> HIDE DEF m, g, x, c, y, z, e, l1, l2, l3
<1>10. x.component = z
  BY <1>2, <1>3, <1>7, <1>8, ComponentRoundTrip
<1>11. x.override = a.override /\ x.kind = (IF a.kind = e THEN "ZarfPackageConfig" ELSE a.kind)
  BY <1>2, <1>6, <1>8
<1>12. /\ y.required = c.required /\ y.import = c.import /\ y.health = c.health
       /\ y.repo = c.repo /\ y.chart = c.chart /\ y.manifest = c.manifest
       /\ y.after = l3 /\ y.success = c.success
  BY <1>4, WithFields
<1>13. /\ z.required = y.required /\ z.import = y.import /\ z.health = y.health
       /\ z.repo = y.repo /\ z.chart = y.chart /\ z.manifest = y.manifest
       /\ z.after = Plural(y.after) /\ z.success = Plural(y.success)
  BY <1>5, WithFields
<1>14. y.after = c.after
  <2>1. ActionList(c.after) /\ c.scripts.after = <<>>
    BY <1>3, <1>9, NoScriptsOK DEF AlphaComponentOK
  <2> QED BY <1>12, <2>1, NothingAdded DEF l3
<1> QED BY <1>10, <1>11, <1>12, <1>13, <1>14, Zenon DEF x, g, m, c, e

\* The upgraded package, as deploy sees it.
LEMMA UpgradedIs ==
    ASSUME NEW a, AlphaOK(a), IsList(a.component.health), a.component.chart.at.version # "digest"
    PROVE  LET g == AlphaToGeneric(a)
               x == AlphaFromGeneric(BetaToGeneric(BetaFromGeneric(g)))
               c == a.component
               d == x.component IN
           /\ x.override = "false" <=> a.override = "false"
           /\ x.kind = (IF a.kind = "ZarfInitConfig" /\ c.name = "zarf-registry"
                        THEN "ZarfInitConfig" ELSE "ZarfPackageConfig")
           /\ IsTrue(d.required) <=> IsTrue(c.required)
           /\ d.import = c.import /\ d.health = <<>>
           /\ ClassifyGitRef(d.repo.ref) = ClassifyGitRef(c.repo.ref)
           /\ InferSource(d.chart.at) = InferSource(c.chart.at)
           /\ d.chart.plain = c.chart.plain /\ d.chart.templated = c.chart.templated
           /\ d.chart.schema = "false" <=> c.chart.schema = "false"
           /\ IsTrue(d.manifest.template) <=> IsTrue(c.manifest.template)
           /\ d.after = <<>>
           /\ d.success = Filled(Bare(c.after \o c.success)) \o HealthCheckWaits(g.component)
<1> DEFINE g == AlphaToGeneric(a)
           b == BetaFromGeneric(g)
           h == BetaToGeneric(b)
           x == AlphaFromGeneric(h)
           c == a.component
           p == g.component
           q == b.component
           r == h.component
           d == x.component
           e == ""
<1>1. AlphaChartOK(c.chart)
  BY DEF AlphaOK, AlphaComponentOK
<1>2. /\ g.kind = a.kind /\ g.override = a.override /\ (g.prevent <=> a.override = "false")
      /\ g.original = "v1alpha1"
      /\ p.name = c.name /\ p.service = e /\ p.required = c.required
      /\ p.optional <=> ~IsTrue(c.required)
      /\ p.import.path = c.import /\ p.import.local = <<>>
      /\ p.repo.urlRef = c.repo.ref /\ p.repo.ref = "nil"
      /\ p.chart.at = c.chart.at /\ p.chart.source = NoSource
      /\ p.chart.values = AlphaValuesFilesToGeneric(c.chart.plain, c.chart.templated)
      /\ p.chart.schema = c.chart.schema /\ (p.chart.skipSchema <=> c.chart.schema = "false")
      /\ p.manifest.template = c.manifest.template
      /\ p.manifest.templating <=> IsTrue(c.manifest.template)
      /\ p.actions.after = c.after /\ p.actions.success = c.success
  BY AlphaGenericIs, Zenon
<1>3. /\ b.kind = "ZarfPackageConfig"
      /\ b.prevent <=> (IF g.override # "unset" THEN g.override = "false" ELSE g.prevent)
  BY BetaMetadataIs, Zenon
<1>4. /\ q.service = (IF p.service # e THEN p.service
                      ELSE IF g.kind = "ZarfInitConfig" /\ p.name = "zarf-registry"
                           THEN "registry" ELSE e)
      /\ q.import = BetaImportFromGeneric(p.import)
      /\ q.repo = BetaRepositoriesFromGeneric(p.repo)
      /\ q.chart = BetaChartFromGeneric(p.chart)
      /\ q.manifest = BetaManifestFromGeneric(p.manifest)
      /\ q.success = Upgraded(g, Bare(p.actions.after \o p.actions.success)) \o HealthCheckWaits(p)
  BY BetaComponentIs, Zenon
<1>5. q.optional <=> OptionalFromGeneric(p)
  <2>1. q.optional = OptionalFromGeneric(p)
    BY BetaComponentIs, Zenon
  <2> HIDE DEF q, p
  <2> QED BY <2>1, Zenon
<1>6. h.override = Bool(~b.prevent)
  BY Zenon DEF BetaToGeneric
<1>7. h.kind = b.kind /\ r = BetaComponentToGeneric(q)
  BY DEF BetaToGeneric
<1>8. ASSUME NEW k
      PROVE  LET t == BetaComponentToGeneric(k) IN
             /\ t.service = k.service /\ t.required = "unset"
             /\ t.health = <<>> /\ t.repo = BetaRepositoriesToGeneric(k.repo)
             /\ t.chart = BetaChartToGeneric(k.chart)
             /\ t.manifest.template = "unset"
             /\ t.actions = BetaActionsToGeneric(k)
  BY DEF BetaComponentToGeneric
<1>8a. ASSUME NEW k
       PROVE  LET t == BetaComponentToGeneric(k) IN t.import.local = k.import /\ t.import.path = e
  BY Zenon DEF BetaComponentToGeneric
<1>9. ASSUME NEW k
      PROVE  LET t == BetaComponentToGeneric(k) IN
             (t.optional <=> k.optional) /\ (t.manifest.templating <=> k.manifest.templating)
  <2> DEFINE t == BetaComponentToGeneric(k)
  <2>1. t.optional = k.optional /\ t.manifest.templating = k.manifest.templating
    BY Zenon DEF BetaComponentToGeneric
  <2> HIDE DEF t
  <2> QED BY <2>1, Zenon DEF t
<1>10. /\ x.override = h.override
       /\ x.kind = (IF r.service # e THEN "ZarfInitConfig"
                    ELSE IF h.kind = e THEN "ZarfPackageConfig" ELSE h.kind)
       /\ d.required = RequiredFromGeneric(r) /\ d.import = AlphaImportFromGeneric(r.import)
       /\ d.health = r.health /\ d.repo = AlphaReposFromGeneric(r.repo)
       /\ d.chart = AlphaChartFromGeneric(r.chart)
       /\ d.manifest = AlphaManifestFromGeneric(r.manifest)
       /\ d.after = r.actions.after /\ d.success = r.actions.success
  BY FromFields, Zenon
<1>11. "registry" # e /\ "ZarfPackageConfig" # e
  BY Zenon
<1> HIDE DEF g, b, h, x, c, p, q, r, d, e
<1>12. /\ r.service = q.service /\ r.required = "unset" /\ r.health = <<>>
       /\ r.repo = BetaRepositoriesToGeneric(q.repo) /\ r.chart = BetaChartToGeneric(q.chart)
       /\ r.manifest.template = "unset" /\ r.actions = BetaActionsToGeneric(q)
       /\ r.import.local = q.import /\ r.import.path = e
       /\ (r.optional <=> q.optional) /\ (r.manifest.templating <=> q.manifest.templating)
  BY <1>7, <1>8, <1>8a, <1>9
<1>13. x.override = "false" <=> a.override = "false"
  <2>1. b.prevent <=> a.override = "false"
    BY <1>2, <1>3
  <2>2. x.override = Bool(~b.prevent)
    BY <1>6, <1>10
  <2> QED BY <2>1, <2>2 DEF Bool
<1>14. x.kind = (IF a.kind = "ZarfInitConfig" /\ c.name = "zarf-registry"
                 THEN "ZarfInitConfig" ELSE "ZarfPackageConfig")
  BY <1>2, <1>3, <1>4, <1>7, <1>10, <1>11, <1>12
<1>15. IsTrue(d.required) <=> IsTrue(c.required)
  <2>1. OptionalFromGeneric(p) <=> ~IsTrue(c.required)
    BY <1>2 DEF OptionalFromGeneric
  <2>2. r.optional <=> ~IsTrue(c.required)
    BY <1>5, <1>12, <2>1
  <2> QED BY <1>10, <1>12, <2>2 DEF RequiredFromGeneric, IsTrue
<1>16. d.import = c.import
  <2>1. q.import = IF p.import.local = <<>> /\ p.import.path # e THEN <<p.import.path>> ELSE p.import.local
    BY <1>4, Zenon DEF BetaImportFromGeneric, e
  <2>2. d.import = IF r.import.path = e /\ r.import.local # <<>> THEN r.import.local[1] ELSE r.import.path
    BY <1>10, Zenon DEF AlphaImportFromGeneric, e
  <2>3. <<c.import>>[1] = c.import /\ <<c.import>> # <<>>
    OBVIOUS
  <2>4. q.import = IF c.import # e THEN <<c.import>> ELSE <<>>
    BY <1>2, <2>1
  <2> QED BY <1>12, <2>2, <2>3, <2>4
<1>17. ClassifyGitRef(d.repo.ref) = ClassifyGitRef(c.repo.ref)
  <2> DEFINE u == c.repo.ref
             k == ClassifyGitRef(u)
  <2>1. q.repo = IF p.repo.ref # "nil" \/ p.repo.urlRef = e THEN p.repo
                 ELSE [url |-> p.repo.url, urlRef |-> e, ref |-> ClassifyGitRef(p.repo.urlRef)]
    BY <1>4, Zenon DEF BetaRepositoriesFromGeneric, e
  <2>2. r.repo.urlRef = q.repo.urlRef /\ r.repo.ref = q.repo.ref
    BY <1>12, RepoFields
  <2>3. d.repo.ref = IF r.repo.ref \in {"nil", "none"} THEN r.repo.urlRef ELSE FlattenGitRef(r.repo.ref)
    <3>1. AlphaReposFromGeneric(r.repo) =
            [url |-> r.repo.url,
             ref |-> IF r.repo.ref \in {"nil", "none"} THEN r.repo.urlRef ELSE FlattenGitRef(r.repo.ref)]
      BY RepoFields
    <3> QED BY <1>10, <3>1
  <2>4. k \in {"none", "tag", "commit", "branch"} /\ (u # e => k # "none")
    BY GitRefs, Zenon DEF e
  <2>5. ClassifyGitRef(FlattenGitRef(k)) = k
    BY RefAgain
  <2> HIDE DEF k
  <2>6. CASE u = e
    BY <1>2, <2>1, <2>2, <2>3, <2>6
  <2>7. CASE u # e
    <3>1. r.repo.ref = k
      BY <1>2, <2>1, <2>2, <2>7 DEF k
    <3>2. d.repo.ref = FlattenGitRef(k)
      BY <2>3, <2>4, <2>7, <3>1
    <3> QED BY <2>5, <3>2 DEF k
  <2> QED BY <2>6, <2>7
<1>18. /\ q.chart.values = p.chart.values
       /\ q.chart.skipSchema <=> (p.chart.skipSchema \/ p.chart.schema = "false")
       /\ q.chart.source = InferSource(c.chart.at)
  <2>1. NoSource.type = "none"
    BY DEF NoSource
  <2>2. LET s == p.chart
            t == q.chart IN
        /\ t.values = s.values
        /\ t.skipSchema <=> (s.skipSchema \/ s.schema = "false")
        /\ t.source = IF s.source.type = "none" THEN InferSource(s.at)
                      ELSE [s.source EXCEPT !.ref = NoneRef(s.source)]
    BY <1>4, BetaChartFields
  <2> QED BY <1>2, <2>1, <2>2
<1>19. /\ r.chart.at = NoLocation /\ r.chart.values = q.chart.values /\ r.chart.schema = "unset"
       /\ r.chart.skipSchema <=> q.chart.skipSchema
       /\ r.chart.source = [q.chart.source EXCEPT !.ref = NilRef(q.chart.source)]
  BY <1>12, GenericChartFields
<1>20. /\ d.chart.at = AlphaSourceFromGeneric(r.chart) /\ d.chart.schema = SchemaFromGeneric(r.chart)
       /\ d.chart.plain = PathsOf(r.chart.values, DOMAIN r.chart.values \ Templated(r.chart.values))
       /\ d.chart.templated = PathsOf(r.chart.values, Templated(r.chart.values))
  BY <1>10, ChartFromFields
<1>21. InferSource(d.chart.at) = InferSource(c.chart.at)
  <2> DEFINE s == InferSource(c.chart.at)
             t == r.chart.source
  <2>1. SourceFields \subseteq DOMAIN s
    BY InferFields
  <2>2. InferSource(FlatSource(NoLocation, s.type, s.url, s.urlRef, NilRef(s), s.path)) = s
    BY SourceAgain DEF c
  <2>3. t = [s EXCEPT !.ref = NilRef(s)]
    BY <1>18, <1>19
  <2> HIDE DEF s, t
  <2>4. t.type = s.type /\ t.url = s.url /\ t.urlRef = s.urlRef /\ t.ref = NilRef(s) /\ t.path = s.path
    BY <2>1, <2>3 DEF SourceFields
  <2>5. AlphaSourceFromGeneric(r.chart) = FlatSource(r.chart.at, t.type, t.url, t.urlRef, t.ref, t.path)
    BY SourceIs DEF t
  <2>6. d.chart.at = FlatSource(NoLocation, s.type, s.url, s.urlRef, NilRef(s), s.path)
    BY <1>19, <1>20, <2>4, <2>5
  <2> QED BY <2>2, <2>6 DEF s
<1>22. d.chart.plain = c.chart.plain /\ d.chart.templated = c.chart.templated
  BY <1>1, <1>2, <1>18, <1>19, <1>20, SplitInverts DEF AlphaChartOK
<1>23. d.chart.schema = "false" <=> c.chart.schema = "false"
  BY <1>2, <1>18, <1>19, <1>20 DEF SchemaFromGeneric
<1>24. IsTrue(d.manifest.template) <=> IsTrue(c.manifest.template)
  <2>1. q.manifest.templating <=> (p.manifest.templating \/ IsTrue(p.manifest.template))
    BY <1>4, BetaManifestFields
  <2>2. d.manifest.template = TemplateFromGeneric(r.manifest)
    BY <1>10 DEF AlphaManifestFromGeneric
  <2> QED BY <1>2, <1>12, <2>1, <2>2 DEF TemplateFromGeneric, IsTrue
<1>25. /\ d.after = <<>> /\ d.health = <<>>
       /\ d.success = Filled(Bare(c.after \o c.success)) \o HealthCheckWaits(p)
  <2>1. r.actions.after = <<>> /\ r.actions.success = q.success
    BY <1>12 DEF BetaActionsToGeneric
  <2>2. \A s : Upgraded(g, s) = Filled(s)
    BY <1>2 DEF Upgraded
  <2>3. q.success = Filled(Bare(c.after \o c.success)) \o HealthCheckWaits(p)
    BY <1>2, <1>4, <2>2, Zenon
  <2> QED BY <1>10, <1>12, <2>1, <2>3, Zenon
<1> QED BY <1>13, <1>14, <1>15, <1>16, <1>17, <1>21, <1>22, <1>23, <1>24, <1>25, Zenon
        DEF g, b, h, x, c, p, d

\* What can be seen of actions when they run.
Seen(a) == [cmd |-> a.cmd, wait |-> EffectiveWait(a.wait), ns |-> a.ns]
Shown(s) == [i \in DOMAIN s |-> Seen(s[i])]

Checked(s, w) == [i \in DOMAIN s |-> [cmd |-> "", wait |-> w, ns |-> s[i]]]

LEMMA OrderIs ==
    ASSUME NEW c
    PROVE  DeployOrder(c) = Shown(c.after) \o Checked(c.health, "ready") \o Shown(c.success)
BY Zenon DEF DeployOrder, Steps, Checks, MapSeq, Shown, Seen, Checked

LEMMA StepsIs ==
    ASSUME NEW s, NEW w
    PROVE  Steps(s) = Shown(s) /\ Checks(s, w) = Checked(s, w)
BY Zenon DEF Steps, Checks, MapSeq, Shown, Seen, Checked

LEMMA ShownFacts ==
    ASSUME NEW s, IsList(s)
    PROVE  /\ IsList(Shown(s)) /\ Len(Shown(s)) = Len(s)
           /\ \A i \in 1 .. Len(s) : Shown(s)[i] = Seen(s[i])
<1>1. Shown(s) = [i \in DOMAIN s |-> Shown(s)[i]]
  BY DEF Shown
<1>2. IsList(Shown(s)) /\ Len(Shown(s)) = Len(s) /\ DOMAIN s = 1 .. Len(s)
  BY <1>1, MapList
<1> QED BY <1>2 DEF Shown

LEMMA PluralSeen ==
    ASSUME NEW s, ActionList(s)
    PROVE  /\ ActionList(Plural(s)) /\ Len(Plural(s)) = Len(s)
           /\ \A i \in 1 .. Len(s) : Seen(Plural(s)[i]) = Seen(s[i])
<1>1. ActionList(Plural(s)) /\ Len(Plural(s)) = Len(s)
  BY PluralFacts, Zenon
<1>2. \A i \in 1 .. Len(s) : /\ Plural(s)[i].cmd = s[i].cmd
                             /\ Plural(s)[i].wait = s[i].wait /\ Plural(s)[i].ns = s[i].ns
  BY PluralFacts, Zenon
<1> QED BY <1>1, <1>2 DEF Seen

LEMMA UpgradedSeen ==
    ASSUME NEW s, ActionList(s)
    PROVE  /\ ActionList(Filled(Bare(s))) /\ Len(Filled(Bare(s))) = Len(s)
           /\ \A i \in 1 .. Len(s) : Seen(Filled(Bare(s))[i]) = Seen(s[i])
<1> DEFINE b == Bare(s)
           f == Filled(b)
<1>1. /\ BareList(b) /\ Len(b) = Len(s)
      /\ \A i \in 1 .. Len(s) : b[i].cmd = s[i].cmd /\ b[i].wait = s[i].wait /\ b[i].ns = s[i].ns
  BY BareFacts, Zenon
<1> HIDE DEF b
<1>2. /\ BareList(f) /\ Len(f) = Len(b)
      /\ \A i \in 1 .. Len(b) : /\ f[i].cmd = b[i].cmd /\ f[i].ns = b[i].ns
                                /\ EffectiveWait(f[i].wait) = EffectiveWait(b[i].wait)
  BY <1>1, FilledFacts, Zenon
<1>3. ActionList(f)
  BY <1>2, Zenon DEF BareList
<1> HIDE DEF f
<1>4. \A i \in 1 .. Len(s) : Seen(f[i]) = Seen(s[i])
  BY <1>1, <1>2 DEF Seen
<1> QED BY <1>1, <1>2, <1>3, <1>4 DEF f, b

LEMMA ShownConcat ==
    ASSUME NEW s, IsList(s), NEW t, IsList(t)
    PROVE  Shown(s \o t) = Shown(s) \o Shown(t)
<1> DEFINE u == s \o t
           x == Shown(u)
           v == Shown(s)
           w == Shown(t)
           y == v \o w
<1>1. Len(s) \in Nat /\ Len(t) \in Nat
  BY ListDomain
<1>2. /\ IsList(u) /\ Len(u) = Len(s) + Len(t)
      /\ \A i \in 1 .. Len(s) : u[i] = s[i]
      /\ \A i \in 1 .. Len(u) : i > Len(s) => i - Len(s) \in 1 .. Len(t) /\ u[i] = t[i - Len(s)]
  BY ConcatList
<1> HIDE DEF u
<1>3. IsList(x) /\ Len(x) = Len(u) /\ \A i \in 1 .. Len(u) : x[i] = Seen(u[i])
  BY <1>2, ShownFacts
<1>4. /\ IsList(v) /\ Len(v) = Len(s) /\ \A i \in 1 .. Len(s) : v[i] = Seen(s[i])
      /\ IsList(w) /\ Len(w) = Len(t) /\ \A i \in 1 .. Len(t) : w[i] = Seen(t[i])
  BY ShownFacts
<1> HIDE DEF x, v, w
<1>5. /\ IsList(y) /\ Len(y) = Len(v) + Len(w)
      /\ \A i \in 1 .. Len(v) : y[i] = v[i]
      /\ \A i \in 1 .. Len(y) : i > Len(v) => i - Len(v) \in 1 .. Len(w) /\ y[i] = w[i - Len(v)]
  BY <1>4, ConcatList
<1> HIDE DEF y
<1>6. Len(x) = Len(y)
  BY <1>2, <1>3, <1>4, <1>5
<1>7. ASSUME NEW i \in 1 .. Len(x) PROVE x[i] = y[i]
  <2>1. i \in Int /\ i >= 1 /\ i <= Len(s) + Len(t) /\ i \in 1 .. Len(u) /\ i \in 1 .. Len(y)
    BY <1>1, <1>2, <1>3, <1>6
  <2>2. CASE i <= Len(s)
    <3>1. i \in 1 .. Len(s) /\ i \in 1 .. Len(v)
      BY <1>1, <1>4, <2>1, <2>2
    <3> QED BY <1>2, <1>3, <1>4, <1>5, <2>1, <3>1
  <2>3. CASE i > Len(s)
    <3>1. i - Len(s) \in 1 .. Len(t) /\ u[i] = t[i - Len(s)]
      BY <1>2, <2>1, <2>3
    <3>2. y[i] = w[i - Len(s)]
      BY <1>4, <1>5, <2>1, <2>3
    <3> QED BY <1>3, <1>4, <2>1, <3>1, <3>2
  <2> QED BY <1>1, <2>1, <2>2, <2>3
<1>8. x = y
  BY <1>3, <1>5, <1>6, <1>7, SameList
<1> QED BY <1>8 DEF x, y, u, v, w

\* What is seen of the author's lists, of the migrated ones and of the upgraded
\* ones is the same.
LEMMA PluralShown ==
    ASSUME NEW s, ActionList(s)
    PROVE  IsList(Plural(s)) /\ Shown(Plural(s)) = Shown(s)
<1> DEFINE p == Plural(s)
<1>1. ActionList(p) /\ Len(p) = Len(s) /\ \A i \in 1 .. Len(s) : Seen(p[i]) = Seen(s[i])
  BY PluralSeen
<1>2. IsList(s) /\ IsList(p)
  BY <1>1 DEF ActionList
<1> HIDE DEF p
<1>3. /\ IsList(Shown(p)) /\ Len(Shown(p)) = Len(p) /\ \A i \in 1 .. Len(p) : Shown(p)[i] = Seen(p[i])
      /\ IsList(Shown(s)) /\ Len(Shown(s)) = Len(s) /\ \A i \in 1 .. Len(s) : Shown(s)[i] = Seen(s[i])
  BY <1>2, ShownFacts
<1>4. Shown(p) = Shown(s)
  BY <1>1, <1>3, SameList
<1> QED BY <1>2, <1>4 DEF p

LEMMA FilledShown ==
    ASSUME NEW s, ActionList(s)
    PROVE  IsList(Filled(Bare(s))) /\ Shown(Filled(Bare(s))) = Shown(s)
<1> DEFINE p == Filled(Bare(s))
<1>1. ActionList(p) /\ Len(p) = Len(s) /\ \A i \in 1 .. Len(s) : Seen(p[i]) = Seen(s[i])
  BY UpgradedSeen
<1>2. IsList(s) /\ IsList(p)
  BY <1>1 DEF ActionList
<1> HIDE DEF p
<1>3. /\ IsList(Shown(p)) /\ Len(Shown(p)) = Len(p) /\ \A i \in 1 .. Len(p) : Shown(p)[i] = Seen(p[i])
      /\ IsList(Shown(s)) /\ Len(Shown(s)) = Len(s) /\ \A i \in 1 .. Len(s) : Shown(s)[i] = Seen(s[i])
  BY <1>2, ShownFacts
<1>4. Shown(p) = Shown(s)
  BY <1>1, <1>3, SameList
<1> QED BY <1>2, <1>4 DEF p

\* A health check is seen as a wait for existence.
LEMMA HealthShown ==
    ASSUME NEW c, IsList(c.health)
    PROVE  IsList(HealthCheckWaits(c)) /\ Shown(HealthCheckWaits(c)) = Checked(c.health, "exists")
<1> DEFINE h == c.health
           t == HealthCheckWaits(c)
           x == Shown(t)
           y == Checked(h, "exists")
           e == ""
<1>1. t = [i \in DOMAIN h |-> [cmd |-> e, wait |-> e, ns |-> h[i], setVar |-> e, setVars |-> {}]]
  BY Zenon DEF HealthCheckWaits, MapSeq
<1>2. EffectiveWait(e) = "exists"
  BY DEF EffectiveWait
<1>3. y = [i \in DOMAIN h |-> [cmd |-> e, wait |-> "exists", ns |-> h[i]]]
  BY Zenon DEF Checked
<1> HIDE DEF e, t, h
<1>4. IsList(t) /\ Len(t) = Len(h) /\ DOMAIN h = 1 .. Len(h)
  BY <1>1, MapList DEF h
<1>5. \A i \in 1 .. Len(h) : t[i].cmd = e /\ t[i].wait = e /\ t[i].ns = h[i]
  BY <1>1, <1>4
<1>6. IsList(x) /\ Len(x) = Len(h) /\ \A i \in 1 .. Len(h) : x[i] = Seen(t[i])
  BY <1>4, ShownFacts
<1>7. IsList(y) /\ Len(y) = Len(h)
  BY <1>3, MapList DEF h
<1>8. \A i \in 1 .. Len(h) : y[i] = [cmd |-> e, wait |-> "exists", ns |-> h[i]]
  BY <1>3, <1>4
<1> HIDE DEF x, y
<1>9. \A i \in 1 .. Len(h) : x[i] = y[i]
  BY <1>2, <1>5, <1>6, <1>8, ZenonT(40) DEF Seen
<1>10. x = y
  BY <1>6, <1>7, <1>9, SameList
<1> QED BY <1>4, <1>10 DEF x, y, t, h

LEMMA NothingShown == Shown(<<>>) = <<>> /\ \A w : Checked(<<>>, w) = <<>>
<1>1. \A f : DOMAIN f = {} /\ f = [i \in {} |-> f[i]] => f = <<>>
  <2> SUFFICES ASSUME NEW f, f = [i \in DOMAIN <<>> |-> f[i]] PROVE f = <<>>
    BY EmptyList
  <2>1. IsList(f) /\ Len(f) = 0
    BY EmptyList, MapList
  <2> QED BY <2>1, EmptyList, SameList
<1>2. DOMAIN Shown(<<>>) = {} /\ Shown(<<>>) = [i \in {} |-> Shown(<<>>)[i]]
  BY EmptyList DEF Shown
<1>3. \A w : DOMAIN Checked(<<>>, w) = {} /\ Checked(<<>>, w) = [i \in {} |-> Checked(<<>>, w)[i]]
  BY EmptyList DEF Checked
<1> QED BY <1>1, <1>2, <1>3

\* The component of an init package is one that Zarf knows by its name: v1beta1
\* tells an init package by the service of such a component.
InitIsKnown ==
    \A a \in AlphaPackages : a.kind = "ZarfInitConfig" => a.component.name = "zarf-registry"

LEMMA AuthoredKind ==
    ASSUME InitIsKnown, NEW a \in AlphaPackages
    PROVE  /\ AlphaOK(a) /\ IsList(a.component.health) /\ a.migrations = {}
           /\ a.component.chart.at.version # "digest"
           /\ a.kind \in {"", "ZarfPackageConfig", "ZarfInitConfig"}
           /\ a.kind = "ZarfInitConfig" => a.component.name = "zarf-registry"
<1> DEFINE A == {"", "v1alpha1"}
           K == {"", "ZarfPackageConfig", "ZarfInitConfig"}
<1>1. AlphaPackage =
        [api : A, kind : K, copied : STRING, url : STRING, note : STRING, override : OptionalBool,
         checksum : STRING, signed : OptionalBool, provenance : SUBSET STRING,
         requirements : SUBSET STRING, migrations : SUBSET STRING, component : AlphaComponent]
  BY Zenon DEF AlphaPackage
<1> HIDE DEF A, K
<1>2. a \in AlphaPackage
  BY DefinitionAssumption
<1>3. a.kind \in K
  BY <1>1, <1>2
<1>4. AlphaOK(a) /\ IsList(a.component.health)
  BY <1>2, AlphaPackageOK
<1>5. /\ a.migrations = {} /\ a.component.chart.at.version # "digest"
      /\ a.kind = "ZarfInitConfig" => a.component.name = "zarf-registry"
  BY DefinitionAssumption DEF InitIsKnown
<1> QED BY <1>3, <1>4, <1>5, Zenon DEF K

LEMMA MeaningSame ==
    ASSUME NEW x, NEW y, x.kind = y.kind,
           IsTrue(x.component.required) <=> IsTrue(y.component.required),
           IsTrue(x.component.manifest.template) <=> IsTrue(y.component.manifest.template),
           x.component.chart.schema = "false" <=> y.component.chart.schema = "false",
           x.override = "false" <=> y.override = "false",
           x.component.chart.plain \o x.component.chart.templated =
             y.component.chart.plain \o y.component.chart.templated,
           InferSource(x.component.chart.at) = InferSource(y.component.chart.at),
           ClassifyGitRef(x.component.repo.ref) = ClassifyGitRef(y.component.repo.ref),
           x.component.import = y.component.import
    PROVE  Meaning(x) = Meaning(y)
<1> DEFINE T(a) == IsTrue(a.component.required)
           U(a) == IsTrue(a.component.manifest.template)
           S(a) == a.component.chart.schema = "false"
           P(a) == a.override = "false"
<1>1. \A a : Meaning(a) =
        [required |-> T(a), templating |-> U(a), skipSchema |-> S(a), prevent |-> P(a),
         values |-> a.component.chart.plain \o a.component.chart.templated,
         from |-> InferSource(a.component.chart.at),
         repo |-> ClassifyGitRef(a.component.repo.ref), import |-> a.component.import,
         kind |-> a.kind]
  BY Zenon DEF Meaning, Fetched
<1>2. T(x) = T(y) /\ U(x) = U(y) /\ S(x) = S(y) /\ P(x) = P(y)
  BY DEF IsTrue
<1> HIDE DEF T, U, S, P
<1> QED BY <1>1, <1>2, Zenon

LEMMA UpgradeKept ==
    ASSUME InitIsKnown, NEW a \in AlphaPackages, a.component.scripts = NoScripts
    PROVE  LET x == AlphaFromGeneric(BetaToGeneric(BetaFromGeneric(AlphaToGeneric(a))))
               y == AlphaFromGeneric(AlphaToGeneric(MigrateDeprecated(a)))
               new == x.component
               old == y.component IN
           /\ Meaning(x) = Meaning(y)
           /\ DeployOrder(new) =
                IF old.health = <<>> THEN DeployOrder(old)
                ELSE Steps(old.after \o old.success) \o Checks(old.health, "exists")
<1> DEFINE g == AlphaToGeneric(a)
           x == AlphaFromGeneric(BetaToGeneric(BetaFromGeneric(g)))
           y == AlphaFromGeneric(AlphaToGeneric(MigrateDeprecated(a)))
           c == a.component
           d == x.component
           k == y.component
           w == HealthCheckWaits(g.component)
           e == ""
<1>1. /\ AlphaOK(a) /\ IsList(c.health) /\ a.migrations = {}
      /\ c.chart.at.version # "digest"
      /\ a.kind \in {e, "ZarfPackageConfig", "ZarfInitConfig"}
      /\ a.kind = "ZarfInitConfig" => c.name = "zarf-registry"
  BY AuthoredKind, Zenon
<1>2. /\ x.override = "false" <=> a.override = "false"
      /\ x.kind = (IF a.kind = "ZarfInitConfig" /\ c.name = "zarf-registry"
                   THEN "ZarfInitConfig" ELSE "ZarfPackageConfig")
      /\ IsTrue(d.required) <=> IsTrue(c.required)
      /\ d.import = c.import /\ d.health = <<>>
      /\ ClassifyGitRef(d.repo.ref) = ClassifyGitRef(c.repo.ref)
      /\ InferSource(d.chart.at) = InferSource(c.chart.at)
      /\ d.chart.plain = c.chart.plain /\ d.chart.templated = c.chart.templated
      /\ d.chart.schema = "false" <=> c.chart.schema = "false"
      /\ IsTrue(d.manifest.template) <=> IsTrue(c.manifest.template)
      /\ d.after = <<>> /\ d.success = Filled(Bare(c.after \o c.success)) \o w
  BY <1>1, UpgradedIs, Zenon
<1>3. /\ y.override = a.override
      /\ y.kind = (IF a.kind = e THEN "ZarfPackageConfig" ELSE a.kind)
      /\ k.required = c.required /\ k.import = c.import /\ k.health = c.health
      /\ k.repo = c.repo /\ k.chart = c.chart /\ k.manifest = c.manifest
      /\ k.after = Plural(c.after) /\ k.success = Plural(c.success)
  BY <1>1, AuthoredIs, Zenon
<1>4. g.component.health = c.health
  BY AlphaGenericIs, Zenon
<1>5. "ZarfInitConfig" # e /\ "ZarfPackageConfig" # e
  BY Zenon
<1> HIDE DEF g, x, y, c, d, k, w, e
<1>6. ActionList(c.after) /\ ActionList(c.success)
  BY <1>1 DEF AlphaOK, AlphaComponentOK, c
<1>7. IsList(c.after) /\ IsList(c.success)
  BY <1>6 DEF ActionList
<1>8. IsList(w) /\ Shown(w) = Checked(c.health, "exists")
  BY <1>1, <1>4, HealthShown DEF w
<1> DEFINE f == Filled(Bare(c.after \o c.success))
           p == Plural(c.after)
           q == Plural(c.success)
           st == Shown(c.after \o c.success)
<1>9. IsList(f) /\ Shown(f) = st
  BY <1>6, ConcatActions, FilledShown
<1>10. st = Shown(c.after) \o Shown(c.success)
  BY <1>7, ShownConcat
<1>11. IsList(p) /\ IsList(q) /\ Shown(p) = Shown(c.after) /\ Shown(q) = Shown(c.success)
  BY <1>6, PluralShown
<1>12. DeployOrder(d) = st \o Checked(c.health, "exists")
  <2>1. d.after = <<>> /\ d.health = <<>> /\ d.success = f \o w
    BY <1>2 DEF f
  <2> HIDE DEF f
  <2>2. IsList(f \o w) /\ Shown(f \o w) = Shown(f) \o Shown(w)
    BY <1>8, <1>9, ConcatList, ShownConcat
  <2>3. IsList(Shown(f \o w))
    BY <2>2, ShownFacts
  <2>4. DeployOrder(d) = <<>> \o <<>> \o Shown(f \o w)
    <3>1. DeployOrder(d) = Shown(d.after) \o Checked(d.health, "ready") \o Shown(d.success)
      BY OrderIs
    <3> QED BY <2>1, <3>1, NothingShown
  <2>5. <<>> \o <<>> = <<>> /\ <<>> \o Shown(f \o w) = Shown(f \o w)
    BY <2>3, EmptyList, ConcatEmpty
  <2> QED BY <1>8, <1>9, <2>2, <2>4, <2>5
<1>13. Steps(k.after \o k.success) \o Checks(k.health, "exists") = st \o Checked(c.health, "exists")
  <2>1. k.after = p /\ k.success = q /\ k.health = c.health
    BY <1>3
  <2> HIDE DEF p, q
  <2>2. Shown(p \o q) = st
    BY <1>10, <1>11, ShownConcat
  <2> QED BY <2>1, <2>2, StepsIs
<1>14. k.health = <<>> => DeployOrder(k) = st \o Checked(c.health, "exists")
  <2> SUFFICES ASSUME k.health = <<>> PROVE DeployOrder(k) = st \o Checked(c.health, "exists")
    OBVIOUS
  <2>1. k.after = p /\ k.success = q /\ c.health = <<>>
    BY <1>3
  <2> HIDE DEF p, q
  <2>2. DeployOrder(k) = Shown(p) \o <<>> \o Shown(q)
    <3>1. DeployOrder(k) = Shown(k.after) \o Checked(k.health, "ready") \o Shown(k.success)
      BY OrderIs
    <3> QED BY <2>1, <3>1, NothingShown
  <2>3. IsList(Shown(p)) /\ IsList(st)
    <3>1. IsList(f)
      BY <1>9
    <3> HIDE DEF f
    <3> QED BY <1>9, <1>11, <3>1, ShownFacts
  <2>4. Shown(p) \o <<>> = Shown(p) /\ st \o <<>> = st
    BY <2>3, ConcatEmpty
  <2>5. Checked(c.health, "exists") = <<>>
    BY <2>1, NothingShown
  <2> QED BY <1>10, <1>11, <2>2, <2>4, <2>5
<1>15. x.kind = y.kind
  BY <1>1, <1>2, <1>3, <1>5
<1>16. /\ IsTrue(d.required) <=> IsTrue(k.required)
       /\ IsTrue(d.manifest.template) <=> IsTrue(k.manifest.template)
       /\ d.chart.schema = "false" <=> k.chart.schema = "false"
       /\ x.override = "false" <=> y.override = "false"
       /\ d.chart.plain \o d.chart.templated = k.chart.plain \o k.chart.templated
       /\ InferSource(d.chart.at) = InferSource(k.chart.at)
       /\ ClassifyGitRef(d.repo.ref) = ClassifyGitRef(k.repo.ref)
       /\ d.import = k.import
  BY <1>2, <1>3
<1>17. Meaning(x) = Meaning(y)
  BY <1>15, <1>16, MeaningSame, Zenon DEF d, k
<1>18. DeployOrder(d) = IF k.health = <<>> THEN DeployOrder(k)
                        ELSE Steps(k.after \o k.success) \o Checks(k.health, "exists")
  BY <1>12, <1>13, <1>14
<1> QED BY <1>17, <1>18, Zenon DEF d, k, x, y, g

\* Where the upgraded file is the one that is read.
LEMMA MeaningOfFile ==
    ASSUME InitIsKnown PROVE MeaningInv => UpgradeKeepsMeaning
<1> SUFFICES ASSUME MeaningInv, authored.beta = {}, file.alpha = {},
                    \A a \in authored.alpha : a.component.scripts = NoScripts
             PROVE  LET old == Authored.component
                        new == ReadAsAlpha.component
                    IN  /\ Meaning(ReadAsAlpha) = Meaning(Authored)
                        /\ DeployOrder(new) =
                             IF old.health = <<>> THEN DeployOrder(old)
                             ELSE Steps(old.after \o old.success) \o Checks(old.health, "exists")
  BY Zenon DEF UpgradeKeepsMeaning
<1>1. AuthoredInv /\ (AlphaFile \/ BetaFile \/ BothFiles)
  BY DEF MeaningInv, WriteInv
<1>2. PICK a \in AlphaPackages : authored = Documents({a}, {})
  <2>1. ASSUME NEW b, authored = Documents({}, {b}) PROVE FALSE
    BY <2>1, ReadBetaFile
  <2> QED BY <1>1, <2>1 DEF AuthoredInv
<1>3. authored.alpha = {a} /\ ParseMultiDoc(authored) = AlphaToGeneric(MigrateDeprecated(a))
  BY <1>2, ReadAlphaFile
<1> DEFINE b == BetaFromGeneric(AlphaToGeneric(a))
<1>4. file.beta = {b}
  BY <1>3, Zenon DEF MeaningInv, UpgradedFile
<1>5. PICK s, z : file = Documents(s, {z})
  <2>1. ASSUME NEW f, file = Documents({f}, {}) PROVE FALSE
    BY <2>1, ReadAlphaFile
  <2> QED BY <1>1, <2>1, Zenon DEF AlphaFile, BetaFile, BothFiles
<1>6. file.beta = {z} /\ ParseMultiDoc(file) = BetaToGeneric(z)
  BY <1>5, ReadBetaFile
<1> HIDE DEF b
<1>7. z = b
  BY <1>4, <1>6
<1>8. /\ ReadAsAlpha = AlphaFromGeneric(BetaToGeneric(b))
      /\ Authored = AlphaFromGeneric(AlphaToGeneric(MigrateDeprecated(a)))
  BY <1>3, <1>6, <1>7, Zenon DEF ReadAsAlpha, Authored
<1>9. a.component.scripts = NoScripts
  BY <1>3
<1> QED BY <1>8, <1>9, UpgradeKept, Zenon DEF b

\* The releases of a definition are in the target namespace, and no wait is for
\* the one they came from.
WaitsMoved(g, o) ==
    /\ UniqueNamespaces(g) = {"target"}
    /\ \A l \in ActionLists : \A i \in DOMAIN g.component.actions[l] :
          g.component.actions[l][i].wait # "none" => g.component.actions[l][i].ns # o

LEMMA WaitsKept ==
    ASSUME NEW g, NEW h, NEW o, WaitsMoved(g, o), h.component.actions = g.component.actions,
           UniqueNamespaces(h) = UniqueNamespaces(g)
    PROVE  WaitsMoved(h, o)
BY Zenon DEF WaitsMoved

LEMMA WaitsOverridden ==
    ASSUME NEW g, GenericOK(g), g.component.chart.ns # "target"
    PROVE  WaitsMoved(Overridden(g, "target"), g.component.chart.ns)
<1> DEFINE a == g.component.actions
           o == g.component.chart.ns
           t == "target"
           h == Overridden(g, t)
           m == h.component.actions
           M(s) == MovedList(s, o, t)
<1>1. /\ m.onCreate = M(a.onCreate) /\ m.before = M(a.before)
      /\ m.after = M(a.after) /\ m.success = M(a.success)
      /\ UniqueNamespaces(h) = {t}
  BY OverrideKept
<1>2. ActionList(a.onCreate) /\ ActionList(a.before) /\ ActionList(a.after) /\ ActionList(a.success)
  BY DEF GenericOK, ComponentOK
<1>3. ASSUME NEW s, ActionList(s)
      PROVE  \A i \in DOMAIN M(s) : M(s)[i].wait # "none" => M(s)[i].ns # o
  BY <1>3, MovedFacts
<1> HIDE DEF M
<1>4. ASSUME NEW l \in ActionLists
      PROVE  \A i \in DOMAIN m[l] : m[l][i].wait # "none" => m[l][i].ns # o
  <2>1. l = "onCreate" \/ l = "before" \/ l = "after" \/ l = "success"
    BY DEF ActionLists
  <2>2. PICK s : ActionList(s) /\ m[l] = M(s)
    <3>1. CASE l = "onCreate"
      BY <1>1, <1>2, <3>1
    <3>2. CASE l = "before"
      BY <1>1, <1>2, <3>2
    <3>3. CASE l = "after"
      BY <1>1, <1>2, <3>3
    <3>4. CASE l = "success"
      BY <1>1, <1>2, <3>4
    <3> QED BY <2>1, <3>1, <3>2, <3>3, <3>4
  <2> QED BY <1>3, <2>2, Zenon
<1> QED BY <1>1, <1>4, Zenon DEF WaitsMoved

\* Every change of a definition, with what it does to the overridden namespace.
LEMMA WaitsFollow ==
    ASSUME NEW g, GenericOK(g), NEW h, NEW n, NEW o, o # n => WaitsMoved(g, o), NEW p,
           \/ (h = Built(g) \/ h = Signed(g) \/ h = Stripped(g)) /\ p = o
           \/ /\ h = Overridden(g, "target")
              /\ p = IF g.component.chart.ns = "target" THEN n ELSE g.component.chart.ns
    PROVE  p # n => WaitsMoved(h, p)
<1> SUFFICES ASSUME p # n PROVE WaitsMoved(h, p)
  OBVIOUS
<1>1. CASE (h = Built(g) \/ h = Signed(g) \/ h = Stripped(g)) /\ p = o
  <2>1. WaitsMoved(g, p)
    BY <1>1
  <2>2. Built(g).component = g.component /\ Signed(g).component = g.component
    BY BuildKept
  <2>3. /\ Stripped(g).component.actions = g.component.actions
        /\ UniqueNamespaces(Stripped(g)) = UniqueNamespaces(g)
    BY StripKept, Zenon
  <2>4. h.component.actions = g.component.actions /\ UniqueNamespaces(h) = UniqueNamespaces(g)
    BY <1>1, <2>2, <2>3, Zenon DEF UniqueNamespaces
  <2> QED BY <2>1, <2>4, WaitsKept
<1>2. CASE /\ h = Overridden(g, "target")
           /\ p = IF g.component.chart.ns = "target" THEN n ELSE g.component.chart.ns
  <2>1. g.component.chart.ns # "target" /\ p = g.component.chart.ns
    BY <1>2
  <2> QED BY <1>2, <2>1, WaitsOverridden, Zenon
<1> QED BY <1>1, <1>2

LEMMA WaitsIs == NoWaitLeftBehind = \A g \in def : moved # "" => WaitsMoved(g, moved)
BY Zenon DEF NoWaitLeftBehind, WaitsMoved

LEMMA MeaningInit == Init => MeaningInv
<1> SUFFICES ASSUME Init PROVE MeaningInv
  OBVIOUS
<1>1. WriteInv
  BY WriteInit
<1>2. authored = file /\ def = {} /\ moved = ""
  BY Zenon DEF Init
<1>3. UpgradedFile
  <2> SUFFICES ASSUME authored.beta = {}, file.alpha = {}, NEW a \in authored.alpha PROVE FALSE
    BY DEF UpgradedFile
  <2>1. authored.alpha = {}
    BY <1>2, Zenon
  <2> QED BY <2>1
<1>4. NoWaitLeftBehind
  BY <1>2, Zenon DEF NoWaitLeftBehind
<1>5. NothingMoved
  BY <1>2, Zenon DEF NothingMoved
<1> QED BY <1>1, <1>3, <1>4, <1>5 DEF MeaningInv

LEMMA MeaningStep == MeaningInv /\ [Next]_vars => MeaningInv'
<1> SUFFICES ASSUME MeaningInv, [Next]_vars PROVE MeaningInv'
  OBVIOUS
<1>1. WriteInv /\ UpgradedFile /\ NothingMoved /\ NoWaitLeftBehind
  BY DEF MeaningInv
<1>2. WriteInv'
  BY <1>1, WriteStep
<1>3. CASE Parse
  <2>1. def = {} /\ def' = {ParseMultiDoc(file)} /\ UNCHANGED <<file, authored, moved>>
    BY <1>3 DEF Parse
  <2>2. moved' = ""
    BY <1>1, <2>1, Zenon DEF NothingMoved
  <2>3. UpgradedFile'
    BY <1>1, <2>1 DEF UpgradedFile
  <2>4. NoWaitLeftBehind'
    BY <2>2, Zenon DEF NoWaitLeftBehind
  <2>5. NothingMoved'
    BY <2>2, Zenon DEF NothingMoved
  <2> QED BY <1>2, <2>3, <2>4, <2>5 DEF MeaningInv
<1>4. CASE UpgradeSchema
  <2>1. PICK a \in file.alpha :
          /\ def = {} /\ file = authored /\ UNCHANGED <<def, authored, moved>>
          /\ file' = Documents({}, {BetaFromGeneric(AlphaToGeneric(a))})
    BY <1>4 DEF UpgradeSchema
  <2>2. PICK z : file.alpha = {z}
    <3>1. ASSUME NEW z, authored = Documents({z}, {}) PROVE authored.alpha = {z}
      BY <3>1, ReadAlphaFile
    <3>2. ASSUME NEW z, authored = Documents({}, {z}) PROVE authored.alpha = {}
      BY <3>2, ReadBetaFile
    <3>3. authored.alpha # {}
      BY <2>1
    <3> QED BY <1>1, <2>1, <3>1, <3>2, <3>3, Zenon DEF WriteInv, AuthoredInv
  <2> DEFINE b == BetaFromGeneric(AlphaToGeneric(a))
  <2>3. file'.beta = {b}
    BY <2>1, DocumentsFields
  <2>4. authored'.alpha = {a}
    BY <2>1, <2>2
  <2>5. UpgradedFile'
    BY <2>3, <2>4, Zenon DEF UpgradedFile
  <2>6. NoWaitLeftBehind'
    BY <2>1, Zenon DEF NoWaitLeftBehind
  <2>7. NothingMoved'
    BY <1>1, <2>1, Zenon DEF NothingMoved
  <2> QED BY <1>2, <2>5, <2>6, <2>7 DEF MeaningInv
<1>5. CASE \E g \in def : Write(g)
  <2>1. PICK g \in def : file' = MarshalPackageDefinition(g) /\ def' = {} /\ moved' = ""
    BY <1>5, Zenon DEF Write
  <2>2. file'.alpha = {AlphaFromGeneric(g)}
    BY <2>1, DocumentsFields, Zenon DEF MarshalPackageDefinition
  <2>3. file'.alpha # {}
    BY <2>2
  <2>4. UpgradedFile'
    BY <2>3, Zenon DEF UpgradedFile
  <2>5. NoWaitLeftBehind'
    BY <2>1, Zenon DEF NoWaitLeftBehind
  <2>6. NothingMoved'
    BY <2>1, Zenon DEF NothingMoved
  <2> QED BY <1>2, <2>4, <2>5, <2>6 DEF MeaningInv
<1>6. CASE \E g \in def : \/ SetBuildData(g) \/ SetBuildSigned(g) \/ RemoveSources(g)
                          \/ OverrideNamespace(g, "target")
  <2> DEFINE n == ""
  <2>1. PICK g \in def : \/ SetBuildData(g) \/ SetBuildSigned(g) \/ RemoveSources(g)
                         \/ OverrideNamespace(g, "target")
    BY <1>6
  <2>2. \E h : /\ Change(h)
               /\ \/ (h = Built(g) \/ h = Signed(g) \/ h = Stripped(g)) /\ moved' = moved
                  \/ /\ h = Overridden(g, "target")
                     /\ moved' = IF g.component.chart.ns = "target" THEN n ELSE g.component.chart.ns
    BY <2>1, NextIs, Zenon
  <2>3. PICK h : /\ Change(h)
               /\ \/ (h = Built(g) \/ h = Signed(g) \/ h = Stripped(g)) /\ moved' = moved
                  \/ /\ h = Overridden(g, "target")
                     /\ moved' = IF g.component.chart.ns = "target" THEN n ELSE g.component.chart.ns
    BY <2>2, Zenon
  <2>4. GenericOK(g)
    BY <1>1 DEF WriteInv, DefInv, Definition
  <2>5. moved # n => WaitsMoved(g, moved)
    BY <1>1, WaitsIs, Zenon
  <2> HIDE DEF n
  <2>6. moved' # n => WaitsMoved(h, moved')
    BY <2>3, <2>4, <2>5, WaitsFollow
  <2>7. def' = {h} /\ UNCHANGED <<file, authored>>
    BY <2>3 DEF Change
  <2>8. \A k \in def' : moved' # n => WaitsMoved(k, moved')
    BY <2>6, <2>7
  <2>9. NoWaitLeftBehind'
    BY <2>8, Zenon DEF NoWaitLeftBehind, WaitsMoved, n
  <2>10. UpgradedFile'
    BY <1>1, <2>7 DEF UpgradedFile
  <2>11. def' # {}
    BY <2>7
  <2>12. NothingMoved'
    BY <2>11, Zenon DEF NothingMoved
  <2> QED BY <1>2, <2>9, <2>10, <2>12 DEF MeaningInv
<1>7. CASE UNCHANGED vars
  <2>1. def' = def /\ moved' = moved /\ file' = file /\ authored' = authored
    BY <1>7 DEF vars
  <2>2. UpgradedFile'
    BY <1>1, <2>1 DEF UpgradedFile
  <2>3. NoWaitLeftBehind'
    BY <1>1, <2>1, Zenon DEF NoWaitLeftBehind, UniqueNamespaces
  <2>4. NothingMoved'
    BY <1>1, <2>1, Zenon DEF NothingMoved
  <2> QED BY <1>2, <2>2, <2>3, <2>4 DEF MeaningInv
<1> QED BY <1>3, <1>4, <1>5, <1>6, <1>7, Zenon DEF Next

\* A package that zarf dev upgrade-schema accepts means the same after the
\* upgrade (an init package if its component has a name that Zarf knows), with
\* its deploy steps in the order they had, but for health checks, which move
\* behind the actions and wait for existence only; and an override of the namespace
\* takes every wait for the releases along with them, whatever create, sign and
\* deploy do in between and however often the file is written.
THEOREM UpgradesAndOverridesKeepMeaning ==
    ASSUME InitIsKnown PROVE Spec => []MeaningIsKept
<1>1. MeaningInv => MeaningIsKept
  BY MeaningOfFile, Zenon DEF MeaningIsKept, MeaningInv
<1> QED BY <1>1, MeaningInit, MeaningStep, PTL DEF Spec
=============================================================================
