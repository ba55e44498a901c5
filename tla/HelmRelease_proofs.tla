------------------------- MODULE HelmRelease_proofs -------------------------
(***************************************************************************)
(* Proofs about HelmRelease, for any number of versions and namespaces,    *)
(* any maximum of the history and any number of faults.                    *)
(***************************************************************************)
EXTENDS HelmRelease, FiniteSetTheorems, WellFoundedInduction, TLAPS

-----------------------------------------------------------------------------
(* Largest elements of sets of revisions.                                  *)

\* A set of naturals has a smallest element.
LEMMA SmallestExists ==
    ASSUME NEW T \in SUBSET Nat, T # {}
    PROVE  \E x \in T : \A y \in T : x <= y
<1> DEFINE Less == {ss \in Nat \X Nat : ss[1] < ss[2]}
<1>1. IsWellFoundedOn(Less, Nat)
  BY NatLessThanWellFounded, Zenon DEF OpToRel
<1>2. \E x \in T : \A y \in T : ~(<<y, x>> \in Less)
  <2> HIDE DEF Less
  <2> QED
    BY <1>1, WFMin
<1>3. PICK x \in T : \A y \in T : ~(<<y, x>> \in Less)
  BY <1>2
<1>4. ASSUME NEW y \in T PROVE x <= y
  <2>1. ~(y < x)
    BY <1>3
  <2> QED
    BY <2>1
<1> QED
  BY <1>4

\* A bounded set of naturals has a largest one.
LEMMA LargestExists ==
    ASSUME NEW K \in Nat, NEW T \in SUBSET (0..K), T # {}
    PROVE  \E x \in T : \A y \in T : y <= x
<1> DEFINE U == {K - t : t \in T}
<1>1. U \in SUBSET Nat /\ U # {}
  <2>1. \A t \in T : K - t \in Nat
    OBVIOUS
  <2>2. PICK t \in T : TRUE
    OBVIOUS
  <2>3. K - t \in U
    BY <2>2
  <2> QED
    BY <2>1, <2>3
<1>2. PICK u \in U : \A w \in U : u <= w
  BY <1>1, SmallestExists
<1>3. PICK x \in T : u = K - x
  BY <1>2
<1>4. ASSUME NEW y \in T PROVE y <= x
  BY <1>2, <1>3, <1>4
<1> QED
  BY <1>4

LEMMA MaxFacts ==
    ASSUME NEW K \in Nat, NEW T \in SUBSET (0..K), T # {}
    PROVE  Max(T) \in T /\ \A y \in T : y <= Max(T)
<1>1. \E x \in T : \A y \in T : x >= y
  BY LargestExists
<1>2. Max(T) \in T /\ \A y \in T : Max(T) >= y
  BY <1>1 DEF Max
<1> QED
  BY <1>2

\* Revision numbers have two digits: some revision is the last by name.
LEMMA ListedLastIn ==
    ASSUME NEW revs \in SUBSET (1..MaxRevision), revs # {}
    PROVE  ListedLast(revs) \in revs
<1> DEFINE aligned(r) == IF r < Radix THEN r * Radix ELSE r
<1> DEFINE Names == {aligned(r) : r \in revs}
<1>1. \A r \in revs : aligned(r) \in 0..(Radix * Radix)
  <2> SUFFICES ASSUME NEW r \in revs PROVE aligned(r) \in 0..(Radix * Radix)
    OBVIOUS
  <2>1. r \in Nat /\ Radix \in Nat /\ r < Radix * Radix /\ Radix * Radix \in Nat
    BY HistoryAssumption
  <2>2. r < Radix => r * Radix <= Radix * Radix /\ r * Radix \in Nat
    BY <2>1
  <2> QED
    BY <2>1, <2>2
<1>2. Radix * Radix \in Nat
  BY HistoryAssumption
<1>3. \E a \in Names : \A b \in Names : b <= a
  <2> HIDE DEF aligned
  <2>1. Names \in SUBSET (0..(Radix * Radix)) /\ Names # {}
    BY <1>1
  <2> HIDE DEF Names
  <2> QED
    BY <1>2, <2>1, LargestExists
<1>4. PICK r0 \in revs : \A q \in revs : aligned(q) <= aligned(r0)
  BY <1>3
<1> DEFINE Best == {r \in revs : aligned(r) = aligned(r0)}
<1>5. PICK r \in Best : \A q \in Best : q <= r
  <2> HIDE DEF aligned
  <2>0. MaxRevision \in Nat
    BY HistoryAssumption
  <2>1. \A r \in Best : r \in 0..MaxRevision
    BY <2>0
  <2>2. r0 \in Best
    OBVIOUS
  <2> HIDE DEF Best
  <2> QED
    BY <2>0, <2>1, <2>2, LargestExists
<1>6. \A q \in revs : q = r \/ NameBefore(q, r)
  <2> SUFFICES ASSUME NEW q \in revs, q # r PROVE NameBefore(q, r)
    OBVIOUS
  <2>1. aligned(q) < aligned(r) \/ (aligned(q) = aligned(r) /\ q < r)
    <3> HIDE DEF aligned
    <3>1. aligned(q) \in 0..(Radix * Radix) /\ aligned(r) \in 0..(Radix * Radix) /\ r \in revs
      BY <1>1, <1>5
    <3>2. aligned(q) <= aligned(r)
      BY <1>4, <1>5
    <3>3. aligned(q) = aligned(r) => q <= r
      BY <1>4, <1>5
    <3> QED
      BY <1>2, <3>1, <3>2, <3>3
  <2> QED
    BY <2>1 DEF NameBefore
<1> QED
  BY <1>5, <1>6 DEF ListedLast

-----------------------------------------------------------------------------
(* The inductive invariant.                                                *)

\* Every deployed revision was completed by Helm or stored by a migration.
HistoryOK(h) ==
    /\ h \in [DOMAIN h -> Revision]
    /\ DOMAIN h \subseteq Nat \ {0}
    /\ \A r \in DOMAIN h : h[r].status = "deployed" => h[r].proven \/ h[r].migrated

\* The numbers that the rest of the operation may still use: for a migration,
\* for the upgrade and for a rollback.
Reserve ==
    IF pc = "migrate" THEN 3
    ELSE IF pc \in {"prepare", "namespaces"} THEN 2
    ELSE IF pc \in {"apply", "record", "failed", "rollback"} THEN 1
    ELSE 0
Room(h, m) == m <= MaxRevision /\ \A r \in DOMAIN h : r + m <= MaxRevision

HistoryInv == HistoryOK(history) /\ Room(history, Reserve) /\ background.status \in Status

\* The operation knows its version and the revisions it works on.
OperationInv ==
    /\ orig \in 0..MaxRevision /\ up \in 0..MaxRevision
    /\ pc = "namespaces" => orig = CurrentRelease
    /\ pc = "apply" => orig \in Revisions \cup {0}
    /\ pc = "migrate" => Revisions # {}
    /\ pc = "migrate" /\ migration = "begun" => orig \in Revisions
    /\ op.pkg \in Pkg \cup {NoPkg}
    /\ pc \in {"migrate", "prepare", "namespaces", "apply"} => op.pkg \in Pkg
    /\ RollbackIsProven

\* Helm's goroutine outlives its upgrade only while the same process looks for
\* a revision to roll back to, rolls back or returns.
Unwinding == {"failed", "rollback", "rollingback", "rolledback", "returned"}
BackgroundInv == background.on => pc \in Unwinding

\* A namespace that the manifests name is still to be prepared, waits for its
\* secrets or has them.
RenderInv ==
    /\ namespaces \in [Namespace -> NamespaceState]
    /\ todo \subseteq Namespace /\ bare \subseteq Namespace
    /\ \A n \in bare : namespaces[n].exists
    /\ pc = "namespaces" => \A n \in Named[op.pkg] :
          n \in todo \cup bare \/ (namespaces[n].exists /\ namespaces[n].secrets)
    /\ SecretsBeforeResources

\* The counters and the history variables.
RecordInv ==
    /\ newAPIs \in BOOLEAN
    /\ faults \in 0..MaxFaults
    /\ before \in Release
    /\ migration \in {"none", "begun", "done", "refused"}
    /\ result \in {"none", "ok", "failed", "killed"}

HelmInv == HistoryInv /\ OperationInv /\ BackgroundInv /\ RenderInv /\ RecordInv

-----------------------------------------------------------------------------
(* What the writes to the history do.                                      *)

LEMMA RevisionFields ==
    ASSUME NEW rev \in Revision
    PROVE  /\ rev.status \in Status /\ rev.pkg \in Pkg
           /\ rev.served \in BOOLEAN /\ rev.proven \in BOOLEAN /\ rev.migrated \in BOOLEAN
BY DEF Revision

\* Marking a revision never takes back that it was completed or migrated.
LEMMA MarkedFacts ==
    ASSUME NEW h, HistoryOK(h), NEW r, NEW s \in Status
    PROVE  /\ DOMAIN Marked(h, r, s) = DOMAIN h
           /\ HistoryOK(Marked(h, r, s))
           /\ \A q \in DOMAIN h :
                h[q].proven \/ h[q].migrated => Marked(h, r, s)[q].proven \/ Marked(h, r, s)[q].migrated
<1>1. CASE r \notin DOMAIN h
  BY <1>1 DEF Marked
<1>2. CASE r \in DOMAIN h
  <2> DEFINE m == [h EXCEPT ![r].status = s, ![r].proven = @ \/ s = "deployed"]
  <2>1. Marked(h, r, s) = m
    BY <1>2 DEF Marked
  <2>2. h \in [DOMAIN h -> Revision] /\ h[r] \in Revision
    BY <1>2 DEF HistoryOK
  <2>3. DOMAIN m = DOMAIN h /\ \A q \in DOMAIN h \ {r} : m[q] = h[q]
    BY <1>2, <2>2
  <2>4. m[r] = [status |-> s, pkg |-> h[r].pkg, served |-> h[r].served,
                proven |-> h[r].proven \/ s = "deployed", migrated |-> h[r].migrated]
    BY <1>2, <2>2 DEF Revision
  <2>5. m[r] \in Revision
    BY <2>2, <2>4 DEF Revision
  <2>6. m = [q \in DOMAIN h |-> m[q]]
    BY <2>2
  <2>7. m \in [DOMAIN m -> Revision]
    BY <2>2, <2>3, <2>5, <2>6
  <2>8. \A q \in DOMAIN h : h[q].proven \/ h[q].migrated => m[q].proven \/ m[q].migrated
    BY <2>3, <2>4, ZenonT(40)
  <2>9. \A q \in DOMAIN h : m[q].status = "deployed" => m[q].proven \/ m[q].migrated
    <3>1. \A q \in DOMAIN h \ {r} : m[q].status = "deployed" => m[q].proven \/ m[q].migrated
      BY <2>3 DEF HistoryOK
    <3>2. m[r].status = s /\ m[r].proven = (h[r].proven \/ s = "deployed")
      <4> HIDE DEF m
      <4> QED
        BY <2>4
    <3>3. m[r].status = "deployed" => m[r].proven
      <4> HIDE DEF m
      <4> QED
        BY <3>2, Zenon
    <3> QED
      BY <3>1, <3>3
  <2> HIDE DEF m
  <2> QED
    BY <2>1, <2>3, <2>7, <2>8, <2>9 DEF HistoryOK
<1> QED
  BY <1>1, <1>2

LEMMA StoredFacts ==
    ASSUME HistoryOK(history), NEW r \in Nat \ {0}, NEW rev \in Revision, NEW maximum,
           rev.status = "deployed" => rev.proven \/ rev.migrated
    PROVE  /\ HistoryOK(Stored(r, rev, maximum))
           /\ DOMAIN Stored(r, rev, maximum) \subseteq Revisions \cup {r}
           /\ r \in DOMAIN Stored(r, rev, maximum)
<1> DEFINE h == Stored(r, rev, maximum)
<1>1. PICK D \in SUBSET Revisions :
        h = [q \in D \cup {r} |-> IF q = r THEN rev ELSE history[q]]
  BY DEF Stored
<1>2. DOMAIN h = D \cup {r} /\ \A q \in DOMAIN h : h[q] = IF q = r THEN rev ELSE history[q]
  BY <1>1
<1>3. \A q \in DOMAIN h : h[q] \in Revision
  BY <1>2 DEF HistoryOK, Revisions
<1>4. h \in [DOMAIN h -> Revision]
  BY <1>1, <1>2, <1>3
<1> HIDE DEF h
<1>5. HistoryOK(h)
  BY <1>2, <1>4 DEF HistoryOK, Revisions
<1> QED
  BY <1>2, <1>5 DEF h

\* The next number is beyond all revisions.
LEMMA NewestFacts ==
    ASSUME HistoryOK(history), NEW m \in Nat, Room(history, m)
    PROVE  /\ Newest \in Nat /\ Newest + m <= MaxRevision
           /\ Revisions # {} => Newest \in Revisions
           /\ \A r \in Revisions : r <= Newest
<1>0. MaxRevision \in Nat
  BY HistoryAssumption
<1>1. CASE Revisions = {}
  BY <1>0, <1>1 DEF Newest, Room
<1>2. CASE Revisions # {}
  <2>1. \A r \in Revisions : r \in 0..MaxRevision
    BY <1>0 DEF HistoryOK, Room, Revisions
  <2>2. Max(Revisions) \in Revisions /\ \A r \in Revisions : r <= Max(Revisions)
    BY <1>0, <1>2, <2>1, MaxFacts
  <2>3. Newest = Max(Revisions)
    BY <1>2 DEF Newest
  <2> QED
    BY <2>1, <2>2, <2>3 DEF Room, Revisions
<1> QED
  BY <1>1, <1>2

LEMMA RoomShrinks ==
    ASSUME NEW h, NEW g, HistoryOK(h), NEW m \in Nat, NEW n \in Nat, Room(h, m), n <= m,
           DOMAIN g \subseteq DOMAIN h
    PROVE  Room(g, n)
<1>1. MaxRevision \in Nat
  BY HistoryAssumption
<1> QED
  BY <1>1 DEF Room, HistoryOK

LEMMA ReserveType == Reserve \in 0..3
BY DEF Reserve

\* Revisions are numbers within the bound; so is the last of them by name.
LEMMA RevisionNumbers ==
    ASSUME HistoryInv
    PROVE  /\ Revisions \subseteq 1..MaxRevision
           /\ Revisions # {} => ListedLast(Revisions) \in Revisions
           /\ Deployed # {} => ListedLast(Deployed) \in Deployed
<1>1. MaxRevision \in Nat
  BY HistoryAssumption
<1>2. \A r \in Revisions : r \in 1..MaxRevision
  <2>1. Room(history, 0)
    BY ReserveType, RoomShrinks DEF HistoryInv
  <2> QED
    BY <1>1, <2>1 DEF HistoryInv, HistoryOK, Room, Revisions
<1>3. Deployed \subseteq Revisions
  BY DEF Deployed
<1> QED
  BY <1>2, <1>3, ListedLastIn

\* Helm's current release is one of the revisions, and making room for the new
\* revision never prunes it.
LEMMA CurrentIsKept ==
    ASSUME HistoryInv, CurrentRelease # 0, NEW rev, NEW r,
           NEW maximum \in {0, maxHelmHistory}
    PROVE  /\ CurrentRelease \in Revisions
           /\ CurrentRelease \in DOMAIN Stored(r, rev, maximum)
<1> DEFINE c == CurrentRelease
<1> DEFINE spare == IF Deployed = {} THEN Revisions ELSE Revisions \ {Max(Deployed)}
<1> DEFINE excess == Cardinality(Revisions) - (maximum - 1)
<1>1. MaxRevision \in Nat /\ maxHelmHistory \in Nat \ {0, 1}
  BY HistoryAssumption
<1>2. Revisions \subseteq 0..MaxRevision /\ Deployed \subseteq Revisions
  BY <1>1, RevisionNumbers DEF Deployed
<1>3. Deployed # {} => Max(Deployed) \in Deployed /\ \A q \in Deployed : q <= Max(Deployed)
  BY <1>1, <1>2, MaxFacts
<1>4. Revisions # {} /\ Newest = Max(Revisions)
  BY DEF CurrentRelease, Newest
<1>5. Newest \in Revisions /\ \A q \in Revisions : q <= Newest
  BY <1>1, <1>2, <1>4, MaxFacts
<1>6. c \in Revisions
  BY <1>2, <1>3, <1>5 DEF CurrentRelease
<1>7. IF Deployed = {} THEN c = Newest ELSE c = Max(Deployed)
  <2>1. CASE history[Newest].status = "deployed"
    <3>1. Newest \in Deployed
      BY <1>5, <2>1 DEF Deployed
    <3>2. Max(Deployed) = Newest
      <4>1. Max(Deployed) \in Revisions /\ Newest <= Max(Deployed) /\ Max(Deployed) <= Newest
        BY <1>2, <1>3, <1>5, <3>1
      <4>2. Max(Deployed) \in Nat /\ Newest \in Nat
        <5>1. \A q \in 0..MaxRevision : q \in Nat
          BY <1>1
        <5> QED
          BY <1>2, <1>5, <4>1, <5>1
      <4> QED
        BY <4>1, <4>2
    <3> QED
      BY <1>4, <2>1, <3>1, <3>2 DEF CurrentRelease
  <2>2. CASE history[Newest].status # "deployed"
    BY <1>4, <2>2 DEF CurrentRelease
  <2> QED
    BY <2>1, <2>2
<1>8. CASE maximum = 0
  BY <1>6, <1>8 DEF Stored
<1>10. IsFiniteSet(0..MaxRevision)
  BY <1>1, FS_Interval
<1>9. CASE maximum = maxHelmHistory
  <2>1. c \in spare => Cardinality({o \in spare : o < c}) >= excess
    <3>1. SUFFICES ASSUME Deployed = {}
                   PROVE  Cardinality({o \in Revisions : o < c}) >= excess
      BY <1>7
    <3>2. {o \in Revisions : o < c} = Revisions \ {c}
      <4>1. c = Newest
        BY <1>7, <3>1
      <4>2. \A o \in Revisions : o \in Nat /\ Newest \in Nat
        BY <1>2, <1>5
      <4>3. \A o \in Revisions : (o < Newest) <=> (o # Newest)
        BY <1>5, <4>2
      <4> QED
        BY <4>1, <4>3
    <3>3. IsFiniteSet(Revisions)
      BY <1>10, <1>2, FS_Subset
    <3>4. Cardinality(Revisions \ {c}) = Cardinality(Revisions) - 1
      BY <1>6, <3>3, FS_RemoveElement
    <3>5. Cardinality(Revisions) \in Nat
      BY <3>3, FS_CardinalityType
    <3>6. Cardinality({o \in Revisions : o < c}) = Cardinality(Revisions) - 1
      BY <3>2, <3>4
    <3> HIDE DEF c
    <3> QED
      BY <1>1, <1>9, <3>5, <3>6
  <2>2. IsFiniteSet(spare) /\ IsFiniteSet(Revisions) /\ IsFiniteSet({o \in spare : o < c})
    <3>1. spare \subseteq 0..MaxRevision /\ {o \in spare : o < c} \subseteq 0..MaxRevision
      BY <1>2
    <3> QED
      BY <1>2, <1>10, <3>1, FS_Subset
  <2>3. Cardinality({o \in spare : o < c}) \in Nat /\ excess \in Int
    BY <1>1, <1>9, <2>2, FS_CardinalityType
  <2>4. c \notin {q \in spare : Cardinality({o \in spare : o < q}) < excess}
    <3> HIDE DEF spare, excess, c
    <3> QED
      BY <2>1, <2>3
  <2>5. maximum # 0
    BY <1>1, <1>9
  <2> QED
    BY <1>6, <2>4, <2>5 DEF Stored
<1> QED
  BY <1>6, <1>8, <1>9

-----------------------------------------------------------------------------
(* The history through every step.                                         *)

\* A step that stores no revision and reserves no more of them.
LEMMA NothingStored ==
    ASSUME HistoryInv, HistoryOK(history'), DOMAIN history' \subseteq DOMAIN history,
           Reserve' <= Reserve, background'.status \in Status
    PROVE  HistoryInv'
<1>1. Reserve \in Nat /\ Reserve' \in Nat
  BY DEF Reserve
<1>2. Room(history', Reserve')
  BY <1>1, RoomShrinks DEF HistoryInv
<1> QED
  BY <1>2 DEF HistoryInv

\* A step that stores revision r and gives up one of the reserved numbers.
LEMMA OneStored ==
    ASSUME HistoryInv, NEW r \in Nat \ {0}, NEW rev \in Revision, NEW maximum,
           rev.status = "deployed" => rev.proven \/ rev.migrated,
           history' = Stored(r, rev, maximum),
           r + Reserve' <= MaxRevision, Reserve' <= Reserve, UNCHANGED background
    PROVE  HistoryInv'
<1>1. Reserve \in Nat /\ Reserve' \in Nat /\ MaxRevision \in Nat
  BY HistoryAssumption DEF Reserve
<1>2. HistoryOK(history') /\ DOMAIN history' \subseteq Revisions \cup {r}
  BY StoredFacts DEF HistoryInv
<1>3. \A q \in DOMAIN history' : q + Reserve' <= MaxRevision
  <2> SUFFICES ASSUME NEW q \in DOMAIN history', q # r PROVE q + Reserve' <= MaxRevision
    OBVIOUS
  <2>1. q \in Nat /\ q + Reserve <= MaxRevision
    BY <1>2 DEF HistoryInv, HistoryOK, Room, Revisions
  <2>2. \A a, b \in Nat : a <= b /\ q + b <= MaxRevision => q + a <= MaxRevision
    BY <1>1, <2>1
  <2> QED
    BY <1>1, <2>1, <2>2
<1>4. Room(history', Reserve')
  <2>1. \A a \in Nat : r + a <= MaxRevision => a <= MaxRevision
    BY <1>1
  <2>2. Reserve' <= MaxRevision
    BY <1>1, <2>1
  <2> QED
    BY <1>3, <2>2 DEF Room
<1> QED
  BY <1>2, <1>4 DEF HistoryInv

\* A step that marks up to two revisions.
LEMMA OnlyMarked ==
    ASSUME HistoryInv, NEW r, NEW q, NEW s \in Status, NEW t \in Status,
           history' \in {history, Marked(history, r, s), Marked(Marked(history, r, s), q, t)}
    PROVE  /\ HistoryOK(history')
           /\ DOMAIN history' = DOMAIN history
           /\ \A o \in DOMAIN history :
                history[o].proven \/ history[o].migrated => history'[o].proven \/ history'[o].migrated
<1> DEFINE h1 == Marked(history, r, s)
<1> DEFINE h2 == Marked(h1, q, t)
<1>0. HistoryOK(history)
  BY DEF HistoryInv
<1>1. /\ DOMAIN h1 = DOMAIN history /\ HistoryOK(h1)
      /\ \A o \in DOMAIN history :
           history[o].proven \/ history[o].migrated => h1[o].proven \/ h1[o].migrated
  BY <1>0, MarkedFacts
<1> HIDE DEF h1
<1>2. /\ DOMAIN h2 = DOMAIN h1 /\ HistoryOK(h2)
      /\ \A o \in DOMAIN h1 : h1[o].proven \/ h1[o].migrated => h2[o].proven \/ h2[o].migrated
  BY <1>1, MarkedFacts
<1> HIDE DEF h2
<1>3. history' = history \/ history' = h1 \/ history' = h2
  BY DEF h1, h2
<1> QED
  BY <1>0, <1>1, <1>2, <1>3

\* Every step keeps the history in order, within the numbers it reserved.
LEMMA HistoryStep ==
    ASSUME HelmInv, Next
    PROVE  HistoryInv'
<1>0. HistoryInv /\ HistoryOK(history) /\ OperationInv /\ Reserve \in Nat /\ MaxRevision \in Nat
      /\ background.status \in Status
  BY HistoryAssumption DEF HelmInv, HistoryInv, Reserve
<1>a. ASSUME history' = history, Reserve' <= Reserve, background' = background \/ background' = NoBackground
      PROVE  HistoryInv'
  <2>1. background'.status \in Status
    BY <1>0, <1>a DEF NoBackground, Status
  <2>2. HistoryOK(history') /\ DOMAIN history' \subseteq DOMAIN history
    BY <1>0, <1>a
  <2> QED
    BY <1>0, <1>a, <2>1, <2>2, NothingStored
<1>b. ASSUME pc = "idle", Newest + 3 <= MaxRevision, UNCHANGED <<history, background>>,
             Reserve' \in 0..3
      PROVE  HistoryInv'
  <2>1. Room(history, 0)
    BY <1>0, RoomShrinks DEF HistoryInv
  <2>2. Newest \in Nat /\ \A r \in Revisions : r <= Newest
    BY <1>0, <2>1, NewestFacts
  <2>3. \A r \in DOMAIN history : r \in Nat
    BY <1>0 DEF HistoryOK
  <2>4. \A k \in 0..3 : k <= MaxRevision /\ \A r \in DOMAIN history : r + k <= MaxRevision
    BY <1>0, <1>b, <2>2, <2>3 DEF Revisions
  <2>5. Room(history', Reserve')
    BY <1>b, <2>4 DEF Room
  <2> QED
    BY <1>0, <1>b, <2>5 DEF HistoryInv
<1>1. ASSUME NEW p \in Pkg, NEW own \in BOOLEAN, InstallOrUpgradeChart(p, own)
      PROVE  HistoryInv'
  <2>1. pc = "idle" /\ Newest + 3 <= MaxRevision /\ UNCHANGED <<history, background>>
    BY <1>1 DEF InstallOrUpgradeChart, Start
  <2>2. Reserve' \in 0..3
    BY <1>1 DEF InstallOrUpgradeChart, Goto, Reserve
  <2> QED
    BY <1>b, <2>1, <2>2
<1>2. CASE UpdateReleaseValues
  <2>1. pc = "idle" /\ Newest + 3 <= MaxRevision /\ UNCHANGED <<history, background>>
    BY <1>2 DEF UpdateReleaseValues, Start
  <2>2. Reserve' \in 0..3
    BY <1>2 DEF UpdateReleaseValues, Goto, Reserve
  <2> QED
    BY <1>b, <2>1, <2>2
<1>3. CASE RemoveChart
  <2>1. /\ history' = history /\ Reserve' <= Reserve
        /\ background' = background \/ background' = NoBackground
    BY <1>3 DEF RemoveChart, Reserve, Fault, Goto, Returns, HelmFails
  <2> QED
    BY <1>a, <2>1
<1>4. CASE UpgradeCluster
  <2>1. /\ history' = history /\ Reserve' <= Reserve
        /\ background' = background \/ background' = NoBackground
    BY <1>4 DEF UpgradeCluster, Reserve, Fault, Goto, Returns, HelmFails
  <2> QED
    BY <1>a, <2>1
<1>5. CASE StartFails
  <2>1. /\ history' = history /\ Reserve' <= Reserve
        /\ background' = background \/ background' = NoBackground
    BY <1>5 DEF StartFails, Reserve, Fault, Goto, Returns, HelmFails
  <2> QED
    BY <1>a, <2>1
<1>6. CASE MigrateNothing
  <2>1. /\ history' = history /\ Reserve' <= Reserve
        /\ background' = background \/ background' = NoBackground
    BY <1>6 DEF MigrateNothing, Reserve, Fault, Goto, Returns, HelmFails
  <2> QED
    BY <1>a, <2>1
<1>7. CASE MigrateFails
  <2>1. /\ history' = history /\ Reserve' <= Reserve
        /\ background' = background \/ background' = NoBackground
    BY <1>7 DEF MigrateFails, Reserve, Fault, Goto, Returns, HelmFails
  <2> QED
    BY <1>a, <2>1
<1>8. CASE Prepare
  <2>1. /\ history' = history /\ Reserve' <= Reserve
        /\ background' = background \/ background' = NoBackground
    BY <1>8 DEF Prepare, Reserve, Fault, Goto, Returns, HelmFails
  <2> QED
    BY <1>a, <2>1
<1>9. CASE UpgradeRefused
  <2>1. /\ history' = history /\ Reserve' <= Reserve
        /\ background' = background \/ background' = NoBackground
    BY <1>9 DEF UpgradeRefused, Reserve, Fault, Goto, Returns, HelmFails
  <2> QED
    BY <1>a, <2>1
<1>10. CASE PrepareNamespace
  <2>1. /\ history' = history /\ Reserve' <= Reserve
        /\ background' = background \/ background' = NoBackground
    BY <1>10 DEF PrepareNamespace, Reserve, Fault, Goto, Returns, HelmFails
  <2> QED
    BY <1>a, <2>1
<1>11. CASE ApplySecrets
  <2>1. /\ history' = history /\ Reserve' <= Reserve
        /\ background' = background \/ background' = NoBackground
    BY <1>11 DEF ApplySecrets, Reserve, Fault, Goto, Returns, HelmFails
  <2> QED
    BY <1>a, <2>1
<1>12. CASE RenderFails
  <2>1. /\ history' = history /\ Reserve' <= Reserve
        /\ background' = background \/ background' = NoBackground
    BY <1>12 DEF RenderFails, Reserve, Fault, Goto, Returns, HelmFails
  <2> QED
    BY <1>a, <2>1
<1>13. CASE RecordLost
  <2>1. /\ history' = history /\ Reserve' <= Reserve
        /\ background' = background \/ background' = NoBackground
    BY <1>13 DEF RecordLost, Reserve, Fault, Goto, Returns, HelmFails
  <2> QED
    BY <1>a, <2>1
<1>14. CASE HealthChecked
  <2>1. /\ history' = history /\ Reserve' <= Reserve
        /\ background' = background \/ background' = NoBackground
    BY <1>14 DEF HealthChecked, Reserve, Fault, Goto, Returns, HelmFails
  <2> QED
    BY <1>a, <2>1
<1>15. CASE ChooseRollback
  <2>1. /\ history' = history /\ Reserve' <= Reserve
        /\ background' = background \/ background' = NoBackground
    BY <1>15 DEF ChooseRollback, Reserve, Fault, Goto, Returns, HelmFails
  <2> QED
    BY <1>a, <2>1
<1>16. CASE RollbackStops
  <2>1. /\ history' = history /\ Reserve' <= Reserve
        /\ background' = background \/ background' = NoBackground
    BY <1>16 DEF RollbackStops, Reserve, Fault, Goto, Returns, HelmFails
  <2> QED
    BY <1>a, <2>1
<1>17. CASE Uninstalled
  <2>1. /\ history' = history /\ Reserve' <= Reserve
        /\ background' = background \/ background' = NoBackground
    BY <1>17 DEF Uninstalled, Reserve, Fault, Goto, Returns, HelmFails
  <2> QED
    BY <1>a, <2>1
<1>18. CASE UninstallFails
  <2>1. /\ history' = history /\ Reserve' <= Reserve
        /\ background' = background \/ background' = NoBackground
    BY <1>18 DEF UninstallFails, Reserve, Fault, Goto, Returns, HelmFails
  <2> QED
    BY <1>a, <2>1
<1>19. CASE Exit
  <2>1. /\ history' = history /\ Reserve' <= Reserve
        /\ background' = background \/ background' = NoBackground
    BY <1>19 DEF Exit, Reserve, Fault, Goto, Returns, HelmFails
  <2> QED
    BY <1>a, <2>1
<1>20. CASE Killed
  <2>1. /\ history' = history /\ Reserve' <= Reserve
        /\ background' = background \/ background' = NoBackground
    BY <1>20 DEF Killed, Reserve, Fault, Goto, Returns, HelmFails
  <2> QED
    BY <1>a, <2>1
<1>c. ASSUME Reserve' <= Reserve, background'.status \in Status,
             \E r, q : \E s, t \in Status :
               history' \in {history, Marked(history, r, s), Marked(Marked(history, r, s), q, t)}
      PROVE  HistoryInv'
  <2>1. HistoryOK(history') /\ DOMAIN history' = DOMAIN history
    BY <1>0, <1>c, OnlyMarked
  <2> QED
    BY <1>0, <1>c, <2>1, NothingStored
<1>21. CASE MigrateSupersede
  <2>1. Reserve' <= Reserve /\ background' = background
    BY <1>21 DEF MigrateSupersede, Reserve, Fault, Goto, Returns, HelmFails
  <2>2. history' \in {history, Marked(history, ListedLast(Revisions), "superseded")}
    BY <1>21 DEF MigrateSupersede, Fault, Goto, Returns, HelmFails
  <2> QED
    BY <1>0, <1>c, <2>1, <2>2 DEF Status
<1>22. CASE Applied
  <2>1. Reserve' <= Reserve /\ background' = background
    BY <1>22 DEF Applied, Reserve, Fault, Goto, Returns, HelmFails
  <2>2. history' \in {history, Marked(history, orig, "superseded")}
    BY <1>22 DEF Applied, Fault, Goto, Returns, HelmFails
  <2> QED
    BY <1>0, <1>c, <2>1, <2>2 DEF Status
<1>23. CASE RecordDeployed
  <2>1. Reserve' <= Reserve /\ background' = background
    BY <1>23 DEF RecordDeployed, Reserve, Fault, Goto, Returns, HelmFails
  <2>2. history' \in {history, Marked(history, up, "deployed")}
    BY <1>23 DEF RecordDeployed, Fault, Goto, Returns, HelmFails
  <2> QED
    BY <1>0, <1>c, <2>1, <2>2 DEF Status
<1>24. CASE ApplyFails
  <2>1. Reserve' <= Reserve /\ background' = background
    BY <1>24 DEF ApplyFails, Reserve, Fault, Goto, Returns, HelmFails
  <2>2. history' \in {history, Marked(history, up, "failed")}
    BY <1>24 DEF ApplyFails, Fault, Goto, Returns, HelmFails
  <2> QED
    BY <1>0, <1>c, <2>1, <2>2 DEF Status
<1>25. CASE RollbackRecorded
  <2>1. Reserve' <= Reserve /\ background' = background
    BY <1>25 DEF RollbackRecorded, Reserve, Fault, Goto, Returns, HelmFails
  <2>2. history' \in {history, Marked(history, up, "deployed")}
    BY <1>25 DEF RollbackRecorded, Fault, Goto, Returns, HelmFails
  <2> QED
    BY <1>0, <1>c, <2>1, <2>2 DEF Status
<1>26. CASE Uninstalling
  <2>1. Reserve' <= Reserve /\ background' = background
    BY <1>26 DEF Uninstalling, Reserve, Fault, Goto, Returns, HelmFails
  <2>2. history' \in {history, Marked(history, Newest, "uninstalling")}
    BY <1>26 DEF Uninstalling, Fault, Goto, Returns, HelmFails
  <2> QED
    BY <1>0, <1>c, <2>1, <2>2 DEF Status
<1>27. CASE ApplyTimesOut
  <2>1. Reserve' <= Reserve /\ history' = Marked(history, up, "failed")
    BY <1>27 DEF ApplyTimesOut, Reserve, Fault, Goto, Returns, HelmFails
  <2>2. orig # 0 => history[orig].status \in Status
    <3>1. orig # 0 => orig \in Revisions
      BY <1>0, <1>27 DEF ApplyTimesOut, OperationInv
    <3> QED
      BY <1>0, <3>1, RevisionFields DEF HistoryOK, Revisions
  <2>3. background'.status \in Status
    BY <1>27, <2>2 DEF ApplyTimesOut, Status
  <2> QED
    BY <1>c, <2>1, <2>3 DEF Status
<1>28. CASE BackgroundSucceeds
  <2>1. Reserve' = Reserve /\ background'.status \in Status
    BY <1>28 DEF BackgroundSucceeds, Reserve, NoBackground, Status
  <2>2. history' = Marked(history, background.up, "deployed")
        \/ history' = Marked(history, background.orig, "superseded")
    BY <1>28 DEF BackgroundSucceeds
  <2>3. Reserve' <= Reserve
    BY <1>0, <2>1
  <2> QED
    BY <1>0, <1>c, <2>1, <2>2, <2>3 DEF Status
<1>29. CASE BackgroundFails
  <2>1. Reserve' = Reserve /\ background'.status \in Status
    BY <1>29 DEF BackgroundFails, Reserve, NoBackground, Status
  <2>2. history' = history
        \/ history' = Marked(Marked(history, background.orig, background.status), background.up, "failed")
    BY <1>29 DEF BackgroundFails
  <2>3. Reserve' <= Reserve
    BY <1>0, <2>1
  <2> QED
    BY <1>0, <1>c, <2>1, <2>2, <2>3 DEF Status
<1>30. CASE RollbackFails
  <2>1. Reserve' <= Reserve /\ background' = background
    BY <1>30 DEF RollbackFails, Reserve, Fault, Goto, Returns, HelmFails
  <2>2. history' = Marked(history, up, "failed")
        \/ history' = Marked(Marked(history, up - 1, "superseded"), up, "failed")
    BY <1>30 DEF RollbackFails
  <2> QED
    BY <1>0, <1>c, <2>1, <2>2 DEF Status
<1>31. CASE MigrateCreate
  <2>1. CASE orig + 1 \in Revisions
    <3>1. history' = history /\ Reserve' <= Reserve /\ background' = background
      BY <1>31, <2>1 DEF MigrateCreate, Reserve, Fault, Goto, Returns, HelmFails
    <3> QED
      BY <1>a, <3>1
  <2>2. CASE orig + 1 \notin Revisions
    <3> DEFINE rev == [history[orig] EXCEPT !.status = "deployed", !.served = TRUE, !.migrated = TRUE]
    <3>1. history' = Stored(orig + 1, rev, 0) /\ Reserve = 3 /\ Reserve' = 2 /\ background' = background
      BY <1>31, <2>2 DEF MigrateCreate, Reserve, Goto
    <3>2. orig \in Revisions /\ orig \in Nat /\ orig + 3 <= MaxRevision
      BY <1>0, <1>31, <3>1 DEF MigrateCreate, OperationInv, HistoryInv, HistoryOK, Room, Revisions
    <3>3. history[orig] \in Revision
      BY <1>0, <3>2 DEF HistoryOK, Revisions
    <3>4. rev \in Revision /\ rev.migrated
      BY <3>3 DEF Revision, Status
    <3> HIDE DEF rev
    <3>5. PICK k : k = orig + 1
      OBVIOUS
    <3>6. PICK w : w = rev
      OBVIOUS
    <3>7. k \in Nat \ {0} /\ k + Reserve' <= MaxRevision /\ Reserve' <= Reserve
      BY <1>0, <3>1, <3>2, <3>5
    <3>8. history' = Stored(k, w, 0) /\ w \in Revision /\ w.migrated
      BY <3>1, <3>4, <3>5, <3>6
    <3> QED
      BY <1>0, <3>1, <3>7, <3>8, OneStored
  <2> QED
    BY <2>1, <2>2
<1>32. CASE CreateRevision
  <2> DEFINE rev == [status |-> "pending", pkg |-> op.pkg, served |-> newAPIs, proven |-> FALSE, migrated |-> FALSE]
  <2>1. /\ history' = Stored(Newest + 1, rev, IF op.kind = "deploy" /\ orig # 0 THEN maxHelmHistory ELSE 0)
        /\ Reserve = 2 /\ Reserve' = 1 /\ background' = background
    BY <1>32 DEF CreateRevision, Reserve, Goto
  <2>2. Newest \in Nat /\ Newest + 2 <= MaxRevision
    BY <1>0, <2>1, NewestFacts DEF HistoryInv
  <2>3. rev \in Revision /\ rev.status = "pending"
    BY <1>0, <1>32 DEF CreateRevision, OperationInv, HelmInv, RecordInv, Revision, Status
  <2> HIDE DEF rev
  <2>4. PICK k : k = Newest + 1
    OBVIOUS
  <2>5. PICK w : w = rev
    OBVIOUS
  <2>6. PICK x : x = IF op.kind = "deploy" /\ orig # 0 THEN maxHelmHistory ELSE 0
    OBVIOUS
  <2>7. k \in Nat \ {0} /\ k + Reserve' <= MaxRevision /\ Reserve' <= Reserve
    BY <1>0, <2>1, <2>2, <2>4
  <2>8. history' = Stored(k, w, x) /\ w \in Revision /\ w.status # "deployed"
    BY <2>1, <2>3, <2>4, <2>5, <2>6
  <2> QED
    BY <1>0, <2>1, <2>7, <2>8, OneStored
<1>33. CASE RollbackCreate
  <2> DEFINE rev == [history[orig] EXCEPT !.status = "pending", !.proven = FALSE]
  <2>1. /\ history' = Stored(Newest + 1, rev, maxHelmHistory)
        /\ Reserve = 1 /\ Reserve' = 0 /\ background' = background /\ orig \in Revisions
    BY <1>33 DEF RollbackCreate, Reserve, Goto
  <2>2. Newest \in Nat /\ Newest + 1 <= MaxRevision
    BY <1>0, <2>1, NewestFacts DEF HistoryInv
  <2>3. history[orig] \in Revision
    BY <1>0, <2>1 DEF HistoryOK, Revisions
  <2>4. rev \in Revision /\ rev.status = "pending"
    BY <2>3 DEF Revision, Status
  <2> HIDE DEF rev
  <2>5. PICK k : k = Newest + 1
    OBVIOUS
  <2>6. PICK w : w = rev
    OBVIOUS
  <2>7. k \in Nat \ {0} /\ k + Reserve' <= MaxRevision /\ Reserve' <= Reserve
    BY <1>0, <2>1, <2>2, <2>5
  <2>8. history' = Stored(k, w, maxHelmHistory) /\ w \in Revision /\ w.status # "deployed"
    BY <2>1, <2>4, <2>5, <2>6
  <2> QED
    BY <1>0, <2>1, <2>7, <2>8, OneStored
<1>34. CASE RollbackApplied
  <2>1. Reserve' <= Reserve /\ background' = background
    BY <1>34 DEF RollbackApplied, Reserve, Goto
  <2>2. DOMAIN history' = DOMAIN history
    BY <1>34 DEF RollbackApplied, Revisions
  <2>3. ASSUME NEW r \in DOMAIN history
        PROVE  /\ history'[r] \in Revision
               /\ history'[r].status = "deployed" => history'[r].proven \/ history'[r].migrated
    <3>1. history[r] \in Revision
      BY <1>0 DEF HistoryOK
    <3>2. CASE r \in Deployed
      <4>1. history'[r] = [history[r] EXCEPT !.status = "superseded"]
        BY <1>34, <3>2 DEF RollbackApplied, Revisions
      <4> QED
        BY <3>1, <4>1 DEF Revision, Status
    <3>3. CASE r \notin Deployed
      <4>1. history'[r] = history[r]
        BY <1>34, <3>3 DEF RollbackApplied, Revisions
      <4> QED
        BY <1>0, <3>1, <4>1 DEF HistoryOK
    <3> QED
      BY <3>2, <3>3
  <2>4. history' = [r \in DOMAIN history' |-> history'[r]]
    BY <1>34 DEF RollbackApplied
  <2>5. HistoryOK(history')
    BY <1>0, <2>2, <2>3, <2>4 DEF HistoryOK
  <2> QED
    BY <1>0, <2>1, <2>2, <2>5, NothingStored
<1>35. CASE Purge
  <2>1. Reserve' = Reserve /\ background' = background
    BY <1>35 DEF Purge, Reserve
  <2>2. DOMAIN history' = Revisions \ {Min(Revisions)} /\ \A r \in DOMAIN history' : history'[r] = history[r]
    BY <1>35 DEF Purge
  <2>3. history' = [r \in DOMAIN history' |-> history'[r]]
    BY <1>35 DEF Purge
  <2>4. HistoryOK(history')
    BY <1>0, <2>2, <2>3 DEF HistoryOK, Revisions
  <2>5. Reserve' <= Reserve
    BY <1>0, <2>1
  <2> QED
    BY <1>0, <2>1, <2>2, <2>4, <2>5, NothingStored DEF Revisions
<1> QED
  BY <1>1, <1>2, <1>3, <1>4, <1>5, <1>6, <1>7, <1>8, <1>9, <1>10, <1>11, <1>12, <1>13, <1>14,
     <1>15, <1>16, <1>17, <1>18, <1>19, <1>20, <1>21, <1>22, <1>23, <1>24, <1>25, <1>26, <1>27,
     <1>28, <1>29, <1>30, <1>31, <1>32, <1>33, <1>34, <1>35 DEF Next

-----------------------------------------------------------------------------
(* The operation through every step.                                       *)

\* Where an operation does not look at revisions any more.
Settled == {"idle", "record", "health", "failed", "rollingback", "rolledback", "returned",
            "uninstall", "purge"}

LEMMA OperationStep ==
    ASSUME HelmInv, Next
    PROVE  OperationInv'
<1>0. HistoryInv /\ OperationInv /\ HistoryInv' /\ HistoryOK(history) /\ MaxRevision \in Nat
  BY HistoryStep, HistoryAssumption DEF HelmInv, HistoryInv
<1>n. /\ Revisions \subseteq 1..MaxRevision
      /\ Revisions # {} => ListedLast(Revisions) \in Revisions
      /\ Deployed # {} => ListedLast(Deployed) \in Deployed
      /\ Deployed \subseteq Revisions
  BY <1>0, RevisionNumbers DEF Deployed
<1>k. op.pkg \in Pkg \cup {NoPkg} /\ orig \in 0..MaxRevision /\ up \in 0..MaxRevision
  BY <1>0 DEF OperationInv
\* A step to where no revision is looked at.
<1>a. ASSUME pc' \in Settled, op' = op \/ op' = NoOp, orig' = orig \/ orig' = 0, up' = up \/ up' = 0
      PROVE  OperationInv'
  <2>1. op'.pkg \in Pkg \cup {NoPkg}
    BY <1>k, <1>a DEF NoOp
  <2>2. orig' \in 0..MaxRevision /\ up' \in 0..MaxRevision
    BY <1>0, <1>k, <1>a
  <2> QED
    BY <1>a, <2>1, <2>2 DEF OperationInv, RollbackIsProven, Settled
\* A step that only marks revisions.
<1>b. ASSUME UNCHANGED <<op, orig, up, pc, migration>>, pc \notin {"namespaces", "apply"},
             \E r, q : \E s, t \in Status :
               history' \in {history, Marked(history, r, s), Marked(Marked(history, r, s), q, t)}
      PROVE  OperationInv'
  <2>1. /\ DOMAIN history' = DOMAIN history
        /\ \A o \in DOMAIN history :
             history[o].proven \/ history[o].migrated => history'[o].proven \/ history'[o].migrated
    BY <1>0, <1>b, OnlyMarked
  <2>2. Revisions' = Revisions
    BY <2>1 DEF Revisions
  <2>3. RollbackIsProven'
    BY <1>0, <1>b, <2>1 DEF OperationInv, RollbackIsProven, Revisions
  <2> QED
    BY <1>0, <1>b, <2>2, <2>3 DEF OperationInv
<1>1. ASSUME NEW p \in Pkg, NEW own \in BOOLEAN, InstallOrUpgradeChart(p, own)
      PROVE  OperationInv'
  <2>1. /\ op'.pkg = p /\ orig' = 0 /\ up' = 0 /\ migration' = "none" /\ history' = history
        /\ pc' = IF Revisions = {} THEN "prepare" ELSE "migrate"
    BY <1>1 DEF InstallOrUpgradeChart, Start, Operation, Goto
  <2> QED
    BY <1>0, <2>1 DEF OperationInv, RollbackIsProven, Revisions
<1>2. CASE UpdateReleaseValues
  <2>1. /\ op'.pkg = history[ListedLast(Revisions)].pkg /\ orig' = 0 /\ up' = 0
        /\ pc' = "prepare" /\ history' = history /\ Revisions # {}
    BY <1>2 DEF UpdateReleaseValues, Start, Operation, Goto
  <2>2. op'.pkg \in Pkg
    BY <1>0, <1>n, <2>1, RevisionFields DEF HistoryOK, Revisions
  <2> QED
    BY <1>0, <2>1, <2>2 DEF OperationInv, RollbackIsProven
<1>3. CASE StartFails
  <2>1. /\ pc' \in Settled /\ (op' = op \/ op' = NoOp)
        /\ (orig' = orig \/ orig' = 0) /\ (up' = up \/ up' = 0)
    BY <1>3 DEF StartFails, Settled, Fault, Goto, Returns, HelmFails
  <2> QED
    BY <1>a, <2>1
<1>4. CASE MigrateNothing
  <2>1. pc' = "prepare" /\ pc = "migrate" /\ UNCHANGED <<op, orig, up>>
    BY <1>4 DEF MigrateNothing, Goto
  <2> QED
    BY <1>0, <1>k, <2>1 DEF OperationInv, RollbackIsProven
<1>5. CASE MigrateSupersede
  <2>1. /\ pc = "migrate" /\ UNCHANGED <<pc, op, up>> /\ orig' = ListedLast(Revisions)
        /\ history' = Marked(history, ListedLast(Revisions), "superseded")
    BY <1>5 DEF MigrateSupersede
  <2>2. orig' \in Revisions /\ op.pkg \in Pkg /\ Revisions # {}
    BY <1>0, <1>n, <2>1 DEF OperationInv
  <2>3. DOMAIN history' = DOMAIN history
    BY <1>0, <2>1, MarkedFacts DEF Status
  <2>4. orig' \in 0..MaxRevision
    BY <1>0, <1>n, <2>2
  <2> QED
    BY <1>k, <2>1, <2>2, <2>3, <2>4 DEF OperationInv, RollbackIsProven, Revisions
<1>6. CASE MigrateCreate
  <2>1. UNCHANGED <<op, orig, up>> /\ pc' \in {"failed", "returned", "prepare"} /\ pc = "migrate"
    BY <1>6 DEF MigrateCreate, HelmFails, Goto, Returns
  <2> QED
    BY <1>0, <1>k, <2>1 DEF OperationInv, RollbackIsProven
<1>7. CASE MigrateFails
  <2>1. /\ pc' \in Settled /\ (op' = op \/ op' = NoOp)
        /\ (orig' = orig \/ orig' = 0) /\ (up' = up \/ up' = 0)
    BY <1>7 DEF MigrateFails, Settled, Fault, Goto, Returns, HelmFails
  <2> QED
    BY <1>a, <2>1
<1>8. CASE Prepare
  <2>1. /\ pc = "prepare" /\ pc' = "namespaces" /\ UNCHANGED <<op, up, history>>
        /\ orig' = CurrentRelease
    BY <1>8 DEF Prepare, Goto
  <2>2. CurrentRelease \in Revisions \cup {0}
    BY <1>0, CurrentIsKept
  <2>3. orig' \in 0..MaxRevision
    BY <1>0, <1>n, <2>1, <2>2
  <2>4. CurrentRelease' = CurrentRelease
    BY <2>1 DEF CurrentRelease, Revisions, Newest, Deployed
  <2> QED
    BY <1>0, <1>k, <2>1, <2>3, <2>4 DEF OperationInv, RollbackIsProven
<1>9. CASE UpgradeRefused
  <2>1. /\ pc' \in Settled /\ (op' = op \/ op' = NoOp)
        /\ (orig' = orig \/ orig' = 0) /\ (up' = up \/ up' = 0)
    BY <1>9 DEF UpgradeRefused, Settled, Fault, Goto, Returns, HelmFails
  <2> QED
    BY <1>a, <2>1
<1>10. CASE PrepareNamespace
  <2>1. pc = "namespaces" /\ UNCHANGED <<op, orig, up, pc, history>>
    BY <1>10 DEF PrepareNamespace
  <2>2. CurrentRelease' = CurrentRelease
    BY <2>1 DEF CurrentRelease, Revisions, Newest, Deployed
  <2> QED
    BY <1>0, <2>1, <2>2 DEF OperationInv, RollbackIsProven
<1>11. CASE ApplySecrets
  <2>1. pc = "namespaces" /\ UNCHANGED <<op, orig, up, pc, history>>
    BY <1>11 DEF ApplySecrets
  <2>2. CurrentRelease' = CurrentRelease
    BY <2>1 DEF CurrentRelease, Revisions, Newest, Deployed
  <2> QED
    BY <1>0, <2>1, <2>2 DEF OperationInv, RollbackIsProven
<1>12. CASE RenderFails
  <2>1. /\ pc' \in Settled /\ (op' = op \/ op' = NoOp)
        /\ (orig' = orig \/ orig' = 0) /\ (up' = up \/ up' = 0)
    BY <1>12 DEF RenderFails, Settled, Fault, Goto, Returns, HelmFails
  <2> QED
    BY <1>a, <2>1
<1>13. CASE CreateRevision
  <2>1. /\ pc = "namespaces" /\ pc' = "apply" /\ UNCHANGED <<op, orig>> /\ up' = Newest + 1
        /\ \E rev : history' = Stored(Newest + 1, rev,
                               IF op.kind = "deploy" /\ orig # 0 THEN maxHelmHistory ELSE 0)
    BY <1>13 DEF CreateRevision, Goto
  <2>2. Newest \in Nat /\ Newest + 2 <= MaxRevision
    <3>1. Room(history, 2)
      BY <1>0, <2>1 DEF HistoryInv, Reserve
    <3> QED
      BY <1>0, <3>1, NewestFacts
  <2>3. up' \in 0..MaxRevision
    BY <1>0, <2>1, <2>2
  <2>4. orig' \in Revisions' \cup {0}
    <3>1. orig = CurrentRelease
      BY <1>0, <2>1 DEF OperationInv
    <3> QED
      BY <1>0, <2>1, <3>1, CurrentIsKept DEF Revisions
  <2> QED
    BY <1>0, <1>k, <2>1, <2>3, <2>4 DEF OperationInv, RollbackIsProven
<1>14. CASE Applied
  <2>1. /\ pc' \in Settled /\ (op' = op \/ op' = NoOp)
        /\ (orig' = orig \/ orig' = 0) /\ (up' = up \/ up' = 0)
    BY <1>14 DEF Applied, Settled, Fault, Goto, Returns, HelmFails
  <2> QED
    BY <1>a, <2>1
<1>15. CASE RecordDeployed
  <2>1. /\ pc' \in Settled /\ (op' = op \/ op' = NoOp)
        /\ (orig' = orig \/ orig' = 0) /\ (up' = up \/ up' = 0)
    BY <1>15 DEF RecordDeployed, Settled, Fault, Goto, Returns, HelmFails
  <2> QED
    BY <1>a, <2>1
<1>16. CASE RecordLost
  <2>1. /\ pc' \in Settled /\ (op' = op \/ op' = NoOp)
        /\ (orig' = orig \/ orig' = 0) /\ (up' = up \/ up' = 0)
    BY <1>16 DEF RecordLost, Settled, Fault, Goto, Returns, HelmFails
  <2> QED
    BY <1>a, <2>1
<1>17. CASE ApplyFails
  <2>1. /\ pc' \in Settled /\ (op' = op \/ op' = NoOp)
        /\ (orig' = orig \/ orig' = 0) /\ (up' = up \/ up' = 0)
    BY <1>17 DEF ApplyFails, Settled, Fault, Goto, Returns, HelmFails
  <2> QED
    BY <1>a, <2>1
<1>18. CASE ApplyTimesOut
  <2>1. /\ pc' \in Settled /\ (op' = op \/ op' = NoOp)
        /\ (orig' = orig \/ orig' = 0) /\ (up' = up \/ up' = 0)
    BY <1>18 DEF ApplyTimesOut, Settled, Fault, Goto, Returns, HelmFails
  <2> QED
    BY <1>a, <2>1
<1>19. CASE BackgroundSucceeds
  <2>1. UNCHANGED <<op, orig, up, pc, migration>> /\ pc \notin {"namespaces", "apply"}
    BY <1>19 DEF BackgroundSucceeds, HelmInv, BackgroundInv, Unwinding
  <2>2. history' = Marked(history, background.up, "deployed")
        \/ history' = Marked(history, background.orig, "superseded")
    BY <1>19 DEF BackgroundSucceeds
  <2> QED
    BY <1>b, <2>1, <2>2 DEF Status
<1>20. CASE BackgroundFails
  <2>1. UNCHANGED <<op, orig, up, pc, migration>> /\ pc \notin {"namespaces", "apply"}
    BY <1>20 DEF BackgroundFails, HelmInv, BackgroundInv, Unwinding
  <2>2. history' = history
        \/ history' = Marked(Marked(history, background.orig, background.status), background.up, "failed")
    BY <1>20 DEF BackgroundFails
  <2>3. background.status \in Status
    BY <1>0 DEF HistoryInv
  <2> QED
    BY <1>b, <2>1, <2>2, <2>3 DEF Status
<1>21. CASE HealthChecked
  <2>1. /\ pc' \in Settled /\ (op' = op \/ op' = NoOp)
        /\ (orig' = orig \/ orig' = 0) /\ (up' = up \/ up' = 0)
    BY <1>21 DEF HealthChecked, Settled, Fault, Goto, Returns, HelmFails
  <2> QED
    BY <1>a, <2>1
<1>22. CASE ChooseRollback
  <2>1. pc = "failed" /\ UNCHANGED <<op, up, history>>
    BY <1>22 DEF ChooseRollback
  <2>2. CASE pc' = "returned" /\ orig' = orig
    BY <1>a, <2>1, <2>2 DEF Settled
  <2>3. CASE pc' = "rollback" /\ Deployed # {} /\ orig' = ListedLast(Deployed)
    <3>1. orig' \in Deployed
      BY <1>n, <2>3
    <3>2. history[orig'].proven \/ history[orig'].migrated
      BY <1>0, <3>1 DEF HistoryOK, Deployed, Revisions
    <3>3. orig' \in 0..MaxRevision
      BY <1>0, <1>n, <3>1
    <3> QED
      BY <1>k, <2>1, <2>3, <3>2, <3>3 DEF OperationInv, RollbackIsProven
  <2> QED
    BY <1>22, <2>2, <2>3 DEF ChooseRollback, Returns, Goto, RollbackCandidates
<1>23. CASE RollbackCreate
  <2>1. pc = "rollback" /\ pc' = "rollingback" /\ UNCHANGED <<op, orig>> /\ up' = Newest + 1
    BY <1>23 DEF RollbackCreate, Goto
  <2>2. Newest \in Nat /\ Newest + 1 <= MaxRevision
    <3>1. Room(history, 1)
      BY <1>0, <2>1 DEF HistoryInv, Reserve
    <3> QED
      BY <1>0, <3>1, NewestFacts
  <2>3. up' \in 0..MaxRevision
    BY <1>0, <2>1, <2>2
  <2> QED
    BY <1>k, <2>1, <2>3 DEF OperationInv, RollbackIsProven
<1>24. CASE RollbackStops
  <2>1. /\ pc' \in Settled /\ (op' = op \/ op' = NoOp)
        /\ (orig' = orig \/ orig' = 0) /\ (up' = up \/ up' = 0)
    BY <1>24 DEF RollbackStops, Settled, Fault, Goto, Returns, HelmFails
  <2> QED
    BY <1>a, <2>1
<1>25. CASE RollbackFails
  <2>1. /\ pc' \in Settled /\ (op' = op \/ op' = NoOp)
        /\ (orig' = orig \/ orig' = 0) /\ (up' = up \/ up' = 0)
    BY <1>25 DEF RollbackFails, Settled, Fault, Goto, Returns, HelmFails
  <2> QED
    BY <1>a, <2>1
<1>26. CASE RollbackApplied
  <2>1. /\ pc' \in Settled /\ (op' = op \/ op' = NoOp)
        /\ (orig' = orig \/ orig' = 0) /\ (up' = up \/ up' = 0)
    BY <1>26 DEF RollbackApplied, Settled, Fault, Goto, Returns, HelmFails
  <2> QED
    BY <1>a, <2>1
<1>27. CASE RollbackRecorded
  <2>1. /\ pc' \in Settled /\ (op' = op \/ op' = NoOp)
        /\ (orig' = orig \/ orig' = 0) /\ (up' = up \/ up' = 0)
    BY <1>27 DEF RollbackRecorded, Settled, Fault, Goto, Returns, HelmFails
  <2> QED
    BY <1>a, <2>1
<1>28. CASE Uninstalling
  <2>1. /\ pc' \in Settled /\ (op' = op \/ op' = NoOp)
        /\ (orig' = orig \/ orig' = 0) /\ (up' = up \/ up' = 0)
    BY <1>28 DEF Uninstalling, Settled, Fault, Goto, Returns, HelmFails
  <2> QED
    BY <1>a, <2>1
<1>29. CASE Purge
  <2>1. /\ pc' \in Settled /\ (op' = op \/ op' = NoOp)
        /\ (orig' = orig \/ orig' = 0) /\ (up' = up \/ up' = 0)
    BY <1>29 DEF Purge, Settled, Fault, Goto, Returns, HelmFails
  <2> QED
    BY <1>a, <2>1
<1>30. CASE Uninstalled
  <2>1. /\ pc' \in Settled /\ (op' = op \/ op' = NoOp)
        /\ (orig' = orig \/ orig' = 0) /\ (up' = up \/ up' = 0)
    BY <1>30 DEF Uninstalled, Settled, Fault, Goto, Returns, HelmFails
  <2> QED
    BY <1>a, <2>1
<1>31. CASE UninstallFails
  <2>1. /\ pc' \in Settled /\ (op' = op \/ op' = NoOp)
        /\ (orig' = orig \/ orig' = 0) /\ (up' = up \/ up' = 0)
    BY <1>31 DEF UninstallFails, Settled, Fault, Goto, Returns, HelmFails
  <2> QED
    BY <1>a, <2>1
<1>32. CASE Exit
  <2>1. /\ pc' \in Settled /\ (op' = op \/ op' = NoOp)
        /\ (orig' = orig \/ orig' = 0) /\ (up' = up \/ up' = 0)
    BY <1>32 DEF Exit, Settled, Fault, Goto, Returns, HelmFails
  <2> QED
    BY <1>a, <2>1
<1>33. CASE Killed
  <2>1. /\ pc' \in Settled /\ (op' = op \/ op' = NoOp)
        /\ (orig' = orig \/ orig' = 0) /\ (up' = up \/ up' = 0)
    BY <1>33 DEF Killed, Settled, Fault, Goto, Returns, HelmFails
  <2> QED
    BY <1>a, <2>1
<1>34. CASE RemoveChart
  <2>1. pc' = "uninstall" /\ op'.pkg = NoPkg /\ UNCHANGED <<orig, up>>
    BY <1>34 DEF RemoveChart, Operation, Goto
  <2> QED
    BY <1>k, <2>1 DEF OperationInv, RollbackIsProven
<1>35. CASE UpgradeCluster
  <2>1. UNCHANGED <<op, orig, up, pc, migration>> /\ history' = history /\ pc = "idle"
    BY <1>35 DEF UpgradeCluster
  <2> QED
    BY <1>b, <2>1 DEF Status
<1> QED
  BY <1>1, <1>2, <1>3, <1>4, <1>5, <1>6, <1>7, <1>8, <1>9, <1>10, <1>11, <1>12, <1>13, <1>14,
     <1>15, <1>16, <1>17, <1>18, <1>19, <1>20, <1>21, <1>22, <1>23, <1>24, <1>25, <1>26, <1>27,
     <1>28, <1>29, <1>30, <1>31, <1>32, <1>33, <1>34, <1>35 DEF Next

\* Helm's goroutine runs on only while its upgrade is unwound.
LEMMA BackgroundStep ==
    ASSUME HelmInv, Next
    PROVE  BackgroundInv'
<1>0. BackgroundInv
  BY DEF HelmInv
<1>a. ASSUME pc' \in Unwinding \/ background'.on = FALSE
             \/ (background' = background /\ (pc \notin Unwinding \/ pc' = pc))
      PROVE  BackgroundInv'
  BY <1>0, <1>a DEF BackgroundInv
<1>1. ASSUME NEW p \in Pkg, NEW own \in BOOLEAN, InstallOrUpgradeChart(p, own)
      PROVE  BackgroundInv'
  BY <1>a, <1>1 DEF InstallOrUpgradeChart, Start, Unwinding
<1>2. CASE UpdateReleaseValues
  BY <1>a, <1>2 DEF UpdateReleaseValues, Start, Unwinding
<1>3. CASE StartFails
  BY <1>a, <1>3 DEF StartFails, Fault, Goto, Returns, HelmFails, Unwinding, NoBackground
<1>4. CASE MigrateNothing
  BY <1>a, <1>4 DEF MigrateNothing, Fault, Goto, Returns, HelmFails, Unwinding, NoBackground
<1>5. CASE MigrateSupersede
  BY <1>a, <1>5 DEF MigrateSupersede, Fault, Goto, Returns, HelmFails, Unwinding, NoBackground
<1>6. CASE MigrateCreate
  BY <1>a, <1>6 DEF MigrateCreate, Fault, Goto, Returns, HelmFails, Unwinding, NoBackground
<1>7. CASE MigrateFails
  BY <1>a, <1>7 DEF MigrateFails, Fault, Goto, Returns, HelmFails, Unwinding, NoBackground
<1>8. CASE Prepare
  BY <1>a, <1>8 DEF Prepare, Fault, Goto, Returns, HelmFails, Unwinding, NoBackground
<1>9. CASE UpgradeRefused
  BY <1>a, <1>9 DEF UpgradeRefused, Fault, Goto, Returns, HelmFails, Unwinding, NoBackground
<1>10. CASE PrepareNamespace
  BY <1>a, <1>10 DEF PrepareNamespace, Fault, Goto, Returns, HelmFails, Unwinding, NoBackground
<1>11. CASE ApplySecrets
  BY <1>a, <1>11 DEF ApplySecrets, Fault, Goto, Returns, HelmFails, Unwinding, NoBackground
<1>12. CASE RenderFails
  BY <1>a, <1>12 DEF RenderFails, Fault, Goto, Returns, HelmFails, Unwinding, NoBackground
<1>13. CASE CreateRevision
  BY <1>a, <1>13 DEF CreateRevision, Fault, Goto, Returns, HelmFails, Unwinding, NoBackground
<1>14. CASE Applied
  BY <1>a, <1>14 DEF Applied, Fault, Goto, Returns, HelmFails, Unwinding, NoBackground
<1>15. CASE RecordDeployed
  BY <1>a, <1>15 DEF RecordDeployed, Fault, Goto, Returns, HelmFails, Unwinding, NoBackground
<1>16. CASE RecordLost
  BY <1>a, <1>16 DEF RecordLost, Fault, Goto, Returns, HelmFails, Unwinding, NoBackground
<1>17. CASE ApplyFails
  BY <1>a, <1>17 DEF ApplyFails, Fault, Goto, Returns, HelmFails, Unwinding, NoBackground
<1>18. CASE ApplyTimesOut
  BY <1>a, <1>18 DEF ApplyTimesOut, Fault, Goto, Returns, HelmFails, Unwinding, NoBackground
<1>19. CASE BackgroundSucceeds
  BY <1>a, <1>19 DEF BackgroundSucceeds, Fault, Goto, Returns, HelmFails, Unwinding, NoBackground
<1>20. CASE BackgroundFails
  BY <1>a, <1>20 DEF BackgroundFails, Fault, Goto, Returns, HelmFails, Unwinding, NoBackground
<1>21. CASE HealthChecked
  BY <1>a, <1>21 DEF HealthChecked, Fault, Goto, Returns, HelmFails, Unwinding, NoBackground
<1>22. CASE ChooseRollback
  BY <1>a, <1>22 DEF ChooseRollback, Fault, Goto, Returns, HelmFails, Unwinding, NoBackground
<1>23. CASE RollbackCreate
  BY <1>a, <1>23 DEF RollbackCreate, Fault, Goto, Returns, HelmFails, Unwinding, NoBackground
<1>24. CASE RollbackStops
  BY <1>a, <1>24 DEF RollbackStops, Fault, Goto, Returns, HelmFails, Unwinding, NoBackground
<1>25. CASE RollbackFails
  BY <1>a, <1>25 DEF RollbackFails, Fault, Goto, Returns, HelmFails, Unwinding, NoBackground
<1>26. CASE RollbackApplied
  BY <1>a, <1>26 DEF RollbackApplied, Fault, Goto, Returns, HelmFails, Unwinding, NoBackground
<1>27. CASE RollbackRecorded
  BY <1>a, <1>27 DEF RollbackRecorded, Fault, Goto, Returns, HelmFails, Unwinding, NoBackground
<1>28. CASE Uninstalling
  BY <1>a, <1>28 DEF Uninstalling, Fault, Goto, Returns, HelmFails, Unwinding, NoBackground
<1>29. CASE Purge
  BY <1>a, <1>29 DEF Purge, Fault, Goto, Returns, HelmFails, Unwinding, NoBackground
<1>30. CASE Uninstalled
  BY <1>a, <1>30 DEF Uninstalled, Fault, Goto, Returns, HelmFails, Unwinding, NoBackground
<1>31. CASE UninstallFails
  BY <1>a, <1>31 DEF UninstallFails, Fault, Goto, Returns, HelmFails, Unwinding, NoBackground
<1>32. CASE Exit
  BY <1>a, <1>32 DEF Exit, Fault, Goto, Returns, HelmFails, Unwinding, NoBackground
<1>33. CASE Killed
  BY <1>a, <1>33 DEF Killed, Fault, Goto, Returns, HelmFails, Unwinding, NoBackground
<1>34. CASE RemoveChart
  BY <1>a, <1>34 DEF RemoveChart, Fault, Goto, Returns, HelmFails, Unwinding, NoBackground
<1>35. CASE UpgradeCluster
  BY <1>a, <1>35 DEF UpgradeCluster, Fault, Goto, Returns, HelmFails, Unwinding, NoBackground
<1> QED
  BY <1>1, <1>2, <1>3, <1>4, <1>5, <1>6, <1>7, <1>8, <1>9, <1>10, <1>11, <1>12, <1>13, <1>14,
     <1>15, <1>16, <1>17, <1>18, <1>19, <1>20, <1>21, <1>22, <1>23, <1>24, <1>25, <1>26, <1>27,
     <1>28, <1>29, <1>30, <1>31, <1>32, <1>33, <1>34, <1>35 DEF Next

-----------------------------------------------------------------------------
(* The namespaces through every step.                                      *)

LEMMA NamespaceFields ==
    ASSUME NEW ns \in NamespaceState
    PROVE  /\ ns.exists \in BOOLEAN /\ ns.managed \in BOOLEAN /\ ns.secrets \in BOOLEAN
           /\ [ns EXCEPT !.secrets = TRUE] \in NamespaceState
           /\ [ns EXCEPT !.secrets = TRUE].exists = ns.exists
           /\ [ns EXCEPT !.secrets = TRUE].secrets = TRUE
           /\ [ns EXCEPT !.exists = TRUE, !.managed = TRUE] \in NamespaceState
           /\ [ns EXCEPT !.exists = TRUE, !.managed = TRUE].exists = TRUE
           /\ [ns EXCEPT !.exists = TRUE, !.managed = TRUE].secrets = ns.secrets
BY DEF NamespaceState

\* Preparing a namespace makes it exist and takes secrets from none.
LEMMA AdoptFacts ==
    ASSUME namespaces \in [Namespace -> NamespaceState], NEW n \in Namespace, NEW own,
           adoptAndUpdateNamespace(n, own)
    PROVE  /\ namespaces' \in [Namespace -> NamespaceState]
           /\ namespaces'[n].exists
           /\ \A m \in Namespace : /\ namespaces[m].exists => namespaces'[m].exists
                                   /\ namespaces[m].secrets => namespaces'[m].secrets
<1>1. CASE ~namespaces[n].exists \/ (own /\ n \notin Initial)
  <2>1. namespaces' = [namespaces EXCEPT ![n] = [namespaces[n] EXCEPT !.exists = TRUE, !.managed = TRUE]]
    BY <1>1 DEF adoptAndUpdateNamespace
  <2> DEFINE ns == [namespaces[n] EXCEPT !.exists = TRUE, !.managed = TRUE]
  <2>2. ns \in NamespaceState /\ ns.exists = TRUE /\ ns.secrets = namespaces[n].secrets
    BY NamespaceFields
  <2> HIDE DEF ns
  <2>3. namespaces' = [namespaces EXCEPT ![n] = ns]
    BY <2>1 DEF ns
  <2> QED
    BY <2>2, <2>3
<1>2. CASE ~(~namespaces[n].exists \/ (own /\ n \notin Initial))
  <2>1. namespaces' = namespaces /\ namespaces[n].exists
    BY <1>2 DEF adoptAndUpdateNamespace
  <2> QED
    BY <2>1
<1> QED
  BY <1>1, <1>2

LEMMA SecretFacts ==
    ASSUME namespaces \in [Namespace -> NamespaceState], bare \subseteq Namespace, applySecrets
    PROVE  /\ namespaces' \in [Namespace -> NamespaceState]
           /\ \A n \in bare : namespaces'[n].secrets
           /\ \A m \in Namespace : /\ namespaces[m].exists => namespaces'[m].exists
                                   /\ namespaces[m].secrets => namespaces'[m].secrets
<1>1. namespaces' = [n \in Namespace |->
        IF n \in bare THEN [namespaces[n] EXCEPT !.secrets = TRUE] ELSE namespaces[n]]
  BY DEF applySecrets
<1>2. ASSUME NEW n \in Namespace
      PROVE  /\ namespaces'[n] \in NamespaceState
             /\ n \in bare => namespaces'[n].secrets
             /\ namespaces[n].exists => namespaces'[n].exists
             /\ namespaces[n].secrets => namespaces'[n].secrets
  <2>1. namespaces[n] \in NamespaceState
    OBVIOUS
  <2>2. CASE n \in bare
    <3> DEFINE ns == [namespaces[n] EXCEPT !.secrets = TRUE]
    <3>1. ns \in NamespaceState /\ ns.exists = namespaces[n].exists /\ ns.secrets = TRUE
      BY <2>1, NamespaceFields
    <3>2. namespaces'[n] = ns
      BY <1>1, <2>2
    <3> HIDE DEF ns
    <3> QED
      BY <3>1, <3>2
  <2>3. CASE n \notin bare
    <3>1. namespaces'[n] = namespaces[n]
      BY <1>1, <2>3
    <3> QED
      BY <2>1, <2>3, <3>1
  <2> QED
    BY <2>2, <2>3
<1>3. namespaces' \in [Namespace -> NamespaceState]
  BY <1>1, <1>2
<1> QED
  BY <1>2, <1>3

LEMMA RenderStep ==
    ASSUME HelmInv, Next
    PROVE  RenderInv'
<1>0. RenderInv /\ OperationInv /\ OperationInv'
  BY OperationStep DEF HelmInv
<1>n. /\ namespaces \in [Namespace -> NamespaceState]
      /\ todo \subseteq Namespace /\ bare \subseteq Namespace
      /\ \A n \in bare : namespaces[n].exists
  BY <1>0 DEF RenderInv
<1>d. ASSUME NEW p \in Pkg PROVE Named[p] \subseteq Namespace
  BY NamespacesAssumption
\* A step away from the renderer and from the resources.
<1>a. ASSUME namespaces' = namespaces, todo' \subseteq Namespace, bare' \subseteq bare,
             pc' \notin {"namespaces", "apply"}
      PROVE  RenderInv'
  BY <1>n, <1>a DEF RenderInv, SecretsBeforeResources
<1>1. ASSUME NEW p \in Pkg, NEW own \in BOOLEAN, InstallOrUpgradeChart(p, own)
      PROVE  RenderInv'
  BY <1>1, <1>a, NamespacesAssumption DEF InstallOrUpgradeChart, Start, Goto, newRenderer
<1>2. CASE UpdateReleaseValues
  BY <1>2, <1>a, NamespacesAssumption DEF UpdateReleaseValues, Start, Goto, newRenderer
<1>3. CASE StartFails
  BY <1>a, <1>n, <1>3 DEF StartFails, Fault, Goto, Returns, HelmFails, renderVars
<1>4. CASE MigrateNothing
  BY <1>a, <1>n, <1>4 DEF MigrateNothing, Fault, Goto, Returns, HelmFails, renderVars
<1>5. CASE MigrateSupersede
  BY <1>a, <1>n, <1>5 DEF MigrateSupersede, Fault, Goto, Returns, HelmFails, renderVars
<1>6. CASE MigrateCreate
  BY <1>a, <1>n, <1>6 DEF MigrateCreate, Fault, Goto, Returns, HelmFails, renderVars
<1>7. CASE MigrateFails
  BY <1>a, <1>n, <1>7 DEF MigrateFails, Fault, Goto, Returns, HelmFails, renderVars
<1>8. CASE Prepare
  <2>1. /\ pc = "prepare" /\ pc' = "namespaces" /\ op' = op /\ UNCHANGED <<namespaces, bare>>
        /\ todo' = todo \cup Named[op.pkg]
    BY <1>8 DEF Prepare, Goto, editHelmResources
  <2>2. op.pkg \in Pkg
    BY <1>0, <2>1 DEF OperationInv
  <2>3. todo' \subseteq Namespace
    BY <1>n, <1>d, <2>1, <2>2
  <2> QED
    BY <1>n, <2>1, <2>3 DEF RenderInv, SecretsBeforeResources
<1>9. CASE UpgradeRefused
  BY <1>a, <1>n, <1>9 DEF UpgradeRefused, Fault, Goto, Returns, HelmFails, renderVars
<1>10. CASE PrepareNamespace
  <2>1. pc = "namespaces" /\ UNCHANGED <<pc, op>>
    BY <1>10 DEF PrepareNamespace
  <2>2. PICK n \in Namespace : adoptAndUpdateNamespace(n, op.own)
    BY <1>10 DEF PrepareNamespace
  <2>3. todo' = todo \ {n} /\ bare' = {n} /\ bare = {}
    BY <2>2 DEF adoptAndUpdateNamespace
  <2>4. /\ namespaces' \in [Namespace -> NamespaceState]
        /\ namespaces'[n].exists
        /\ \A m \in Namespace : /\ namespaces[m].exists => namespaces'[m].exists
                                /\ namespaces[m].secrets => namespaces'[m].secrets
    BY <1>n, <2>2, AdoptFacts
  <2>5. ASSUME NEW m \in Named[op.pkg]
        PROVE  m \in todo' \cup bare' \/ (namespaces'[m].exists /\ namespaces'[m].secrets)
    <3>1. m \in Namespace
      BY <1>0, <1>d, <2>1 DEF OperationInv
    <3>2. m \in todo \/ (namespaces[m].exists /\ namespaces[m].secrets)
      BY <1>0, <2>1, <2>3 DEF RenderInv
    <3> QED
      BY <2>3, <2>4, <3>1, <3>2
  <2> QED
    BY <1>n, <2>1, <2>3, <2>4, <2>5 DEF RenderInv, SecretsBeforeResources
<1>11. CASE ApplySecrets
  <2>1. pc = "namespaces" /\ UNCHANGED <<pc, op, todo>> /\ bare' = {} /\ applySecrets
    BY <1>11 DEF ApplySecrets, applySecrets
  <2>2. /\ namespaces' \in [Namespace -> NamespaceState]
        /\ \A n \in bare : namespaces'[n].secrets
        /\ \A m \in Namespace : /\ namespaces[m].exists => namespaces'[m].exists
                                /\ namespaces[m].secrets => namespaces'[m].secrets
    BY <1>n, <2>1, SecretFacts
  <2>3. ASSUME NEW m \in Named[op.pkg]
        PROVE  m \in todo' \/ (namespaces'[m].exists /\ namespaces'[m].secrets)
    <3>1. m \in Namespace
      BY <1>0, <1>d, <2>1 DEF OperationInv
    <3>2. m \in todo \/ m \in bare \/ (namespaces[m].exists /\ namespaces[m].secrets)
      BY <1>0, <2>1 DEF RenderInv
    <3> QED
      BY <1>n, <2>1, <2>2, <3>1, <3>2
  <2> QED
    BY <1>n, <2>1, <2>2, <2>3 DEF RenderInv, SecretsBeforeResources
<1>12. CASE RenderFails
  BY <1>a, <1>n, <1>12 DEF RenderFails, Fault, Goto, Returns, HelmFails, renderVars
<1>13. CASE CreateRevision
  <2>1. /\ pc = "namespaces" /\ pc' = "apply" /\ UNCHANGED <<op, namespaces, todo, bare>>
        /\ todo = {} /\ bare = {}
    BY <1>13 DEF CreateRevision, Goto, RendererDone, renderVars
  <2>2. \A n \in Named[op.pkg] : namespaces[n].exists /\ namespaces[n].secrets
    BY <1>0, <2>1 DEF RenderInv
  <2> QED
    BY <1>n, <2>1, <2>2 DEF RenderInv, SecretsBeforeResources
<1>14. CASE Applied
  BY <1>a, <1>n, <1>14 DEF Applied, Fault, Goto, Returns, HelmFails, renderVars
<1>15. CASE RecordDeployed
  BY <1>a, <1>n, <1>15 DEF RecordDeployed, Fault, Goto, Returns, HelmFails, renderVars
<1>16. CASE RecordLost
  BY <1>a, <1>n, <1>16 DEF RecordLost, Fault, Goto, Returns, HelmFails, renderVars
<1>17. CASE ApplyFails
  BY <1>a, <1>n, <1>17 DEF ApplyFails, Fault, Goto, Returns, HelmFails, renderVars
<1>18. CASE ApplyTimesOut
  BY <1>a, <1>n, <1>18 DEF ApplyTimesOut, Fault, Goto, Returns, HelmFails, renderVars
<1>19. CASE BackgroundSucceeds
  <2>1. UNCHANGED <<namespaces, todo, bare, pc, op>>
    BY <1>19 DEF BackgroundSucceeds, renderVars
  <2> QED
    BY <1>0, <2>1 DEF RenderInv, SecretsBeforeResources
<1>20. CASE BackgroundFails
  <2>1. UNCHANGED <<namespaces, todo, bare, pc, op>>
    BY <1>20 DEF BackgroundFails, renderVars
  <2> QED
    BY <1>0, <2>1 DEF RenderInv, SecretsBeforeResources
<1>21. CASE HealthChecked
  BY <1>a, <1>n, <1>21 DEF HealthChecked, Fault, Goto, Returns, HelmFails, renderVars
<1>22. CASE ChooseRollback
  BY <1>a, <1>n, <1>22 DEF ChooseRollback, Fault, Goto, Returns, HelmFails, renderVars
<1>23. CASE RollbackCreate
  BY <1>a, <1>n, <1>23 DEF RollbackCreate, Fault, Goto, Returns, HelmFails, renderVars
<1>24. CASE RollbackStops
  BY <1>a, <1>n, <1>24 DEF RollbackStops, Fault, Goto, Returns, HelmFails, renderVars
<1>25. CASE RollbackFails
  BY <1>a, <1>n, <1>25 DEF RollbackFails, Fault, Goto, Returns, HelmFails, renderVars
<1>26. CASE RollbackApplied
  BY <1>a, <1>n, <1>26 DEF RollbackApplied, Fault, Goto, Returns, HelmFails, renderVars
<1>27. CASE RollbackRecorded
  BY <1>a, <1>n, <1>27 DEF RollbackRecorded, Fault, Goto, Returns, HelmFails, renderVars
<1>28. CASE Uninstalling
  BY <1>a, <1>n, <1>28 DEF Uninstalling, Fault, Goto, Returns, HelmFails, renderVars
<1>29. CASE Purge
  BY <1>a, <1>n, <1>29 DEF Purge, Fault, Goto, Returns, HelmFails, renderVars
<1>30. CASE Uninstalled
  BY <1>a, <1>n, <1>30 DEF Uninstalled, Fault, Goto, Returns, HelmFails, renderVars
<1>31. CASE UninstallFails
  BY <1>a, <1>n, <1>31 DEF UninstallFails, Fault, Goto, Returns, HelmFails, renderVars
<1>32. CASE Exit
  BY <1>a, <1>n, <1>32 DEF Exit, Fault, Goto, Returns, HelmFails, renderVars
<1>33. CASE Killed
  BY <1>a, <1>n, <1>33 DEF Killed, Fault, Goto, Returns, HelmFails, renderVars
<1>34. CASE RemoveChart
  BY <1>a, <1>n, <1>34 DEF RemoveChart, Fault, Goto, Returns, HelmFails, renderVars
<1>35. CASE UpgradeCluster
  <2>1. UNCHANGED <<namespaces, todo, bare, pc, op>>
    BY <1>35 DEF UpgradeCluster, renderVars
  <2> QED
    BY <1>0, <2>1 DEF RenderInv, SecretsBeforeResources
<1> QED
  BY <1>1, <1>2, <1>3, <1>4, <1>5, <1>6, <1>7, <1>8, <1>9, <1>10, <1>11, <1>12, <1>13, <1>14,
     <1>15, <1>16, <1>17, <1>18, <1>19, <1>20, <1>21, <1>22, <1>23, <1>24, <1>25, <1>26, <1>27,
     <1>28, <1>29, <1>30, <1>31, <1>32, <1>33, <1>34, <1>35 DEF Next

-----------------------------------------------------------------------------
(* Counters and history variables.                                         *)

\* The package commands see a release.
LEMMA AbstractFacts ==
    ASSUME HistoryInv
    PROVE  Abstract(history) \in Release
<1> DEFINE deployed == {r \in DOMAIN history : history[r].status = "deployed"}
<1>1. CASE DOMAIN history = {}
  BY <1>1 DEF Abstract, NoRelease, Release
<1>2. CASE DOMAIN history # {}
  <2>1. MaxRevision \in Nat
    BY HistoryAssumption
  <2>2. deployed \subseteq 0..MaxRevision /\ DOMAIN history \subseteq 0..MaxRevision
    BY <2>1, RevisionNumbers DEF Revisions
  <2>3. deployed # {} => Max(deployed) \in deployed
    <3> HIDE DEF deployed
    <3> QED
      BY <2>1, <2>2, MaxFacts
  <2>4. deployed # {} => history[Max(deployed)].pkg \in Pkg
    <3>1. deployed # {} => Max(deployed) \in DOMAIN history
      BY <2>3
    <3> HIDE DEF deployed
    <3> QED
      BY <3>1, RevisionFields DEF HistoryInv, HistoryOK
  <2> DEFINE live == IF deployed = {} THEN NoPkg ELSE history[Max(deployed)].pkg
  <2> DEFINE top == LET status == history[Max(DOMAIN history)].status IN
                    IF status \in {"deployed", "failed", "pending"} THEN status
                    ELSE IF status = "superseded" \/ deployed # {} THEN "failed"
                    ELSE "pending"
  <2>5. Abstract(history) = [live |-> live, top |-> top]
    BY <1>2 DEF Abstract
  <2>6. live \in Pkg \cup {NoPkg} /\ top \in {"none", "deployed", "failed", "pending"}
    <3> HIDE DEF deployed
    <3> QED
      BY <2>4
  <2> HIDE DEF live, top
  <2> QED
    BY <2>5, <2>6 DEF Release
<1> QED
  BY <1>1, <1>2

LEMMA RecordStep ==
    ASSUME HelmInv, Next
    PROVE  RecordInv'
<1>0. RecordInv /\ Abstract(history) \in Release /\ MaxFaults \in Nat
  BY AbstractFacts, HistoryAssumption DEF HelmInv
<1>f. Fault => faults' \in 0..MaxFaults
  BY <1>0 DEF Fault, RecordInv
<1> DEFINE Kept == /\ newAPIs' \in {newAPIs, TRUE} /\ (faults' = faults \/ Fault)
                   /\ before' = before \/ before' = Abstract(history)
                   /\ migration' \in {migration, "none", "begun", "done", "refused"}
                   /\ result' \in {result, "ok", "failed", "killed"}
<1>a. Kept => RecordInv'
  BY <1>0, <1>f DEF RecordInv
<1>1. ASSUME NEW p \in Pkg, NEW own \in BOOLEAN, InstallOrUpgradeChart(p, own)
      PROVE  Kept
  BY <1>1 DEF InstallOrUpgradeChart, Start
<1>2. UpdateReleaseValues => Kept
  BY DEF UpdateReleaseValues, Start
<1>3. StartFails => Kept
  BY DEF StartFails, Goto, Returns, HelmFails, NoFault
<1>4. MigrateNothing => Kept
  BY DEF MigrateNothing, Goto, Returns, HelmFails, NoFault
<1>5. MigrateSupersede => Kept
  BY DEF MigrateSupersede, Goto, Returns, HelmFails, NoFault
<1>6. MigrateCreate => Kept
  BY DEF MigrateCreate, Goto, Returns, HelmFails, NoFault
<1>7. MigrateFails => Kept
  BY DEF MigrateFails, Goto, Returns, HelmFails, NoFault
<1>8. Prepare => Kept
  BY DEF Prepare, Goto, Returns, HelmFails, NoFault
<1>9. UpgradeRefused => Kept
  BY DEF UpgradeRefused, Goto, Returns, HelmFails, NoFault
<1>10. PrepareNamespace => Kept
  BY DEF PrepareNamespace, Goto, Returns, HelmFails, NoFault
<1>11. ApplySecrets => Kept
  BY DEF ApplySecrets, Goto, Returns, HelmFails, NoFault
<1>12. RenderFails => Kept
  BY DEF RenderFails, Goto, Returns, HelmFails, NoFault
<1>13. CreateRevision => Kept
  BY DEF CreateRevision, Goto, Returns, HelmFails, NoFault
<1>14. Applied => Kept
  BY DEF Applied, Goto, Returns, HelmFails, NoFault
<1>15. RecordDeployed => Kept
  BY DEF RecordDeployed, Goto, Returns, HelmFails, NoFault
<1>16. RecordLost => Kept
  BY DEF RecordLost, Goto, Returns, HelmFails, NoFault
<1>17. ApplyFails => Kept
  BY DEF ApplyFails, Goto, Returns, HelmFails, NoFault
<1>18. ApplyTimesOut => Kept
  BY DEF ApplyTimesOut, Goto, Returns, HelmFails, NoFault
<1>19. BackgroundSucceeds => Kept
  BY DEF BackgroundSucceeds, Goto, Returns, HelmFails, NoFault
<1>20. BackgroundFails => Kept
  BY DEF BackgroundFails, Goto, Returns, HelmFails, NoFault
<1>21. HealthChecked => Kept
  BY DEF HealthChecked, Goto, Returns, HelmFails, NoFault
<1>22. ChooseRollback => Kept
  BY DEF ChooseRollback, Goto, Returns, HelmFails, NoFault
<1>23. RollbackCreate => Kept
  BY DEF RollbackCreate, Goto, Returns, HelmFails, NoFault
<1>24. RollbackStops => Kept
  BY DEF RollbackStops, Goto, Returns, HelmFails, NoFault
<1>25. RollbackFails => Kept
  BY DEF RollbackFails, Goto, Returns, HelmFails, NoFault
<1>26. RollbackApplied => Kept
  BY DEF RollbackApplied, Goto, Returns, HelmFails, NoFault
<1>27. RollbackRecorded => Kept
  BY DEF RollbackRecorded, Goto, Returns, HelmFails, NoFault
<1>28. Uninstalling => Kept
  BY DEF Uninstalling, Goto, Returns, HelmFails, NoFault
<1>29. Purge => Kept
  BY DEF Purge, Goto, Returns, HelmFails, NoFault
<1>30. Uninstalled => Kept
  BY DEF Uninstalled, Goto, Returns, HelmFails, NoFault
<1>31. UninstallFails => Kept
  BY DEF UninstallFails, Goto, Returns, HelmFails, NoFault
<1>32. Exit => Kept
  BY DEF Exit, Goto, Returns, HelmFails, NoFault
<1>33. Killed => Kept
  BY DEF Killed, Goto, Returns, HelmFails, NoFault
<1>34. RemoveChart => Kept
  BY DEF RemoveChart, Goto, Returns, HelmFails, NoFault
<1>35. UpgradeCluster => Kept
  BY DEF UpgradeCluster, Goto, Returns, HelmFails, NoFault
<1> HIDE DEF Kept
<1> QED
  BY <1>a, <1>1, <1>2, <1>3, <1>4, <1>5, <1>6, <1>7, <1>8, <1>9, <1>10, <1>11, <1>12, <1>13, <1>14,
     <1>15, <1>16, <1>17, <1>18, <1>19, <1>20, <1>21, <1>22, <1>23, <1>24, <1>25, <1>26, <1>27,
     <1>28, <1>29, <1>30, <1>31, <1>32, <1>33, <1>34, <1>35 DEF Next

-----------------------------------------------------------------------------
(* The invariant and its consequences.                                     *)

LEMMA HelmStarts == Init => HelmInv
<1> SUFFICES ASSUME Init PROVE HelmInv
  OBVIOUS
<1>0. MaxRevision \in Nat /\ MaxFaults \in Nat
  BY HistoryAssumption
<1>1. Revisions = {} /\ history \in [DOMAIN history -> Revision]
  BY DEF Init, Revisions
<1>2. Reserve = 0 /\ background.status \in Status /\ background.on = FALSE
  BY DEF Init, Reserve, NoBackground, Status
<1>3. HistoryInv
  BY <1>0, <1>1, <1>2 DEF HistoryInv, HistoryOK, Room, Revisions
<1>4. OperationInv
  BY <1>0 DEF Init, OperationInv, RollbackIsProven, NoOp
<1>5. BackgroundInv
  BY <1>2 DEF BackgroundInv
<1>6. RenderInv
  <2>1. namespaces \in [Namespace -> NamespaceState]
    <3>1. PICK there \in SUBSET Namespace : namespaces = [n \in Namespace |->
            [exists |-> n \in there, managed |-> FALSE, secrets |-> FALSE]]
      BY DEF Init, RendererInit
    <3>2. \A n \in Namespace :
            [exists |-> n \in there, managed |-> FALSE, secrets |-> FALSE] \in NamespaceState
      BY DEF NamespaceState
    <3> QED
      BY <3>1, <3>2
  <2> QED
    BY <2>1 DEF Init, RendererInit, RenderInv, SecretsBeforeResources
<1>7. RecordInv
  <2>1. NoRelease \in Release
    BY DEF Release, NoRelease
  <2>2. newAPIs \in BOOLEAN
    BY Zenon DEF Init
  <2> QED
    BY <1>0, <2>1, <2>2 DEF Init, RecordInv
<1> QED
  BY <1>3, <1>4, <1>5, <1>6, <1>7 DEF HelmInv

LEMMA HelmStep == HelmInv /\ [Next]_vars => HelmInv'
<1>1. ASSUME HelmInv, Next PROVE HelmInv'
  BY <1>1, HistoryStep, OperationStep, BackgroundStep, RenderStep, RecordStep DEF HelmInv
<1>2. ASSUME HelmInv, UNCHANGED vars PROVE HelmInv'
  <2>1. UNCHANGED <<history, newAPIs, pc, op, orig, up, background, faults, migration, before, result,
                    namespaces, todo, bare>>
    BY <1>2 DEF vars, helmVars, renderVars
  <2>2. Revisions' = Revisions /\ CurrentRelease' = CurrentRelease /\ Reserve' = Reserve
    BY <2>1 DEF Revisions, CurrentRelease, Newest, Deployed, Reserve
  <2>3. HistoryInv' /\ BackgroundInv'
    BY <1>2, <2>1, <2>2 DEF HelmInv, HistoryInv, BackgroundInv
  <2>4. OperationInv'
    BY <1>2, <2>1, <2>2 DEF HelmInv, OperationInv, RollbackIsProven
  <2>5. RenderInv' /\ RecordInv'
    BY <1>2, <2>1 DEF HelmInv, RenderInv, SecretsBeforeResources, RecordInv
  <2> QED
    BY <2>3, <2>4, <2>5 DEF HelmInv
<1> QED
  BY <1>1, <1>2

LEMMA HelmInvariant == Spec => []HelmInv
BY HelmStarts, HelmStep, PTL DEF Spec

\* Revision numbers and statuses are Helm's, and no operation outgrows the three
\* revisions it reserved: one for migrateDeprecatedAPIs, one for the upgrade and
\* one for the rollback of InstallOrUpgradeChart.
THEOREM RevisionsAreReserved == Spec => []TypeOK
<1>1. HelmInv => TypeOK
  <2> SUFFICES ASSUME HelmInv PROVE TypeOK
    OBVIOUS
  <2>1. Revisions \subseteq 1..MaxRevision
    BY RevisionNumbers DEF HelmInv
  <2>2. \A r \in Revisions : history[r] \in Revision
    BY DEF HelmInv, HistoryInv, HistoryOK, Revisions
  <2> QED
    BY <2>1, <2>2 DEF HelmInv, OperationInv, RenderInv, RecordInv, TypeOK
<1> QED
  BY <1>1, HelmInvariant, PTL

\* When Helm begins to apply resources, the post-renderer has created every
\* namespace that the manifests name and put the pull secrets into it, whatever
\* earlier operations were interrupted between the two.
THEOREM SecretsComeFirst == Spec => []SecretsBeforeResources
<1>1. HelmInv => SecretsBeforeResources
  BY DEF HelmInv, RenderInv
<1> QED
  BY <1>1, HelmInvariant, PTL

\* An upgrade never prunes the revision that it upgrades from, whatever the
\* maximum of the history: the rollback of a failed upgrade finds it, and so
\* does the goroutine of one that timed out.
THEOREM UpgradeKeepsCurrent == Spec => [](pc = "apply" => orig \in Revisions \cup {0})
<1>1. HelmInv => (pc = "apply" => orig \in Revisions \cup {0})
  BY DEF HelmInv, OperationInv
<1> QED
  BY <1>1, HelmInvariant, PTL
-----------------------------------------------------------------------------
(* A deploy in which nothing fails.                                        *)

\* Helm finds a current release and can build its manifest.
Usable == CurrentRelease # 0 /\ Builds(CurrentRelease)
Absent == Revisions = {} /\ before.live = NoPkg

\* Helm refuses the upgrade, and what is deployed can be rolled back to.
Refusable ==
    /\ Revisions # {} /\ CurrentRelease = 0 /\ before.top = "pending"
    /\ \A r \in Deployed \cup {Newest} : Builds(r)
    /\ before.live # NoPkg => Deployed # {}

\* What is stored last is the revision that the operation works on.
UpIsNewest == up \in Revisions /\ up = Newest

\* Where such a deploy is.
Recovering ==
    /\ pc = "migrate" => migration \in {"none", "begun"} /\ Revisions # {}
    /\ pc = "migrate" /\ migration = "none" => before = Abstract(history) /\ Buildable
    /\ pc = "migrate" /\ migration = "begun" => orig = Newest
    /\ pc = "prepare" => Usable \/ Refusable \/ Absent
    /\ pc = "namespaces" => Usable \/ Absent
    /\ pc \in {"apply", "record", "rollingback", "rolledback"} => UpIsNewest
    /\ pc \in {"rollback", "rollingback", "rolledback"} => before.top = "pending"
    /\ pc = "health" => Revisions # {} /\ history[Newest].status = "deployed"
    /\ pc = "failed" => Refusable
    /\ pc = "rollback" => orig \in Revisions /\ Builds(orig) /\ Builds(Newest)
    /\ pc = "rollingback" => \A r \in {up - 1, up} \cap Revisions : Builds(r)
    /\ pc = "returned" =>
          /\ before.live # NoPkg => history[Newest].status = "deployed"
          /\ before.top # "pending" => result = "ok"

Clean == op.kind = "deploy" /\ clean /\ op.able

ProcessInv ==
    /\ background.on => ~clean
    /\ pc = "idle" => op.kind = "none"
    /\ pc \in {"uninstall", "purge"} => op.kind = "remove"

RecoverInv == ProcessInv /\ (Clean => Recovering)

-----------------------------------------------------------------------------
(* Facts that hold in every state, and so in the next one.                 *)

LEMMA NewestIs ==
    HistoryInv =>
        /\ Newest \in Nat
        /\ Revisions # {} => Newest \in Revisions
        /\ \A r \in Revisions : r \in Nat \ {0} /\ r <= Newest /\ history[r] \in Revision
<1> SUFFICES ASSUME HistoryInv
             PROVE  /\ Newest \in Nat
                    /\ Revisions # {} => Newest \in Revisions
                    /\ \A r \in Revisions : r \in Nat \ {0} /\ r <= Newest /\ history[r] \in Revision
  OBVIOUS
<1>1. Reserve \in Nat
  BY ReserveType
<1> QED
  BY <1>1, NewestFacts DEF HistoryInv, HistoryOK, Revisions

LEMMA NewestWillBe ==
    HistoryInv' =>
        /\ Newest' \in Nat
        /\ Revisions' # {} => Newest' \in Revisions'
        /\ \A r \in Revisions' : r \in Nat \ {0} /\ r <= Newest' /\ history'[r] \in Revision
<1>1. (HistoryInv =>
        /\ Newest \in Nat
        /\ Revisions # {} => Newest \in Revisions
        /\ \A r \in Revisions : r \in Nat \ {0} /\ r <= Newest /\ history[r] \in Revision)'
  BY NewestIs, PTL
<1> QED
  BY <1>1

\* What Abstract makes of the statuses.
Look(status, some) ==
    IF status \in {"deployed", "failed", "pending"} THEN status
    ELSE IF status = "superseded" \/ some THEN "failed" ELSE "pending"

LEMMA AbstractIs ==
    HistoryInv /\ Revisions # {} =>
        /\ Deployed = {} => Abstract(history).live = NoPkg
        /\ Deployed # {} => \E r \in Deployed : Abstract(history).live = history[r].pkg
        /\ history[Newest].status = "deployed" => Abstract(history).live = history[Newest].pkg
        /\ Abstract(history).top = Look(history[Newest].status, Deployed # {})
        /\ Abstract(history) = [live |-> Abstract(history).live, top |-> Abstract(history).top]
<1> SUFFICES ASSUME HistoryInv, Revisions # {}
             PROVE  /\ Deployed = {} => Abstract(history).live = NoPkg
                    /\ Deployed # {} => \E r \in Deployed : Abstract(history).live = history[r].pkg
                    /\ history[Newest].status = "deployed" => Abstract(history).live = history[Newest].pkg
                    /\ Abstract(history).top = Look(history[Newest].status, Deployed # {})
                    /\ Abstract(history) = [live |-> Abstract(history).live,
                                            top |-> Abstract(history).top]
  OBVIOUS
<1>1. MaxRevision \in Nat /\ Deployed \subseteq 0..MaxRevision
  BY HistoryAssumption, RevisionNumbers DEF Deployed
<1>2. Deployed # {} => Max(Deployed) \in Deployed
  BY <1>1, MaxFacts
<1> DEFINE live == IF Deployed = {} THEN NoPkg ELSE history[Max(Deployed)].pkg
<1> DEFINE top == Look(history[Newest].status, Deployed # {})
<1>3. Abstract(history) = [live |-> live, top |-> top]
  BY DEF Abstract, Look, Newest, Deployed, Revisions
<1>4. Abstract(history).live = live /\ Abstract(history).top = top
  <2> HIDE DEF live, top
  <2> QED
    BY <1>3
<1>5. Abstract(history) = [live |-> Abstract(history).live, top |-> Abstract(history).top]
  <2> HIDE DEF live, top
  <2> QED
    BY <1>3, <1>4
<1>6. ASSUME history[Newest].status = "deployed"
      PROVE  Deployed # {} /\ Max(Deployed) = Newest
  <2>1. Newest \in Deployed
    BY <1>6, NewestIs DEF Deployed
  <2>2. Max(Deployed) \in Revisions /\ Newest <= Max(Deployed)
    BY <1>1, <2>1, MaxFacts DEF Deployed
  <2>3. Max(Deployed) \in Nat /\ Max(Deployed) <= Newest /\ Newest \in Nat
    BY <2>2, NewestIs
  <2> QED
    BY <2>1, <2>2, <2>3
<1> QED
  BY <1>2, <1>4, <1>5, <1>6

LEMMA AbstractWillBe ==
    HistoryInv' /\ Revisions' # {} =>
        /\ Deployed' = {} => Abstract(history').live = NoPkg
        /\ Deployed' # {} => \E r \in Deployed' : Abstract(history').live = history'[r].pkg
        /\ history'[Newest'].status = "deployed" => Abstract(history').live = history'[Newest'].pkg
        /\ Abstract(history').top = Look(history'[Newest'].status, Deployed' # {})
        /\ Abstract(history') = [live |-> Abstract(history').live, top |-> Abstract(history').top]
<1>1. (HistoryInv /\ Revisions # {} =>
        /\ Deployed = {} => Abstract(history).live = NoPkg
        /\ Deployed # {} => \E r \in Deployed : Abstract(history).live = history[r].pkg
        /\ history[Newest].status = "deployed" => Abstract(history).live = history[Newest].pkg
        /\ Abstract(history).top = Look(history[Newest].status, Deployed # {})
        /\ Abstract(history) = [live |-> Abstract(history).live, top |-> Abstract(history).top])'
  BY AbstractIs, PTL
<1> QED
  BY <1>1

LEMMA MarkedIs ==
    ASSUME NEW h, HistoryOK(h), NEW r, NEW s
    PROVE  /\ DOMAIN Marked(h, r, s) = DOMAIN h
           /\ \A q \in DOMAIN h \ {r} : Marked(h, r, s)[q] = h[q]
           /\ \A q \in DOMAIN h : Marked(h, r, s)[q].pkg = h[q].pkg
           /\ r \in DOMAIN h => Marked(h, r, s)[r].status = s /\ Marked(h, r, s)[r].served = h[r].served
<1>1. CASE r \notin DOMAIN h
  BY <1>1 DEF Marked
<1>2. CASE r \in DOMAIN h
  <2>1. h \in [DOMAIN h -> Revision] /\ h[r] \in Revision
    BY <1>2 DEF HistoryOK
  <2> DEFINE m == [h EXCEPT ![r].status = s, ![r].proven = @ \/ s = "deployed"]
  <2>2. Marked(h, r, s) = m
    BY <1>2 DEF Marked
  <2>3. DOMAIN m = DOMAIN h /\ \A q \in DOMAIN h \ {r} : m[q] = h[q]
    BY <1>2, <2>1
  <2>4. m[r].status = s /\ m[r].pkg = h[r].pkg /\ m[r].served = h[r].served
    BY <1>2, <2>1 DEF Revision
  <2> HIDE DEF m
  <2> QED
    BY <1>2, <2>2, <2>3, <2>4
<1> QED
  BY <1>1, <1>2

LEMMA StoredIs ==
    ASSUME NEW r, NEW rev, NEW maximum
    PROVE  /\ DOMAIN Stored(r, rev, maximum) \subseteq Revisions \cup {r}
           /\ r \in DOMAIN Stored(r, rev, maximum)
           /\ \A q \in DOMAIN Stored(r, rev, maximum) :
                Stored(r, rev, maximum)[q] = IF q = r THEN rev ELSE history[q]
<1> DEFINE h == Stored(r, rev, maximum)
<1>1. PICK D \in SUBSET Revisions :
        h = [q \in D \cup {r} |-> IF q = r THEN rev ELSE history[q]]
  BY DEF Stored
<1> HIDE DEF h
<1>2. DOMAIN h = D \cup {r} /\ \A q \in DOMAIN h : h[q] = IF q = r THEN rev ELSE history[q]
  BY <1>1
<1> QED
  BY <1>2 DEF h

\* The next number becomes the newest.
LEMMA NextIsNewest ==
    ASSUME HistoryInv, HistoryInv', NEW rev, NEW maximum,
           history' = Stored(Newest + 1, rev, maximum)
    PROVE  /\ Newest' = Newest + 1 /\ Newest' \in Revisions' /\ history'[Newest'] = rev
           /\ Revisions' \subseteq Revisions \cup {Newest'}
           /\ \A q \in Revisions' \ {Newest'} : history'[q] = history[q]
<1>1. PICK k : k = Newest + 1
  OBVIOUS
<1>2. /\ Newest \in Nat /\ Newest' \in Nat /\ k \in Nat
      /\ \A r \in Revisions : r \in Nat /\ r <= Newest
      /\ \A r \in Revisions' : r \in Nat /\ r <= Newest'
      /\ Revisions' # {} => Newest' \in Revisions'
  BY <1>1, NewestIs, NewestWillBe
<1>3. /\ DOMAIN history' \subseteq Revisions \cup {k} /\ k \in DOMAIN history'
      /\ \A q \in DOMAIN history' : history'[q] = IF q = k THEN rev ELSE history[q]
  BY <1>1, StoredIs
<1>4. Revisions' = DOMAIN history'
  BY DEF Revisions
<1>5. Newest' = k
  <2>1. Newest' \in Revisions' /\ k <= Newest'
    BY <1>2, <1>3, <1>4
  <2>2. Newest' \in Revisions \/ Newest' = k
    BY <1>3, <1>4, <2>1
  <2> QED
    BY <1>1, <1>2, <2>1, <2>2
<1>6. Revisions' \subseteq Revisions \cup {k} /\ \A q \in Revisions' \ {k} : history'[q] = history[q]
  BY <1>3, <1>4
<1>7. k \in Revisions' /\ history'[k] = rev
  BY <1>3, <1>4
<1> QED
  BY <1>1, <1>5, <1>6, <1>7

\* A step that leaves the numbers alone.
LEMMA SameNumbers ==
    ASSUME DOMAIN history' = DOMAIN history
    PROVE  Revisions' = Revisions /\ Newest' = Newest
BY DEF Revisions, Newest

-----------------------------------------------------------------------------
(* The invariant through every step.                                       *)

LEMMA ProcessStep ==
    ASSUME HelmInv, ProcessInv, Next
    PROVE  ProcessInv'
<1>0. BackgroundInv /\ ProcessInv
  BY DEF HelmInv
<1>1. ASSUME NEW p \in Pkg, NEW own \in BOOLEAN, InstallOrUpgradeChart(p, own)
      PROVE  ProcessInv'
  BY <1>0, <1>1 DEF InstallOrUpgradeChart, Start, Goto, ProcessInv, BackgroundInv, Unwinding
<1>2. CASE UpdateReleaseValues
  BY <1>0, <1>2 DEF UpdateReleaseValues, Start, Goto, ProcessInv, BackgroundInv, Unwinding
<1>3. CASE StartFails
  BY <1>0, <1>3 DEF StartFails, ProcessInv, Goto, Returns, HelmFails, Fault, NoFault
<1>4. CASE MigrateNothing
  BY <1>0, <1>4 DEF MigrateNothing, ProcessInv, Goto, Returns, HelmFails, Fault, NoFault
<1>5. CASE MigrateSupersede
  BY <1>0, <1>5 DEF MigrateSupersede, ProcessInv, Goto, Returns, HelmFails, Fault, NoFault
<1>6. CASE MigrateCreate
  BY <1>0, <1>6 DEF MigrateCreate, ProcessInv, Goto, Returns, HelmFails, Fault, NoFault
<1>7. CASE MigrateFails
  BY <1>0, <1>7 DEF MigrateFails, ProcessInv, Goto, Returns, HelmFails, Fault, NoFault
<1>8. CASE Prepare
  BY <1>0, <1>8 DEF Prepare, ProcessInv, Goto, Returns, HelmFails, Fault, NoFault
<1>9. CASE UpgradeRefused
  BY <1>0, <1>9 DEF UpgradeRefused, ProcessInv, Goto, Returns, HelmFails, Fault, NoFault
<1>10. CASE PrepareNamespace
  BY <1>0, <1>10 DEF PrepareNamespace, ProcessInv, Goto, Returns, HelmFails, Fault, NoFault
<1>11. CASE ApplySecrets
  BY <1>0, <1>11 DEF ApplySecrets, ProcessInv, Goto, Returns, HelmFails, Fault, NoFault
<1>12. CASE RenderFails
  BY <1>0, <1>12 DEF RenderFails, ProcessInv, Goto, Returns, HelmFails, Fault, NoFault
<1>13. CASE CreateRevision
  BY <1>0, <1>13 DEF CreateRevision, ProcessInv, Goto, Returns, HelmFails, Fault, NoFault
<1>14. CASE Applied
  BY <1>0, <1>14 DEF Applied, ProcessInv, Goto, Returns, HelmFails, Fault, NoFault
<1>15. CASE RecordDeployed
  BY <1>0, <1>15 DEF RecordDeployed, ProcessInv, Goto, Returns, HelmFails, Fault, NoFault
<1>16. CASE RecordLost
  BY <1>0, <1>16 DEF RecordLost, ProcessInv, Goto, Returns, HelmFails, Fault, NoFault
<1>17. CASE ApplyFails
  BY <1>0, <1>17 DEF ApplyFails, ProcessInv, Goto, Returns, HelmFails, Fault, NoFault
<1>18. CASE ApplyTimesOut
  BY <1>0, <1>18 DEF ApplyTimesOut, ProcessInv, Goto, Returns, HelmFails, Fault, NoFault,
     NoBackground, NoOp
<1>19. CASE BackgroundSucceeds
  BY <1>0, <1>19 DEF BackgroundSucceeds, ProcessInv, Goto, Returns, HelmFails, Fault, NoFault,
     NoBackground, NoOp
<1>20. CASE BackgroundFails
  BY <1>0, <1>20 DEF BackgroundFails, ProcessInv, Goto, Returns, HelmFails, Fault, NoFault,
     NoBackground, NoOp
<1>21. CASE HealthChecked
  BY <1>0, <1>21 DEF HealthChecked, ProcessInv, Goto, Returns, HelmFails, Fault, NoFault
<1>22. CASE ChooseRollback
  BY <1>0, <1>22 DEF ChooseRollback, ProcessInv, Goto, Returns, HelmFails, Fault, NoFault
<1>23. CASE RollbackCreate
  BY <1>0, <1>23 DEF RollbackCreate, ProcessInv, Goto, Returns, HelmFails, Fault, NoFault
<1>24. CASE RollbackStops
  BY <1>0, <1>24 DEF RollbackStops, ProcessInv, Goto, Returns, HelmFails, Fault, NoFault
<1>25. CASE RollbackFails
  BY <1>0, <1>25 DEF RollbackFails, ProcessInv, Goto, Returns, HelmFails, Fault, NoFault
<1>26. CASE RollbackApplied
  BY <1>0, <1>26 DEF RollbackApplied, ProcessInv, Goto, Returns, HelmFails, Fault, NoFault
<1>27. CASE RollbackRecorded
  BY <1>0, <1>27 DEF RollbackRecorded, ProcessInv, Goto, Returns, HelmFails, Fault, NoFault
<1>28. CASE Uninstalling
  BY <1>0, <1>28 DEF Uninstalling, ProcessInv, Goto, Returns, HelmFails, Fault, NoFault
<1>29. CASE Purge
  BY <1>0, <1>29 DEF Purge, ProcessInv, Goto, Returns, HelmFails, Fault, NoFault
<1>30. CASE Uninstalled
  BY <1>0, <1>30 DEF Uninstalled, ProcessInv, Goto, Returns, HelmFails, Fault, NoFault
<1>31. CASE UninstallFails
  BY <1>0, <1>31 DEF UninstallFails, ProcessInv, Goto, Returns, HelmFails, Fault, NoFault
<1>32. CASE Exit
  BY <1>0, <1>32 DEF Exit, ProcessInv, Goto, Returns, HelmFails, Fault, NoFault, NoBackground, NoOp
<1>33. CASE Killed
  BY <1>0, <1>33 DEF Killed, ProcessInv, Goto, Returns, HelmFails, Fault, NoFault, NoBackground,
     NoOp
<1>34. CASE RemoveChart
  BY <1>0, <1>34 DEF RemoveChart, ProcessInv, Goto, Returns, HelmFails, Fault, NoFault,
     BackgroundInv, Unwinding, Operation
<1>35. CASE UpgradeCluster
  BY <1>0, <1>35 DEF UpgradeCluster, ProcessInv, Goto, Returns, HelmFails, Fault, NoFault
<1> QED
  BY <1>1, <1>2, <1>3, <1>4, <1>5, <1>6, <1>7, <1>8, <1>9, <1>10, <1>11, <1>12, <1>13, <1>14,
     <1>15, <1>16, <1>17, <1>18, <1>19, <1>20, <1>21, <1>22, <1>23, <1>24, <1>25, <1>26, <1>27,
     <1>28, <1>29, <1>30, <1>31, <1>32, <1>33, <1>34, <1>35 DEF Next

\* Helm refuses only what the package's commands see as pending.
LEMMA RefusedIsPending ==
    ASSUME HistoryInv, Revisions # {}
    PROVE  /\ CurrentRelease \in Deployed \cup {Newest, 0}
           /\ CurrentRelease = 0 => Abstract(history).top = "pending"
           /\ Abstract(history).live # NoPkg => Deployed # {}
<1>1. MaxRevision \in Nat /\ Deployed \subseteq 0..MaxRevision
  BY HistoryAssumption, RevisionNumbers DEF Deployed
<1>2. Deployed # {} => Max(Deployed) \in Deployed
  BY <1>1, MaxFacts
<1>3. CurrentRelease \in Deployed \cup {Newest, 0}
  BY <1>2 DEF CurrentRelease
<1>4. Newest # 0 /\ \A r \in Deployed : r # 0
  BY NewestIs DEF Deployed
<1>5. history[Newest].status \in Status
  BY NewestIs, RevisionFields
<1>6. CurrentRelease = 0 => Look(history[Newest].status, Deployed # {}) = "pending"
  BY <1>2, <1>4, <1>5 DEF CurrentRelease, Look, Status
<1> QED
  BY <1>3, <1>6, AbstractIs

\* A deploy without faults gets through every step.
LEMMA RecoverStep ==
    ASSUME HelmInv, HelmInv', RecoverInv, Next, Clean'
    PROVE  Recovering'
<1>0. HistoryInv /\ HistoryInv' /\ OperationInv /\ ProcessInv /\ HistoryOK(history)
  BY DEF HelmInv, HistoryInv, RecoverInv
<1>f. Fault => FALSE
  BY DEF Fault, Clean
<1>k. UNCHANGED <<op, clean>> => Recovering
  BY DEF Clean, RecoverInv
<1>n. ~(UNCHANGED clean /\ background.on)
  BY <1>0 DEF ProcessInv, Clean
<1>u. ASSUME UNCHANGED <<history, newAPIs, before>>
      PROVE  /\ Revisions' = Revisions /\ Newest' = Newest /\ Deployed' = Deployed
             /\ CurrentRelease' = CurrentRelease
             /\ Usable' = Usable /\ Refusable' = Refusable /\ Absent' = Absent
             /\ Buildable' = Buildable /\ Abstract(history') = Abstract(history)
             /\ \A r : Builds(r)' = Builds(r)
  BY <1>u DEF Revisions, Newest, Deployed, CurrentRelease, Usable, Refusable, Absent, Buildable,
     Builds
<1>1. ASSUME NEW p \in Pkg, NEW own \in BOOLEAN, InstallOrUpgradeChart(p, own)
      PROVE  Recovering'
  <2>1. /\ UNCHANGED <<history, newAPIs>> /\ before' = Abstract(history) /\ migration' = "none"
        /\ op' = Operation("deploy", p, own)
        /\ pc' = IF Revisions = {} THEN "prepare" ELSE "migrate"
    BY <1>1 DEF InstallOrUpgradeChart, Start, Goto
  <2>2. Buildable
    BY <2>1 DEF Clean, Operation
  <2>3. Revisions' = Revisions /\ Buildable'
    BY <2>1, <2>2 DEF Revisions, Buildable, Newest, Deployed, Builds
  <2>4. Revisions = {} => Absent'
    BY <2>1, <2>3 DEF Absent, Abstract, Revisions, NoRelease
  <2> QED
    BY <2>1, <2>3, <2>4 DEF Recovering
<1>4. CASE MigrateNothing
  <2>1. /\ pc = "migrate" /\ migration = "none" /\ Builds(ListedLast(Revisions)) /\ pc' = "prepare"
        /\ UNCHANGED <<history, newAPIs, op, clean, before>>
    BY <1>4 DEF MigrateNothing, NoFault, Goto
  <2>2. Revisions # {} /\ before = Abstract(history) /\ Buildable
    BY <1>k, <2>1 DEF Recovering
  <2>3. \A r \in Deployed \cup {Newest} : Builds(r)
    BY <2>1, <2>2 DEF Buildable
  <2>4. Usable \/ Refusable
    BY <1>0, <2>2, <2>3, RefusedIsPending DEF Usable, Refusable
  <2> QED
    BY <1>u, <2>1, <2>4 DEF Recovering
<1>5. CASE MigrateSupersede
  <2>1. /\ pc = "migrate" /\ migration = "none" /\ ~Builds(ListedLast(Revisions))
        /\ orig' = ListedLast(Revisions) /\ migration' = "begun"
        /\ history' = Marked(history, orig', "superseded")
        /\ UNCHANGED <<op, clean, pc>>
    BY <1>5 DEF MigrateSupersede, NoFault, Goto
  <2>2. Revisions # {} /\ orig' = Newest
    BY <1>k, <2>1 DEF Recovering, Buildable
  <2>3. Revisions' = Revisions /\ Newest' = Newest
    BY <1>0, <2>1, MarkedIs, SameNumbers
  <2> QED
    BY <2>1, <2>2, <2>3 DEF Recovering
<1>6. CASE MigrateCreate
  <2>1. pc = "migrate" /\ migration = "begun" /\ UNCHANGED <<op, clean, newAPIs>>
    BY <1>6 DEF MigrateCreate, NoFault
  <2>2. orig = Newest /\ Revisions # {}
    BY <1>k, <2>1 DEF Recovering
  <2>3. PICK rev : rev = [history[orig] EXCEPT !.status = "deployed", !.served = TRUE, !.migrated = TRUE]
    OBVIOUS
  <2>4. history[orig] \in Revision /\ orig + 1 \notin Revisions
    BY <1>0, <2>2, NewestIs
  <2>5. rev.status = "deployed" /\ rev.served = TRUE
    BY <2>3, <2>4 DEF Revision
  <2>6. history' = Stored(Newest + 1, rev, 0) /\ pc' = "prepare"
    BY <1>6, <2>2, <2>3, <2>4 DEF MigrateCreate, Goto
  <2>7. Newest' = Newest + 1 /\ Newest' \in Revisions' /\ history'[Newest'] = rev
    BY <1>0, <2>6, NextIsNewest
  <2>8. CurrentRelease' = Newest' /\ Newest' # 0
    BY <1>0, <2>5, <2>7, NewestIs DEF CurrentRelease
  <2>9. Usable'
    BY <2>5, <2>7, <2>8 DEF Usable, Builds
  <2> QED
    BY <2>6, <2>9 DEF Recovering
<1>8. CASE Prepare
  <2>1. /\ pc = "prepare" /\ (Revisions = {} \/ CurrentRelease # 0) /\ pc' = "namespaces"
        /\ UNCHANGED <<history, newAPIs, op, clean, before>>
    BY <1>8 DEF Prepare, NoFault, Goto
  <2>2. Usable \/ Absent
    BY <1>k, <2>1 DEF Recovering, Refusable
  <2> QED
    BY <1>u, <2>1, <2>2 DEF Recovering
<1>9. CASE UpgradeRefused
  <2>1. /\ pc = "prepare" /\ Revisions # {} /\ CurrentRelease = 0
        /\ UNCHANGED <<history, newAPIs, op, clean, before>>
    BY <1>9 DEF UpgradeRefused, NoFault, HelmFails
  <2>2. Refusable
    BY <1>k, <2>1 DEF Recovering, Usable, Absent
  <2>3. pc' = "failed"
    BY <1>9, <2>1 DEF UpgradeRefused, HelmFails, Goto, Clean
  <2> QED
    BY <1>u, <2>1, <2>2, <2>3 DEF Recovering
<1>10. CASE PrepareNamespace \/ ApplySecrets
  <2>1. pc = "namespaces" /\ UNCHANGED <<history, newAPIs, op, clean, before, pc>>
    BY <1>10 DEF PrepareNamespace, ApplySecrets, NoFault
  <2>2. Usable \/ Absent
    BY <1>k, <2>1 DEF Recovering
  <2> QED
    BY <1>u, <2>1, <2>2 DEF Recovering
<1>12. CASE RenderFails
  <2>1. pc = "namespaces" /\ orig # 0 /\ ~Builds(orig) /\ UNCHANGED <<op, clean>>
    BY <1>f, <1>12 DEF RenderFails, NoFault
  <2>2. orig = CurrentRelease
    BY <1>0, <2>1 DEF OperationInv
  <2>3. Usable \/ Absent
    BY <1>k, <2>1 DEF Recovering
  <2> QED
    BY <2>1, <2>2, <2>3 DEF Usable, Absent, CurrentRelease
<1>13. CASE CreateRevision
  <2>1. /\ up' = Newest + 1 /\ pc' = "apply"
        /\ \E rev, maximum : history' = Stored(Newest + 1, rev, maximum)
    BY <1>13 DEF CreateRevision, Goto
  <2>2. Newest' = Newest + 1 /\ Newest' \in Revisions'
    BY <1>0, <2>1, NextIsNewest
  <2> QED
    BY <2>1, <2>2 DEF Recovering, UpIsNewest
<1>14. CASE Applied
  <2>1. pc = "apply" /\ pc' = "record" /\ UNCHANGED <<op, clean, up>>
    BY <1>f, <1>14 DEF Applied, NoFault, Goto
  <2>2. history' \in {history, Marked(history, orig, "superseded")}
    BY <1>14 DEF Applied
  <2>3. DOMAIN history' = DOMAIN history
    BY <1>0, <2>2, MarkedIs
  <2>4. UpIsNewest
    BY <1>k, <2>1 DEF Recovering
  <2> QED
    BY <2>1, <2>3, <2>4, SameNumbers DEF Recovering, UpIsNewest
<1>15. CASE RecordDeployed
  <2>1. pc = "record" /\ history' = Marked(history, up, "deployed") /\ UNCHANGED <<op, clean>>
    BY <1>15 DEF RecordDeployed, NoFault
  <2>2. pc' = "health"
    BY <1>15, <2>1 DEF RecordDeployed, Goto, Clean
  <2>3. UpIsNewest
    BY <1>k, <2>1 DEF Recovering
  <2>4. DOMAIN history' = DOMAIN history /\ history'[up].status = "deployed"
    BY <1>0, <2>1, <2>3, MarkedIs DEF UpIsNewest, Revisions
  <2>5. Revisions' # {} /\ history'[Newest'].status = "deployed"
    BY <2>3, <2>4, SameNumbers DEF UpIsNewest
  <2> QED
    BY <2>2, <2>5 DEF Recovering
<1>21. CASE HealthChecked
  <2>1. pc = "health" /\ pc' = "returned" /\ result' = "ok" /\ UNCHANGED <<history, newAPIs, before, op, clean>>
    BY <1>f, <1>21 DEF HealthChecked, NoFault, Returns
  <2>2. history[Newest].status = "deployed"
    BY <1>k, <2>1 DEF Recovering
  <2> QED
    BY <1>u, <2>1, <2>2 DEF Recovering
<1>22. CASE ChooseRollback
  <2>1. pc = "failed" /\ UNCHANGED <<history, newAPIs, before, op, clean>>
    BY <1>f, <1>22 DEF ChooseRollback, NoFault
  <2>2. Refusable
    BY <1>k, <2>1 DEF Recovering
  <2>3. CASE Deployed # {}
    <3>1. orig' = ListedLast(Deployed) /\ pc' = "rollback"
      BY <1>f, <1>22, <2>3 DEF ChooseRollback, RollbackCandidates, Goto
    <3>2. orig' \in Deployed
      BY <1>0, <2>3, <3>1, RevisionNumbers
    <3>3. orig' \in Revisions /\ Builds(orig') /\ Builds(Newest) /\ before.top = "pending"
      BY <2>2, <3>2 DEF Refusable, Deployed
    <3>4. orig' \in Revisions' /\ Builds(orig)' /\ Builds(Newest)' /\ before'.top = "pending"
      BY <1>u, <2>1, <3>3 DEF Builds
    <3> QED
      BY <3>1, <3>4 DEF Recovering
  <2>4. CASE Deployed = {}
    <3>1. pc' = "returned"
      BY <1>f, <1>22, <2>4 DEF ChooseRollback, RollbackCandidates, Returns
    <3> QED
      BY <2>1, <2>2, <2>4, <3>1 DEF Recovering, Refusable
  <2> QED
    BY <2>3, <2>4
<1>23. CASE RollbackCreate
  <2>1. pc = "rollback" /\ up' = Newest + 1 /\ pc' = "rollingback" /\ UNCHANGED <<newAPIs, op, clean, before>>
    BY <1>23 DEF RollbackCreate, NoFault, Goto
  <2>2. orig \in Revisions /\ Builds(orig) /\ Builds(Newest) /\ before.top = "pending"
    BY <1>k, <2>1 DEF Recovering
  <2>3. PICK rev : rev = [history[orig] EXCEPT !.status = "pending", !.proven = FALSE]
    OBVIOUS
  <2>4. history[orig] \in Revision
    BY <1>0, <2>2, NewestIs
  <2>5. rev.served = history[orig].served
    BY <2>3, <2>4 DEF Revision
  <2>6. history' = Stored(Newest + 1, rev, maxHelmHistory)
    BY <1>23, <2>3 DEF RollbackCreate
  <2>7. /\ Newest' = Newest + 1 /\ Newest' \in Revisions' /\ history'[Newest'] = rev
        /\ Revisions' \subseteq Revisions \cup {Newest'}
        /\ \A q \in Revisions' \ {Newest'} : history'[q] = history[q]
    BY <1>0, <2>6, NextIsNewest
  <2>8. up' = Newest' /\ up' - 1 = Newest /\ Newest # Newest'
    BY <1>0, <2>1, <2>7, NewestIs
  <2>9. Builds(up)'
    BY <2>1, <2>2, <2>5, <2>7, <2>8 DEF Builds
  <2>10. ASSUME Newest \in Revisions' PROVE Builds(up - 1)'
    <3>1. history'[up' - 1] = history[Newest]
      BY <2>7, <2>8, <2>10
    <3> QED
      BY <2>1, <2>2, <3>1 DEF Builds
  <2>11. UpIsNewest'
    BY <2>7, <2>8 DEF UpIsNewest
  <2>12. (\A r \in {up - 1, up} \cap Revisions : Builds(r))'
    BY <2>8, <2>9, <2>10
  <2> QED
    BY <2>1, <2>2, <2>11, <2>12 DEF Recovering
<1>24. CASE RollbackStops
  <2>1. pc = "rollingback" /\ (\E r \in {up - 1, up} : r \in Revisions /\ ~Builds(r)) /\ UNCHANGED <<op, clean>>
    BY <1>f, <1>24 DEF RollbackStops, NoFault
  <2> QED
    BY <1>k, <2>1 DEF Recovering
<1>26. CASE RollbackApplied
  <2>1. pc = "rollingback" /\ pc' = "rolledback" /\ UNCHANGED <<op, clean, up, before>>
    BY <1>26 DEF RollbackApplied, NoFault, Goto
  <2>2. DOMAIN history' = DOMAIN history
    BY <1>26 DEF RollbackApplied, Revisions
  <2>3. UpIsNewest /\ before.top = "pending"
    BY <1>k, <2>1 DEF Recovering
  <2> QED
    BY <2>1, <2>2, <2>3, SameNumbers DEF Recovering, UpIsNewest
<1>27. CASE RollbackRecorded
  <2>1. /\ pc = "rolledback" /\ pc' = "returned" /\ history' = Marked(history, up, "deployed")
        /\ UNCHANGED <<op, clean, before>>
    BY <1>27 DEF RollbackRecorded, NoFault, Returns
  <2>2. UpIsNewest /\ before.top = "pending"
    BY <1>k, <2>1 DEF Recovering
  <2>3. DOMAIN history' = DOMAIN history /\ history'[up].status = "deployed"
    BY <1>0, <2>1, <2>2, MarkedIs DEF UpIsNewest, Revisions
  <2>4. history'[Newest'].status = "deployed"
    BY <2>2, <2>3, SameNumbers DEF UpIsNewest
  <2> QED
    BY <2>1, <2>2, <2>4 DEF Recovering
<1>28. ~(StartFails \/ MigrateFails \/ RecordLost \/ ApplyFails \/ ApplyTimesOut \/ RollbackFails
         \/ UninstallFails \/ Killed)
  BY <1>f DEF StartFails, MigrateFails, RecordLost, ApplyFails, ApplyTimesOut, RollbackFails,
              UninstallFails, Killed
<1>29. ~(BackgroundSucceeds \/ BackgroundFails)
  BY <1>n DEF BackgroundSucceeds, BackgroundFails
<1>30. ~(UpdateReleaseValues \/ RemoveChart \/ Exit)
  <2>1. UpdateReleaseValues => op'.kind = "values"
    BY DEF UpdateReleaseValues, Start, Operation
  <2>2. RemoveChart => op'.kind = "remove"
    BY DEF RemoveChart, Operation
  <2>3. Exit => op'.kind = "none"
    BY DEF Exit, NoOp
  <2> QED
    BY <2>1, <2>2, <2>3 DEF Clean
<1>31. ~(UpgradeCluster \/ Uninstalling \/ Purge \/ Uninstalled)
  BY <1>0 DEF UpgradeCluster, Uninstalling, Purge, Uninstalled, ProcessInv, Clean
<1> QED
  BY <1>1, <1>4, <1>5, <1>6, <1>8, <1>9, <1>10, <1>12, <1>13, <1>14, <1>15, <1>21, <1>22, <1>23,
     <1>24, <1>26, <1>27, <1>28, <1>29, <1>30, <1>31 DEF Next

LEMMA RecoverInvariant == Spec => []RecoverInv
<1>1. Init => RecoverInv
  BY DEF Init, RecoverInv, ProcessInv, Clean, NoOp, NoBackground
<1>2. ASSUME HelmInv, HelmInv', RecoverInv, [Next]_vars PROVE RecoverInv'
  <2>1. CASE Next
    BY <1>2, <2>1, ProcessStep, RecoverStep DEF RecoverInv
  <2>2. CASE UNCHANGED vars
    <3>1. UNCHANGED helmVars
      BY <2>2 DEF vars
    <3> QED
      BY <1>2, <3>1 DEF helmVars, RecoverInv, ProcessInv, Clean, Recovering, Usable, Refusable,
         Absent, Buildable, UpIsNewest, CurrentRelease, Newest, Deployed, Revisions, Builds
  <2> QED
    BY <1>2, <2>1, <2>2
<1> QED
  BY <1>1, <1>2, HelmInvariant, PTL DEF Spec

\* A deploy in which nothing fails repairs what an earlier one left, whatever the
\* history looks like, as long as Helm can still build it: if some revision is
\* deployed, InstallOrUpgradeChart ends with the newest one deployed, be it by its
\* rollback, and it succeeds unless the newest was pending.  It rolls back only
\* to a revision that Helm completed or a migration stored.
THEOREM DeployRecovery == Spec => []RecoveryIsSound
<1>1. HelmInv /\ RecoverInv => RecoveryIsSound
  BY DEF HelmInv, OperationInv, RecoverInv, Clean, Recovering, RecoveryIsSound, DeployRecovers
<1> QED
  BY <1>1, HelmInvariant, RecoverInvariant, PTL

-----------------------------------------------------------------------------
(* What an operation leaves of a release.                                  *)

Stuck == [live |-> NoPkg, top |-> "pending"]
AtMostOne == \A r, s \in Deployed : r = s
Untouched == before = Abstract(history) /\ AtMostOne

\* The versions that may be deployed when an operation fails: the one before,
\* or the one of an install that completed after all.
Keepers == IF before = NoRelease THEN {op.pkg} ELSE {before.live}
Loose ==
    /\ Revisions # {} /\ before # Stuck
    /\ \A r \in Deployed : history[r].pkg \in Keepers
Failed == Loose \/ (Untouched /\ ~background.on)

\* A new revision is stored and not yet recorded.
Underway ==
    /\ UpIsNewest /\ history[up].status = "pending" /\ history[up].pkg = op.pkg
    /\ before.top # "pending"
    /\ IF orig = 0 THEN before = NoRelease /\ Deployed = {}
       ELSE before # NoRelease /\ orig # up /\ \A r \in Deployed : history[r].pkg = before.live

\* It is recorded, or the record is lost and Helm only logs that.
Completed == Abstract(history) = [live |-> op.pkg, top |-> "deployed"] /\ before.top # "pending"
LostInstall == ~clean /\ before = NoRelease /\ Abstract(history) = Stuck /\ Loose

\* What a goroutine of Helm may still write.
BackgroundKnown ==
    background.on =>
        /\ background.orig = 0 =>
              /\ before = NoRelease
              /\ background.up \in Revisions => history[background.up].pkg = op.pkg
        /\ background.orig \in Revisions /\ background.status = "deployed" =>
              history[background.orig].pkg \in Keepers
        /\ pc \in {"failed", "rollback"} =>
              background.up \in Revisions /\ background.orig \in Revisions \cup {0}

\* A release on its way out keeps the look it had, or is half removed.
Purged ==
    /\ before.top # "none"
    /\ Revisions # {} =>
          /\ \A r \in Deployed : history[r].pkg = before.live
          /\ LET status == history[Newest].status IN
             /\ status = "deployed" => before.top = "deployed"
             /\ status \in {"failed", "superseded"} => before.top = "failed"
             /\ status = "pending" => before.top = "pending"
             /\ status = "uninstalling" /\ Deployed # {} => before.top \in {"failed", "pending"}

Installing ==
    /\ pc \in {"migrate", "prepare", "namespaces"} => Untouched
    /\ pc = "namespaces" => Revisions = {} \/ CurrentRelease # 0
    /\ pc \in {"apply", "record"} => Underway
    /\ pc = "health" => Completed \/ LostInstall
    /\ pc = "failed" => Failed
    /\ pc \in {"rollback", "rollingback", "rolledback"} => Loose
    /\ pc = "rollback" /\ orig \in Revisions => history[orig].pkg \in Keepers
    /\ pc \in {"rollingback", "rolledback"} => up \in Revisions /\ history[up].pkg \in Keepers
    /\ pc = "returned" /\ result = "ok" => ~background.on /\ (Completed \/ LostInstall)
    /\ pc = "returned" /\ result # "ok" => Failed \/ (Completed /\ ~background.on)
    /\ BackgroundKnown

Removing ==
    /\ pc = "uninstall" => Untouched /\ Revisions # {}
    /\ pc = "purge" => Purged
    /\ pc = "returned" /\ result = "ok" => Revisions = {}
    /\ pc = "returned" /\ result # "ok" => Purged \/ Untouched

Deploys == {"migrate", "prepare", "namespaces", "apply", "record", "health", "failed", "rollback",
            "rollingback", "rolledback"}
PhaseInv ==
    /\ pc \in Deploys \cup {"idle", "uninstall", "purge", "returned"}
    /\ pc = "returned" => result \in {"ok", "failed"}
    /\ pc \in {"uninstall", "purge"} => op.kind = "remove"
    /\ pc \in Deploys \/ background.on => op.kind # "remove"

\* Operations on a release with at most one deployed revision that migrate nothing.
Plain == pc # "idle" /\ migration = "none" /\ ~op.many

OutcomeInv ==
    /\ PhaseInv
    /\ Plain => IF op.kind = "remove" THEN Removing ELSE Installing

-----------------------------------------------------------------------------
(* The outcomes through every step.                                        *)

LEMMA PhaseStep ==
    ASSUME HelmInv, PhaseInv, Next
    PROVE  PhaseInv'
<1>0. BackgroundInv
  BY DEF HelmInv
<1>1. ASSUME NEW p \in Pkg, NEW own \in BOOLEAN, InstallOrUpgradeChart(p, own)
      PROVE  PhaseInv'
  BY <1>0, <1>1 DEF BackgroundInv, Unwinding, InstallOrUpgradeChart, Start, Operation, Goto,
     PhaseInv, Deploys
<1>2. CASE UpdateReleaseValues
  BY <1>0, <1>2 DEF BackgroundInv, Unwinding, UpdateReleaseValues, Start, Operation, Goto,
     PhaseInv, Deploys
<1>3. CASE RemoveChart
  BY <1>0, <1>3 DEF BackgroundInv, Unwinding, RemoveChart, Operation, Goto, PhaseInv, Deploys
<1>4. CASE UpgradeCluster
  BY <1>4 DEF UpgradeCluster, PhaseInv, Deploys
<1>5. CASE StartFails
  BY <1>5 DEF StartFails, PhaseInv, Deploys, Goto, Returns, HelmFails
<1>6. CASE MigrateNothing
  BY <1>6 DEF MigrateNothing, PhaseInv, Deploys, Goto, Returns, HelmFails
<1>7. CASE MigrateSupersede
  BY <1>7 DEF MigrateSupersede, PhaseInv, Deploys, Goto, Returns, HelmFails
<1>8. CASE MigrateCreate
  BY <1>8 DEF MigrateCreate, PhaseInv, Deploys, Goto, Returns, HelmFails
<1>9. CASE MigrateFails
  BY <1>9 DEF MigrateFails, PhaseInv, Deploys, Goto, Returns, HelmFails
<1>10. CASE Prepare
  BY <1>10 DEF Prepare, PhaseInv, Deploys, Goto, Returns, HelmFails
<1>11. CASE UpgradeRefused
  BY <1>11 DEF UpgradeRefused, PhaseInv, Deploys, Goto, Returns, HelmFails
<1>12. CASE PrepareNamespace
  BY <1>12 DEF PrepareNamespace, PhaseInv, Deploys, Goto, Returns, HelmFails
<1>13. CASE ApplySecrets
  BY <1>13 DEF ApplySecrets, PhaseInv, Deploys, Goto, Returns, HelmFails
<1>14. CASE RenderFails
  BY <1>14 DEF RenderFails, PhaseInv, Deploys, Goto, Returns, HelmFails
<1>15. CASE CreateRevision
  BY <1>15 DEF CreateRevision, PhaseInv, Deploys, Goto, Returns, HelmFails
<1>16. CASE Applied
  BY <1>16 DEF Applied, PhaseInv, Deploys, Goto, Returns, HelmFails
<1>17. CASE RecordDeployed
  BY <1>17 DEF RecordDeployed, PhaseInv, Deploys, Goto, Returns, HelmFails
<1>18. CASE RecordLost
  BY <1>18 DEF RecordLost, PhaseInv, Deploys, Goto, Returns, HelmFails
<1>19. CASE ApplyFails
  BY <1>19 DEF ApplyFails, PhaseInv, Deploys, Goto, Returns, HelmFails
<1>20. CASE ApplyTimesOut
  BY <1>20 DEF ApplyTimesOut, PhaseInv, Deploys, Goto, Returns, HelmFails
<1>21. CASE BackgroundSucceeds
  BY <1>21 DEF BackgroundSucceeds, NoBackground, PhaseInv, Deploys, Goto, Returns, HelmFails
<1>22. CASE BackgroundFails
  BY <1>22 DEF BackgroundFails, NoBackground, PhaseInv, Deploys, Goto, Returns, HelmFails
<1>23. CASE HealthChecked
  BY <1>23 DEF HealthChecked, PhaseInv, Deploys, Goto, Returns, HelmFails
<1>24. CASE ChooseRollback
  BY <1>24 DEF ChooseRollback, PhaseInv, Deploys, Goto, Returns, HelmFails
<1>25. CASE RollbackCreate
  BY <1>25 DEF RollbackCreate, PhaseInv, Deploys, Goto, Returns, HelmFails
<1>26. CASE RollbackStops
  BY <1>26 DEF RollbackStops, PhaseInv, Deploys, Goto, Returns, HelmFails
<1>27. CASE RollbackFails
  BY <1>27 DEF RollbackFails, PhaseInv, Deploys, Goto, Returns, HelmFails
<1>28. CASE RollbackApplied
  BY <1>28 DEF RollbackApplied, PhaseInv, Deploys, Goto, Returns, HelmFails
<1>29. CASE RollbackRecorded
  BY <1>29 DEF RollbackRecorded, PhaseInv, Deploys, Goto, Returns, HelmFails
<1>30. CASE Uninstalling
  BY <1>30 DEF Uninstalling, PhaseInv, Deploys, Goto, Returns, HelmFails
<1>31. CASE Purge
  BY <1>31 DEF Purge, PhaseInv, Deploys, Goto, Returns, HelmFails
<1>32. CASE Uninstalled
  BY <1>32 DEF Uninstalled, PhaseInv, Deploys, Goto, Returns, HelmFails
<1>33. CASE UninstallFails
  BY <1>33 DEF UninstallFails, PhaseInv, Deploys, Goto, Returns, HelmFails
<1>34. CASE Exit
  BY <1>34 DEF Exit, NoBackground, PhaseInv, Deploys, Goto, Returns, HelmFails
<1>35. CASE Killed
  BY <1>35 DEF Killed, NoBackground, PhaseInv, Deploys, Goto, Returns, HelmFails
<1> QED
  BY <1>1, <1>2, <1>3, <1>4, <1>5, <1>6, <1>7, <1>8, <1>9, <1>10, <1>11, <1>12, <1>13, <1>14,
     <1>15, <1>16, <1>17, <1>18, <1>19, <1>20, <1>21, <1>22, <1>23, <1>24, <1>25, <1>26, <1>27,
     <1>28, <1>29, <1>30, <1>31, <1>32, <1>33, <1>34, <1>35 DEF Next

\* Before an operation at most one revision is deployed.
LEMMA FewDeployed ==
    ASSUME HistoryInv, ~(Cardinality(Deployed) > 1)
    PROVE  AtMostOne
<1> SUFFICES ASSUME NEW r \in Deployed, NEW s \in Deployed, r # s PROVE FALSE
  BY DEF AtMostOne
<1>1. MaxRevision \in Nat /\ Deployed \subseteq 0..MaxRevision
  BY HistoryAssumption, RevisionNumbers DEF Deployed
<1>2. IsFiniteSet(0..MaxRevision)
  BY <1>1, FS_Interval
<1>3. IsFiniteSet(Deployed)
  BY <1>1, <1>2, FS_Subset
<1>4. IsFiniteSet(Deployed \ {r}) /\ Cardinality(Deployed \ {r}) = Cardinality(Deployed) - 1
  BY <1>3, FS_RemoveElement
<1>5. Cardinality(Deployed \ {r}) # 0
  BY <1>4, FS_EmptySet
<1>6. Cardinality(Deployed) \in Nat /\ Cardinality(Deployed \ {r}) \in Nat
  BY <1>3, <1>4, FS_CardinalityType
<1> QED
  BY <1>4, <1>5, <1>6

\* An operation begins with the release as it finds it.
LEMMA Begins ==
    ASSUME HistoryInv, NEW kind, NEW p, NEW own, op' = Operation(kind, p, own), ~op'.many,
           before' = Abstract(history), UNCHANGED history
    PROVE  Untouched' /\ op'.kind = kind
<1>1. op'.many = (Cardinality(Deployed) > 1) /\ op'.kind = kind
  BY DEF Operation
<1>2. AtMostOne
  BY <1>1, FewDeployed
<1> QED
  BY <1>1, <1>2 DEF Untouched, AtMostOne, Deployed, Revisions

\* What is deployed is the version that was, and the look tells the statuses.
LEMMA UntouchedFacts ==
    ASSUME HistoryInv, Untouched, Revisions # {}
    PROVE  /\ before.top = Look(history[Newest].status, Deployed # {})
           /\ history[Newest].status \in Status
           /\ before # NoRelease
           /\ \A r \in Deployed : history[r].pkg = before.live /\ before.live \in Pkg
<1>1. history[Newest].status \in Status /\ \A r \in Deployed : history[r].pkg \in Pkg
  BY NewestIs, RevisionFields DEF Deployed
<1>2. before.top = Look(history[Newest].status, Deployed # {})
  BY AbstractIs DEF Untouched
<1>3. before.top # "none"
  BY <1>1, <1>2 DEF Look, Status
<1>4. before # NoRelease
  BY <1>3 DEF NoRelease
<1>5. \A r \in Deployed : history[r].pkg = before.live
  BY AbstractIs DEF Untouched, AtMostOne
<1> QED
  BY <1>1, <1>2, <1>4, <1>5

LEMMA MinFacts ==
    ASSUME NEW T \in SUBSET Nat, T # {}
    PROVE  Min(T) \in T /\ \A y \in T : Min(T) <= y
<1>1. \E x \in T : \A y \in T : x <= y
  BY SmallestExists
<1> QED
  BY <1>1 DEF Min

\* RemoveChart removes from the oldest to the newest, and ends with nothing or
\* with what UninstallFailures says.
LEMMA RemoveStep ==
    ASSUME HelmInv, HelmInv', OutcomeInv, Next, Plain', op'.kind = "remove"
    PROVE  Removing'
<1>0. HistoryInv /\ HistoryInv' /\ HistoryOK(history) /\ PhaseInv
  BY DEF HelmInv, HistoryInv, OutcomeInv
<1>k. pc # "idle" /\ UNCHANGED <<op, migration>> => op.kind = "remove" /\ Removing
  BY DEF OutcomeInv, Plain
<1>1. CASE RemoveChart
  <2>1. /\ op' = Operation("remove", NoPkg, FALSE) /\ before' = Abstract(history)
        /\ UNCHANGED history /\ Revisions # {} /\ pc' = "uninstall"
    BY <1>1 DEF RemoveChart, Goto
  <2>2. Untouched'
    BY <1>0, <2>1, Begins DEF Plain
  <2> QED
    BY <2>1, <2>2 DEF Removing, Revisions
<1>2. CASE Uninstalling
  <2>1. /\ pc = "uninstall" /\ pc' = "purge" /\ UNCHANGED <<op, migration, before>>
        /\ history' \in {history, Marked(history, Newest, "uninstalling")}
    BY <1>2 DEF Uninstalling, Goto
  <2>2. Untouched /\ Revisions # {}
    BY <1>k, <2>1 DEF Removing
  <2>3. /\ before.top = Look(history[Newest].status, Deployed # {})
        /\ history[Newest].status \in Status
        /\ \A r \in Deployed : history[r].pkg = before.live
    BY <1>0, <2>2, UntouchedFacts
  <2>4. before.top # "none"
    BY <2>3 DEF Look, Status
  <2>5. CASE history' = history
    <3>1. Revisions' = Revisions /\ Deployed' = Deployed /\ Newest' = Newest
      BY <2>5 DEF Revisions, Deployed, Newest
    <3>2. Purged
      BY <2>3, <2>4 DEF Purged, Look
    <3>3. Purged'
      BY <2>1, <2>5, <3>1, <3>2 DEF Purged
    <3> QED
      BY <2>1, <3>3 DEF Removing
  <2>6. CASE history' = Marked(history, Newest, "uninstalling")
    <3>1. /\ DOMAIN history' = DOMAIN history
          /\ \A q \in DOMAIN history \ {Newest} : history'[q] = history[q]
          /\ Newest \in DOMAIN history => history'[Newest].status = "uninstalling"
      BY <1>0, <2>6, MarkedIs
    <3>2. Revisions' = Revisions /\ Newest' = Newest /\ Newest \in Revisions
      BY <1>0, <2>2, <3>1, SameNumbers, NewestIs
    <3>3. history'[Newest'].status = "uninstalling"
      BY <3>1, <3>2 DEF Revisions
    <3>4. \A r \in Deployed' : r # Newest /\ r \in Deployed /\ history'[r] = history[r]
      <4> SUFFICES ASSUME NEW r \in Deployed' PROVE r # Newest /\ r \in Deployed /\ history'[r] = history[r]
        OBVIOUS
      <4>1. r \in Revisions /\ history'[r].status = "deployed"
        BY <3>2 DEF Deployed
      <4>2. r # Newest
        BY <3>2, <3>3, <4>1
      <4> QED
        BY <3>1, <4>1, <4>2 DEF Deployed, Revisions
    <3>5. ASSUME Deployed' # {} PROVE before.top \in {"failed", "pending"}
      <4>1. Newest \notin Deployed
        BY <2>2, <3>4, <3>5 DEF Untouched, AtMostOne
      <4>2. history[Newest].status # "deployed"
        BY <3>2, <4>1 DEF Deployed
      <4> QED
        BY <2>3, <4>2 DEF Look, Status
    <3>6. Purged'
      BY <2>1, <2>3, <2>4, <3>2, <3>3, <3>4, <3>5 DEF Purged
    <3> QED
      BY <2>1, <3>6 DEF Removing
  <2> QED
    BY <2>1, <2>5, <2>6
<1>3. CASE Purge
  <2>1. /\ pc = "purge" /\ Revisions # {} /\ history' = [r \in Revisions \ {Min(Revisions)} |-> history[r]]
        /\ UNCHANGED <<pc, op, migration, before>>
    BY <1>3 DEF Purge
  <2>2. Purged
    BY <1>k, <2>1 DEF Removing
  <2>3. /\ Newest \in Revisions /\ Newest \in Nat
        /\ \A r \in Revisions : r \in Nat /\ r <= Newest
    BY <1>0, <2>1, NewestIs
  <2>4. Min(Revisions) \in Revisions /\ \A r \in Revisions : Min(Revisions) <= r
    BY <2>1, <2>3, MinFacts
  <2>5. Revisions' = Revisions \ {Min(Revisions)} /\ \A r \in Revisions' : history'[r] = history[r]
    BY <2>1 DEF Revisions
  <2>6. ASSUME Revisions' # {} PROVE Newest' = Newest
    <3>1. PICK r \in Revisions : r # Min(Revisions)
      BY <2>5, <2>6
    <3>2. Newest # Min(Revisions)
      <4> SUFFICES ASSUME Newest = Min(Revisions) PROVE FALSE
        OBVIOUS
      <4> QED
        BY <2>3, <2>4, <3>1
    <3>3. Newest \in Revisions'
      BY <2>3, <2>5, <3>2
    <3>4. Newest' \in Revisions /\ Newest <= Newest'
      BY <1>0, <2>5, <2>6, <3>3, NewestWillBe
    <3> QED
      BY <2>3, <3>4
  <2>7. \A r \in Deployed' : r \in Deployed /\ history'[r] = history[r]
    BY <2>5 DEF Deployed
  <2>8. Revisions' # {} => history'[Newest'] = history[Newest]
    BY <1>0, <2>5, <2>6, NewestWillBe
  <2>9. Purged'
    BY <2>1, <2>2, <2>6, <2>7, <2>8 DEF Purged
  <2> QED
    BY <2>1, <2>9 DEF Removing
<1>4. ASSUME Uninstalled \/ UninstallFails PROVE Removing'
  <2>1. /\ pc' = "returned" /\ UNCHANGED <<history, op, migration, before>> /\ pc # "idle"
        /\ result' = "ok" => Revisions = {}
        /\ pc = "purge" \/ (pc = "uninstall" /\ result' # "ok")
    BY <1>4 DEF Uninstalled, UninstallFails, Returns
  <2>2. Purged \/ (Untouched /\ pc = "uninstall")
    BY <1>k, <2>1 DEF Removing
  <2>3. Revisions' = Revisions /\ Deployed' = Deployed /\ Newest' = Newest
    BY <2>1 DEF Revisions, Deployed, Newest
  <2>4. Purged' = Purged /\ Untouched' = Untouched
    BY <2>1, <2>3 DEF Purged, Untouched, AtMostOne
  <2> QED
    BY <2>1, <2>2, <2>3, <2>4 DEF Removing
<1>5. UNCHANGED op => pc \notin Deploys /\ ~background.on
  BY <1>0 DEF PhaseInv
<1>6. ~(StartFails \/ MigrateNothing \/ MigrateSupersede \/ MigrateCreate \/ MigrateFails \/ Prepare
        \/ UpgradeRefused \/ PrepareNamespace \/ ApplySecrets \/ RenderFails)
  BY <1>5 DEF StartFails, MigrateNothing, MigrateSupersede, MigrateCreate, MigrateFails, Prepare,
     UpgradeRefused, PrepareNamespace, ApplySecrets, RenderFails, Deploys
<1>7. ~(CreateRevision \/ Applied \/ RecordDeployed \/ RecordLost \/ ApplyFails \/ ApplyTimesOut
        \/ HealthChecked \/ ChooseRollback \/ RollbackCreate)
  BY <1>5 DEF CreateRevision, Applied, RecordDeployed, RecordLost, ApplyFails, ApplyTimesOut,
     HealthChecked, ChooseRollback, RollbackCreate, Deploys
<1>8. ~(RollbackStops \/ RollbackFails \/ RollbackApplied \/ RollbackRecorded \/ BackgroundSucceeds \/ BackgroundFails)
  BY <1>5 DEF RollbackStops, RollbackFails, RollbackApplied, RollbackRecorded, BackgroundSucceeds,
     BackgroundFails, Deploys
<1>9. ~(Exit \/ Killed \/ UpgradeCluster)
  BY DEF Exit, Killed, UpgradeCluster, Goto, Plain
<1>10. ASSUME NEW p \in Pkg, NEW own \in BOOLEAN, InstallOrUpgradeChart(p, own) PROVE FALSE
  BY <1>10 DEF InstallOrUpgradeChart, Start, Operation
<1>11. UpdateReleaseValues => op'.kind = "values"
  BY DEF UpdateReleaseValues, Start, Operation
<1> QED
  BY <1>1, <1>2, <1>3, <1>4, <1>6, <1>7, <1>8, <1>9, <1>10, <1>11 DEF Next

\* Marking revisions that are, or may be, deployed leaves the release loose.
LEMMA LooseStays ==
    ASSUME Loose, Revisions' = Revisions, UNCHANGED <<op, before>>,
           \A r \in Revisions : history'[r].pkg = history[r].pkg,
           \A r \in Deployed' : r \in Deployed \/ history[r].pkg \in Keepers
    PROVE  Loose'
<1>1. Keepers' = Keepers
  BY DEF Keepers
<1>2. \A r \in Deployed' : r \in Revisions
  BY DEF Deployed
<1> QED
  BY <1>1, <1>2 DEF Loose

\* A mark adds at most the marked revision to the deployed ones.
LEMMA MarkDeploys ==
    ASSUME HistoryInv, HistoryInv', NEW r, NEW s, history' = Marked(history, r, s)
    PROVE  /\ Revisions' = Revisions /\ Newest' = Newest
           /\ \A q \in Revisions : history'[q].pkg = history[q].pkg
           /\ \A q \in Revisions \ {r} : history'[q] = history[q]
           /\ r \in Revisions => history'[r].status = s
           /\ \A q \in Deployed' : q \in Deployed \/ (q = r /\ s = "deployed")
           /\ s # "deployed" => \A q \in Deployed' : q \in Deployed
<1>0. HistoryOK(history)
  BY DEF HistoryInv
<1>1. /\ DOMAIN history' = DOMAIN history
      /\ \A q \in DOMAIN history \ {r} : history'[q] = history[q]
      /\ \A q \in DOMAIN history : history'[q].pkg = history[q].pkg
      /\ r \in DOMAIN history => history'[r].status = s
  BY <1>0, MarkedIs
<1>2. Revisions' = Revisions /\ Newest' = Newest
  BY <1>1, SameNumbers
<1>3. \A q \in Deployed' : q \in Deployed \/ (q = r /\ s = "deployed")
  BY <1>1, <1>2 DEF Deployed, Revisions
<1> QED
  BY <1>1, <1>2, <1>3 DEF Revisions

\* A failure while the new revision is under way leaves the old one, if any.
LEMMA UnderwayIsLoose ==
    ASSUME HistoryInv, Underway
    PROVE  Loose /\ (orig = 0 => Abstract(history) = Stuck)
<1>1. Revisions # {} /\ up = Newest /\ history[Newest].status = "pending" /\ before.top # "pending"
  BY DEF Underway, UpIsNewest
<1>2. before # Stuck
  BY <1>1 DEF Stuck
<1>3. \A r \in Deployed : history[r].pkg \in Keepers
  BY DEF Underway, Keepers
<1>4. ASSUME orig = 0 PROVE Abstract(history) = Stuck
  <2>1. Deployed = {}
    BY <1>4 DEF Underway
  <2>2. Abstract(history).live = NoPkg /\ Abstract(history).top = "pending"
    BY <1>1, <2>1, AbstractIs DEF Look
  <2> QED
    BY <1>1, <2>2, AbstractIs DEF Stuck
<1> QED
  BY <1>1, <1>2, <1>3, <1>4 DEF Loose

\* InstallOrUpgradeChart and UpdateReleaseValues leave what InstallFailures says,
\* whatever fails and whatever a timed-out goroutine still writes.
LEMMA InstallStep ==
    ASSUME HelmInv, HelmInv', OutcomeInv, Next, Plain', op'.kind # "remove"
    PROVE  Installing'
<1>0. HistoryInv /\ HistoryInv' /\ HistoryOK(history) /\ PhaseInv /\ OperationInv
  BY DEF HelmInv, HistoryInv, OutcomeInv
<1>k. pc # "idle" /\ UNCHANGED <<op, migration>> => Installing
  BY DEF OutcomeInv, Plain
<1>o. pc \notin Unwinding => ~background.on
  BY DEF HelmInv, BackgroundInv
<1>q. ~background'.on => BackgroundKnown'
  BY DEF BackgroundKnown
<1>u. ASSUME UNCHANGED <<history, op, before>>
      PROVE  /\ Revisions' = Revisions /\ Newest' = Newest /\ Deployed' = Deployed /\ Keepers' = Keepers
             /\ CurrentRelease' = CurrentRelease
             /\ Untouched' = Untouched /\ Loose' = Loose /\ Completed' = Completed
  BY <1>u DEF Revisions, Newest, Deployed, CurrentRelease, Untouched, AtMostOne, Loose, Keepers,
     Completed
<1>b. ASSUME UNCHANGED <<op, before, background>>, BackgroundKnown, Revisions' = Revisions,
             \A r \in Revisions : history'[r].pkg = history[r].pkg,
             pc' \in {"failed", "rollback"} => pc \in {"failed", "rollback"}
      PROVE  BackgroundKnown'
  <2>1. Keepers' = Keepers
    BY <1>b DEF Keepers
  <2> QED
    BY <1>b, <2>1 DEF BackgroundKnown
<1>a. ASSUME pc \in {"migrate", "prepare", "namespaces"}, UNCHANGED <<history, op, before, background, migration>>,
             \/ pc' \in {"migrate", "prepare", "failed"}
             \/ pc' = "namespaces" /\ (Revisions = {} \/ CurrentRelease # 0 \/ pc = "namespaces")
             \/ pc' = "returned" /\ result' = "failed"
      PROVE  Installing'
  <2>1. Installing /\ ~background.on
    BY <1>a, <1>k, <1>o DEF Unwinding
  <2>2. Untouched' /\ ~background'.on /\ Failed'
    BY <1>a, <1>u, <2>1 DEF Installing, Failed
  <2>3. pc' = "namespaces" => Revisions' = {} \/ CurrentRelease' # 0
    BY <1>a, <1>u, <2>1 DEF Installing
  <2> QED
    BY <1>a, <1>q, <2>2, <2>3 DEF Installing
<1>1. ASSUME NEW p \in Pkg, NEW own \in BOOLEAN, InstallOrUpgradeChart(p, own)
      PROVE  Installing'
  <2>1. /\ op' = Operation("deploy", p, own) /\ before' = Abstract(history) /\ pc = "idle"
        /\ UNCHANGED <<history, background>> /\ pc' \in {"migrate", "prepare"}
    BY <1>1 DEF InstallOrUpgradeChart, Start, Goto
  <2>2. Untouched' /\ ~background'.on
    BY <1>0, <1>o, <2>1, Begins DEF Plain, Unwinding
  <2> QED
    BY <1>q, <2>1, <2>2 DEF Installing
<1>2. CASE UpdateReleaseValues
  <2>1. PICK p : p = history[ListedLast(Revisions)].pkg
    OBVIOUS
  <2>2. /\ op' = Operation("values", p, FALSE) /\ before' = Abstract(history) /\ pc = "idle"
        /\ UNCHANGED <<history, background>> /\ pc' = "prepare"
    BY <1>2, <2>1 DEF UpdateReleaseValues, Start, Goto
  <2>3. Untouched' /\ ~background'.on
    BY <1>0, <1>o, <2>2, Begins DEF Plain, Unwinding
  <2> QED
    BY <1>q, <2>2, <2>3 DEF Installing
<1>3. CASE StartFails
  BY <1>a, <1>3 DEF StartFails, Returns
<1>4. CASE MigrateNothing
  BY <1>a, <1>4 DEF MigrateNothing, Goto
<1>5. ~(MigrateSupersede \/ MigrateCreate)
  BY DEF MigrateSupersede, MigrateCreate, Plain
<1>6. CASE MigrateFails
  BY <1>a, <1>6 DEF MigrateFails, HelmFails, Goto, Returns
<1>7. CASE Prepare
  BY <1>a, <1>7 DEF Prepare, Goto
<1>8. CASE UpgradeRefused
  BY <1>a, <1>8 DEF UpgradeRefused, HelmFails, Goto, Returns
<1>9. CASE PrepareNamespace \/ ApplySecrets
  BY <1>a, <1>9 DEF PrepareNamespace, ApplySecrets
<1>10. CASE RenderFails
  BY <1>a, <1>10 DEF RenderFails, HelmFails, Goto, Returns
<1>11. CASE CreateRevision
  <2>1. pc = "namespaces" /\ up' = Newest + 1 /\ pc' = "apply" /\ UNCHANGED <<op, orig, background, before, migration>>
    BY <1>11 DEF CreateRevision, Goto
  <2>2. /\ Untouched /\ ~background.on /\ orig = CurrentRelease
        /\ Revisions = {} \/ CurrentRelease # 0
    BY <1>0, <1>k, <1>o, <2>1 DEF Installing, Unwinding, OperationInv
  <2>3. PICK rev : rev = [status |-> "pending", pkg |-> op.pkg, served |-> newAPIs,
                          proven |-> FALSE, migrated |-> FALSE]
    OBVIOUS
  <2>4. rev.status = "pending" /\ rev.pkg = op.pkg
    BY <2>3
  <2>5. \E maximum : history' = Stored(Newest + 1, rev, maximum)
    BY <1>11, <2>3 DEF CreateRevision
  <2>6. /\ Newest' = Newest + 1 /\ Newest' \in Revisions' /\ history'[Newest'] = rev
        /\ Revisions' \subseteq Revisions \cup {Newest'}
        /\ \A q \in Revisions' \ {Newest'} : history'[q] = history[q]
    BY <1>0, <2>5, NextIsNewest
  <2>7. UpIsNewest' /\ up' = Newest'
    BY <2>1, <2>6 DEF UpIsNewest
  <2>8. \A r \in Deployed' : r \in Deployed /\ history'[r] = history[r]
    <3> SUFFICES ASSUME NEW r \in Deployed' PROVE r \in Deployed /\ history'[r] = history[r]
      OBVIOUS
    <3>1. r \in Revisions' /\ history'[r].status = "deployed"
      BY DEF Deployed
    <3>2. r # Newest'
      BY <2>4, <2>6, <3>1
    <3> QED
      BY <2>6, <3>1, <3>2 DEF Deployed
  <2>9. CASE Revisions = {}
    <3>1. orig = 0 /\ before = NoRelease /\ Deployed = {}
      BY <2>2, <2>9 DEF CurrentRelease, Untouched, Abstract, Revisions, Deployed
    <3>2. before.top # "pending"
      BY <3>1 DEF NoRelease
    <3>3. Underway'
      BY <2>1, <2>4, <2>6, <2>7, <2>8, <3>1, <3>2 DEF Underway
    <3> QED
      BY <1>q, <2>1, <2>2, <3>3 DEF Installing
  <2>10. CASE Revisions # {}
    <3>1. /\ before.top = Look(history[Newest].status, Deployed # {}) /\ before # NoRelease
          /\ \A r \in Deployed : history[r].pkg = before.live
          /\ history[Newest].status \in Status
      BY <1>0, <2>2, <2>10, UntouchedFacts
    <3>2. before.top # "pending"
      BY <2>2, <2>10, <3>1 DEF CurrentRelease, Look, Status
    <3>3. orig # 0 /\ orig # up'
      <4>1. CurrentRelease \in Deployed \cup {Newest}
        BY <1>0, <2>2, <2>10, RefusedIsPending
      <4>2. CurrentRelease \in Revisions
        BY <1>0, <2>10, <4>1, NewestIs DEF Deployed
      <4>3. CurrentRelease \in Nat /\ CurrentRelease <= Newest /\ Newest \in Nat
        BY <1>0, <4>2, NewestIs
      <4> QED
        BY <2>1, <2>2, <2>10, <4>3
    <3>4. Underway'
      BY <2>1, <2>4, <2>6, <2>7, <2>8, <3>1, <3>2, <3>3 DEF Underway
    <3> QED
      BY <1>q, <2>1, <2>2, <3>4 DEF Installing
  <2> QED
    BY <2>9, <2>10
<1>12. CASE Applied
  <2>1. pc = "apply" /\ pc' = "record" /\ UNCHANGED <<op, orig, up, background, before, migration>>
    BY <1>12 DEF Applied, Goto
  <2>2. Underway /\ ~background.on
    BY <1>k, <1>o, <2>1 DEF Installing, Unwinding
  <2>3. CASE history' = history
    <3>1. Underway'
      BY <1>u, <2>1, <2>2, <2>3 DEF Underway, UpIsNewest
    <3> QED
      BY <1>q, <2>1, <2>2, <3>1 DEF Installing
  <2>4. CASE orig # 0 /\ history' = Marked(history, orig, "superseded")
    <3>1. /\ Revisions' = Revisions /\ Newest' = Newest
          /\ \A q \in Revisions : history'[q].pkg = history[q].pkg
          /\ \A q \in Revisions \ {orig} : history'[q] = history[q]
          /\ \A q \in Deployed' : q \in Deployed
      BY <1>0, <2>4, MarkDeploys
    <3>2. Deployed \subseteq Revisions
      BY DEF Deployed
    <3>3. Underway'
      BY <2>1, <2>2, <2>4, <3>1, <3>2 DEF Underway, UpIsNewest
    <3> QED
      BY <1>q, <2>1, <2>2, <3>3 DEF Installing
  <2> QED
    BY <1>12, <2>3, <2>4 DEF Applied
<1>13. CASE RecordDeployed
  <2>1. /\ pc = "record" /\ history' = Marked(history, up, "deployed")
        /\ UNCHANGED <<op, background, before, migration>>
        /\ pc' = "health" \/ (pc' = "returned" /\ result' = "ok")
    BY <1>13 DEF RecordDeployed, Goto, Returns
  <2>2. Underway /\ ~background.on
    BY <1>k, <1>o, <2>1 DEF Installing, Unwinding
  <2>3. /\ Revisions' = Revisions /\ Newest' = Newest
        /\ \A q \in Revisions : history'[q].pkg = history[q].pkg
        /\ up \in Revisions => history'[up].status = "deployed"
    BY <1>0, <2>1, MarkDeploys
  <2>4. history'[Newest'].status = "deployed" /\ history'[Newest'].pkg = op.pkg /\ Revisions' # {}
    BY <2>2, <2>3 DEF Underway, UpIsNewest
  <2>5. Abstract(history').live = op.pkg /\ Abstract(history').top = "deployed"
    BY <1>0, <2>4, AbstractWillBe DEF Look
  <2>6. Completed'
    BY <1>0, <2>1, <2>2, <2>4, <2>5, AbstractWillBe DEF Completed, Underway
  <2> QED
    BY <1>q, <2>1, <2>2, <2>6 DEF Installing
<1>14. CASE RecordLost
  <2>1. pc = "record" /\ UNCHANGED <<op, background, history, before, migration>> /\ ~clean'
    BY <1>14 DEF RecordLost, Fault
  <2>2. Underway /\ ~background.on
    BY <1>k, <1>o, <2>1 DEF Installing, Unwinding
  <2>3. Loose /\ (orig = 0 => Abstract(history) = Stuck)
    BY <1>0, <2>2, UnderwayIsLoose
  <2>4. Loose' /\ Failed'
    BY <1>u, <2>1, <2>3 DEF Failed
  <2>5. CASE orig = 0
    <3>1. pc' = "health" /\ LostInstall'
      BY <1>14, <2>1, <2>2, <2>3, <2>4, <2>5 DEF RecordLost, Goto, LostInstall, Underway
    <3> QED
      BY <1>q, <2>1, <2>2, <3>1 DEF Installing
  <2>6. CASE orig # 0
    <3>1. pc' = "failed" \/ (pc' = "returned" /\ result' = "failed")
      BY <1>14, <2>6 DEF RecordLost, HelmFails, Goto, Returns
    <3> QED
      BY <1>q, <2>1, <2>2, <2>4, <3>1 DEF Installing
  <2> QED
    BY <2>5, <2>6
<1>15. CASE ApplyFails
  <2>1. /\ pc = "apply" /\ UNCHANGED <<op, background, before, migration>>
        /\ pc' = "failed" \/ (pc' = "returned" /\ result' = "failed")
    BY <1>15 DEF ApplyFails, HelmFails, Goto, Returns
  <2>2. Underway /\ ~background.on
    BY <1>k, <1>o, <2>1 DEF Installing, Unwinding
  <2>3. Loose
    BY <1>0, <2>2, UnderwayIsLoose
  <2>4. CASE history' = history
    BY <1>q, <1>u, <2>1, <2>2, <2>3, <2>4 DEF Installing, Failed
  <2>5. CASE history' = Marked(history, up, "failed")
    <3>1. /\ Revisions' = Revisions /\ \A q \in Revisions : history'[q].pkg = history[q].pkg
          /\ \A q \in Deployed' : q \in Deployed
      BY <1>0, <2>5, MarkDeploys
    <3>2. Loose'
      BY <2>1, <2>3, <3>1, LooseStays
    <3> QED
      BY <1>q, <2>1, <2>2, <3>2 DEF Installing, Failed
  <2> QED
    BY <1>15, <2>4, <2>5 DEF ApplyFails
<1>16. CASE ApplyTimesOut
  <2>1. /\ pc = "apply" /\ UNCHANGED <<op, before, migration>> /\ history' = Marked(history, up, "failed")
        /\ pc' = "failed" \/ (pc' = "returned" /\ result' = "failed")
    BY <1>16 DEF ApplyTimesOut, HelmFails, Goto, Returns
  <2>2. /\ background'.orig = orig /\ background'.up = up
        /\ background'.status = IF orig = 0 THEN "failed" ELSE history[orig].status
    BY <1>16 DEF ApplyTimesOut
  <2>3. Underway /\ orig \in Revisions \cup {0}
    BY <1>0, <1>k, <2>1 DEF Installing, OperationInv
  <2>4. Loose
    BY <1>0, <2>3, UnderwayIsLoose
  <2>5. /\ Revisions' = Revisions /\ \A q \in Revisions : history'[q].pkg = history[q].pkg
        /\ \A q \in Deployed' : q \in Deployed
    BY <1>0, <2>1, MarkDeploys
  <2>6. Loose' /\ Keepers' = Keepers
    BY <2>1, <2>4, <2>5, LooseStays DEF Keepers
  <2>7. up \in Revisions /\ history[up].pkg = op.pkg /\ (orig = 0 => before = NoRelease)
    BY <2>3 DEF Underway, UpIsNewest
  <2>8. orig \in Revisions /\ background'.status = "deployed" => history[orig].pkg \in Keepers
    <3> SUFFICES ASSUME orig \in Revisions, background'.status = "deployed"
                 PROVE  history[orig].pkg \in Keepers
      OBVIOUS
    <3>1. orig # 0
      BY <1>0, NewestIs
    <3>2. orig \in Deployed
      BY <2>2, <3>1 DEF Deployed
    <3> QED
      BY <2>4, <3>2 DEF Loose
  <2>9. BackgroundKnown'
    BY <2>1, <2>2, <2>3, <2>5, <2>6, <2>7, <2>8 DEF BackgroundKnown
  <2> QED
    BY <2>1, <2>6, <2>9 DEF Installing, Failed
<1>17. ASSUME BackgroundSucceeds \/ BackgroundFails PROVE Installing'
  <2>1. background.on /\ ~background'.on /\ UNCHANGED <<pc, op, orig, up, before, migration, result>>
    BY <1>17 DEF BackgroundSucceeds, BackgroundFails, NoBackground
  <2>2. pc \in Unwinding /\ pc # "idle"
    BY <2>1 DEF HelmInv, BackgroundInv, Unwinding
  <2>3. Installing /\ BackgroundKnown
    BY <1>k, <2>1, <2>2 DEF Installing
  <2>4. Loose
    BY <2>1, <2>2, <2>3 DEF Installing, Failed, Unwinding
  <2>5. Loose' /\ Revisions' = Revisions /\ \A r \in Revisions : history'[r].pkg = history[r].pkg
    <3>1. CASE history' = history
      BY <1>u, <2>1, <2>4, <3>1
    <3>2. CASE background.orig = 0 /\ history' = Marked(history, background.up, "deployed")
      <4>1. /\ Revisions' = Revisions /\ \A r \in Revisions : history'[r].pkg = history[r].pkg
            /\ \A q \in Deployed' : q \in Deployed \/ q = background.up
        BY <1>0, <3>2, MarkDeploys
      <4>2. \A q \in Deployed' : q \in Revisions
        BY <4>1 DEF Deployed
      <4>3. background.up \in Revisions => history[background.up].pkg \in Keepers
        BY <2>1, <2>3, <3>2 DEF BackgroundKnown, Keepers
      <4> QED
        BY <2>1, <2>4, <4>1, <4>2, <4>3, LooseStays
    <3>3. CASE history' = Marked(history, background.orig, "superseded")
      <4>1. /\ Revisions' = Revisions /\ \A r \in Revisions : history'[r].pkg = history[r].pkg
            /\ \A q \in Deployed' : q \in Deployed
        BY <1>0, <3>3, MarkDeploys
      <4> QED
        BY <2>1, <2>4, <4>1, LooseStays
    <3>4. CASE history' = Marked(Marked(history, background.orig, background.status), background.up, "failed")
      <4>1. PICK h : h = Marked(history, background.orig, background.status)
        OBVIOUS
      <4>2. /\ DOMAIN h = DOMAIN history
            /\ \A q \in DOMAIN history \ {background.orig} : h[q] = history[q]
            /\ \A q \in DOMAIN history : h[q].pkg = history[q].pkg
            /\ background.orig \in DOMAIN history => h[background.orig].status = background.status
        BY <1>0, <4>1, MarkedIs
      <4>3. HistoryOK(h)
        BY <1>0, <4>1, MarkedFacts DEF HistoryInv
      <4>4. /\ DOMAIN history' = DOMAIN h
            /\ \A q \in DOMAIN h \ {background.up} : history'[q] = h[q]
            /\ \A q \in DOMAIN h : history'[q].pkg = h[q].pkg
            /\ background.up \in DOMAIN h => history'[background.up].status = "failed"
        BY <3>4, <4>1, <4>3, MarkedIs
      <4>5. Revisions' = Revisions /\ \A r \in Revisions : history'[r].pkg = history[r].pkg
        BY <4>2, <4>4 DEF Revisions
      <4>6. \A q \in Deployed' : q \in Deployed
                                 \/ (q = background.orig /\ q \in Revisions /\ background.status = "deployed")
        BY <4>2, <4>4 DEF Deployed, Revisions
      <4>7. \A q \in Deployed' : q \in Deployed \/ history[q].pkg \in Keepers
        BY <2>1, <2>3, <4>6 DEF BackgroundKnown
      <4> QED
        BY <2>1, <2>4, <4>5, <4>7, LooseStays
    <3> QED
      BY <1>17, <3>1, <3>2, <3>3, <3>4 DEF BackgroundSucceeds, BackgroundFails
  <2>6. Keepers' = Keepers
    BY <2>1 DEF Keepers
  <2> QED
    BY <1>q, <2>1, <2>2, <2>3, <2>5, <2>6 DEF Installing, Failed, Unwinding
<1>18. CASE HealthChecked
  <2>1. /\ pc = "health" /\ pc' = "returned" /\ UNCHANGED <<op, history, background, before, migration>>
        /\ result' = "failed" \/ (result' = "ok" /\ UNCHANGED clean)
    BY <1>18 DEF HealthChecked, NoFault, Returns
  <2>2. ~background.on /\ (Completed \/ LostInstall)
    BY <1>k, <1>o, <2>1 DEF Installing, Unwinding
  <2>3. UNCHANGED clean => LostInstall' = LostInstall
    BY <1>u, <2>1 DEF LostInstall
  <2>4. LostInstall => Failed'
    BY <1>u, <2>1 DEF LostInstall, Failed
  <2> QED
    BY <1>q, <1>u, <2>1, <2>2, <2>3, <2>4 DEF Installing
<1>19. CASE ChooseRollback
  <2>1. pc = "failed" /\ UNCHANGED <<op, history, background, before, migration>>
    BY <1>19 DEF ChooseRollback
  <2>2. Failed /\ BackgroundKnown
    BY <1>k, <2>1 DEF Installing
  <2>3. CASE pc' = "rollback"
    <3>1. orig' = ListedLast(Deployed) /\ Deployed # {}
      BY <1>19, <2>3 DEF ChooseRollback, RollbackCandidates, Returns
    <3>2. orig' \in Deployed
      BY <1>0, <3>1, RevisionNumbers
    <3>3. Loose
      <4> SUFFICES ASSUME Untouched PROVE Loose
        BY <2>2 DEF Failed
      <4>1. Revisions # {}
        BY <3>1 DEF Deployed
      <4>2. before # NoRelease /\ \A r \in Deployed : history[r].pkg = before.live /\ before.live \in Pkg
        BY <1>0, <4>1, UntouchedFacts
      <4>3. before.live # NoPkg
        BY <3>2, <4>2, VersionsAssumption
      <4>4. before # Stuck
        BY <4>3 DEF Stuck
      <4> QED
        BY <4>1, <4>2, <4>4 DEF Loose, Keepers
    <3>4. history[orig'].pkg \in Keepers
      BY <3>2, <3>3 DEF Loose
    <3>5. BackgroundKnown'
      BY <1>b, <1>u, <2>1, <2>2
    <3> QED
      BY <1>u, <2>1, <2>3, <3>3, <3>4, <3>5 DEF Installing
  <2>4. CASE pc' # "rollback"
    <3>1. pc' = "returned" /\ result' = "failed"
      BY <1>19, <2>4 DEF ChooseRollback, Goto, Returns
    <3>2. BackgroundKnown' /\ Failed'
      BY <1>b, <1>u, <2>1, <2>2, <3>1 DEF Failed
    <3> QED
      BY <3>1, <3>2 DEF Installing
  <2> QED
    BY <2>3, <2>4
<1>20. CASE RollbackCreate
  <2>1. /\ pc = "rollback" /\ orig \in Revisions /\ up' = Newest + 1 /\ pc' = "rollingback"
        /\ UNCHANGED <<op, background, before, migration>>
    BY <1>20 DEF RollbackCreate, Goto
  <2>2. Loose /\ BackgroundKnown /\ history[orig].pkg \in Keepers
    BY <1>k, <2>1 DEF Installing
  <2>3. PICK rev : rev = [history[orig] EXCEPT !.status = "pending", !.proven = FALSE]
    OBVIOUS
  <2>4. rev.status = "pending" /\ rev.pkg = history[orig].pkg
    <3>1. history[orig] \in Revision
      BY <1>0, <2>1, NewestIs
    <3> QED
      BY <2>3, <3>1 DEF Revision
  <2>5. history' = Stored(Newest + 1, rev, maxHelmHistory)
    BY <1>20, <2>3 DEF RollbackCreate
  <2>6. /\ Newest' = Newest + 1 /\ Newest' \in Revisions' /\ history'[Newest'] = rev
        /\ Revisions' \subseteq Revisions \cup {Newest'}
        /\ \A q \in Revisions' \ {Newest'} : history'[q] = history[q]
    BY <1>0, <2>5, NextIsNewest
  <2>7. up' = Newest' /\ Newest' \notin Revisions /\ Newest' # 0 /\ 0 \notin Revisions'
    BY <1>0, <2>1, <2>6, NewestIs, NewestWillBe
  <2>8. Keepers' = Keepers
    BY <2>1 DEF Keepers
  <2>9. \A r \in Deployed' : r \in Deployed /\ history'[r] = history[r]
    <3> SUFFICES ASSUME NEW r \in Deployed' PROVE r \in Deployed /\ history'[r] = history[r]
      OBVIOUS
    <3>1. r \in Revisions' /\ history'[r].status = "deployed"
      BY DEF Deployed
    <3>2. r # Newest'
      BY <2>4, <2>6, <3>1
    <3> QED
      BY <2>6, <3>1, <3>2 DEF Deployed
  <2>10. Loose'
    BY <2>1, <2>2, <2>6, <2>8, <2>9 DEF Loose
  <2>11. up' \in Revisions' /\ history'[up'].pkg \in Keepers'
    BY <2>2, <2>4, <2>6, <2>7, <2>8
  <2>12. BackgroundKnown'
    <3> SUFFICES ASSUME background.on PROVE BackgroundKnown'
      BY <2>1 DEF BackgroundKnown
    <3>1. background.up \in Revisions /\ background.orig \in Revisions \cup {0}
      BY <2>1, <2>2 DEF BackgroundKnown
    <3>2. background.up \in Revisions' => history'[background.up] = history[background.up]
      BY <2>6, <2>7, <3>1
    <3>3. background.orig \in Revisions' =>
            background.orig \in Revisions /\ history'[background.orig] = history[background.orig]
      BY <2>6, <2>7, <3>1
    <3> QED
      BY <2>1, <2>2, <2>8, <3>1, <3>2, <3>3 DEF BackgroundKnown
  <2> QED
    BY <2>1, <2>10, <2>11, <2>12 DEF Installing
<1>21. CASE RollbackStops
  <2>1. /\ pc \in {"rollback", "rollingback", "rolledback"} /\ pc' = "returned" /\ result' = "failed"
        /\ UNCHANGED <<op, history, background, before, migration>>
    BY <1>21 DEF RollbackStops, Returns
  <2>2. Loose /\ BackgroundKnown
    BY <1>k, <2>1 DEF Installing
  <2>3. Loose' /\ BackgroundKnown'
    BY <1>b, <1>u, <2>1, <2>2
  <2> QED
    BY <2>1, <2>3 DEF Installing, Failed
<1>22. CASE RollbackFails
  <2>1. /\ pc = "rollingback" /\ pc' = "returned" /\ result' = "failed"
        /\ UNCHANGED <<op, background, before, migration>>
        /\ history' \in {Marked(Marked(history, up - 1, "superseded"), up, "failed"),
                         Marked(history, up, "failed")}
    BY <1>22 DEF RollbackFails, Returns
  <2>2. Loose /\ BackgroundKnown
    BY <1>k, <2>1 DEF Installing
  <2>3. /\ Revisions' = Revisions /\ \A r \in Revisions : history'[r].pkg = history[r].pkg
        /\ \A q \in Deployed' : q \in Deployed
    <3>1. CASE history' = Marked(history, up, "failed")
      BY <1>0, <3>1, MarkDeploys
    <3>2. CASE history' = Marked(Marked(history, up - 1, "superseded"), up, "failed")
      <4>1. PICK h : h = Marked(history, up - 1, "superseded")
        OBVIOUS
      <4>2. /\ DOMAIN h = DOMAIN history
            /\ \A q \in DOMAIN history \ {up - 1} : h[q] = history[q]
            /\ \A q \in DOMAIN history : h[q].pkg = history[q].pkg
            /\ up - 1 \in DOMAIN history => h[up - 1].status = "superseded"
        BY <1>0, <4>1, MarkedIs
      <4>3. HistoryOK(h)
        BY <1>0, <4>1, MarkedFacts DEF Status
      <4>4. /\ DOMAIN history' = DOMAIN h
            /\ \A q \in DOMAIN h \ {up} : history'[q] = h[q]
            /\ \A q \in DOMAIN h : history'[q].pkg = h[q].pkg
            /\ up \in DOMAIN h => history'[up].status = "failed"
        BY <3>2, <4>1, <4>3, MarkedIs
      <4> QED
        BY <4>2, <4>4 DEF Revisions, Deployed
    <3> QED
      BY <2>1, <3>1, <3>2
  <2>4. Loose' /\ BackgroundKnown'
    BY <1>b, <2>1, <2>2, <2>3, LooseStays
  <2> QED
    BY <2>1, <2>4 DEF Installing, Failed
<1>23. CASE RollbackApplied
  <2>1. /\ pc = "rollingback" /\ pc' = "rolledback" /\ UNCHANGED <<op, up, background, before, migration>>
        /\ history' = [r \in Revisions |->
              IF r \in Deployed THEN [history[r] EXCEPT !.status = "superseded"] ELSE history[r]]
    BY <1>23 DEF RollbackApplied, Goto
  <2>2. Loose /\ BackgroundKnown /\ up \in Revisions /\ history[up].pkg \in Keepers
    BY <1>k, <2>1 DEF Installing
  <2>3. Revisions' = Revisions
    BY <2>1 DEF Revisions
  <2>4. ASSUME NEW r \in Revisions
        PROVE  history'[r].pkg = history[r].pkg /\ history'[r].status # "deployed"
    <3>1. history[r] \in Revision
      BY <1>0, NewestIs
    <3>2. history'[r] = IF r \in Deployed THEN [history[r] EXCEPT !.status = "superseded"] ELSE history[r]
      BY <2>1
    <3> QED
      BY <3>1, <3>2 DEF Deployed, Revision
  <2>5. Deployed' = {}
    BY <2>3, <2>4 DEF Deployed
  <2>6. Loose' /\ BackgroundKnown' /\ Keepers' = Keepers
    BY <1>b, <2>1, <2>2, <2>3, <2>4, <2>5, LooseStays DEF Keepers
  <2> QED
    BY <2>1, <2>2, <2>3, <2>4, <2>6 DEF Installing
<1>24. CASE RollbackRecorded
  <2>1. /\ pc = "rolledback" /\ pc' = "returned" /\ result' = "failed"
        /\ UNCHANGED <<op, background, before, migration>> /\ history' = Marked(history, up, "deployed")
    BY <1>24 DEF RollbackRecorded, Returns
  <2>2. Loose /\ BackgroundKnown /\ up \in Revisions /\ history[up].pkg \in Keepers
    BY <1>k, <2>1 DEF Installing
  <2>3. /\ Revisions' = Revisions /\ \A r \in Revisions : history'[r].pkg = history[r].pkg
        /\ \A q \in Deployed' : q \in Deployed \/ q = up
    BY <1>0, <2>1, MarkDeploys
  <2>4. Loose' /\ BackgroundKnown'
    BY <1>b, <2>1, <2>2, <2>3, LooseStays
  <2> QED
    BY <2>1, <2>4 DEF Installing, Failed
<1>25. ~(Uninstalling \/ Purge \/ Uninstalled \/ UninstallFails)
  BY <1>0 DEF Uninstalling, Purge, Uninstalled, UninstallFails, PhaseInv
<1>26. ~(Exit \/ Killed \/ UpgradeCluster)
  BY DEF Exit, Killed, UpgradeCluster, Goto, Plain
<1>27. RemoveChart => op'.kind = "remove"
  BY DEF RemoveChart, Operation
<1> QED
  BY <1>1, <1>2, <1>3, <1>4, <1>5, <1>6, <1>7, <1>8, <1>9, <1>10, <1>11, <1>12, <1>13, <1>14,
     <1>15, <1>16, <1>17, <1>18, <1>19, <1>20, <1>21, <1>22, <1>23, <1>24, <1>25, <1>26, <1>27 DEF
     Next

LEMMA OutcomeInvariant == Spec => []OutcomeInv
<1>1. Init => OutcomeInv
  BY DEF Init, OutcomeInv, PhaseInv, Plain, Deploys, NoOp, NoBackground
<1>2. ASSUME HelmInv, HelmInv', OutcomeInv, [Next]_vars PROVE OutcomeInv'
  <2>1. CASE Next
    BY <1>2, <2>1, PhaseStep, RemoveStep, InstallStep DEF OutcomeInv
  <2>2. CASE UNCHANGED vars
    <3>1. UNCHANGED helmVars
      BY <2>2 DEF vars
    <3>2. Revisions' = Revisions /\ Deployed' = Deployed /\ Newest' = Newest /\ UNCHANGED helmVars
      BY <3>1 DEF helmVars, Revisions, Deployed, Newest
    <3>3. /\ Untouched' = Untouched /\ Purged' = Purged /\ Loose' = Loose /\ Keepers' = Keepers
          /\ Completed' = Completed /\ CurrentRelease' = CurrentRelease
      BY <3>2 DEF helmVars, Untouched, AtMostOne, Purged, Loose, Keepers, Completed, CurrentRelease
    <3>4. Failed' = Failed /\ LostInstall' = LostInstall /\ Underway' = Underway
      BY <3>2, <3>3 DEF helmVars, Failed, LostInstall, Underway, UpIsNewest
    <3>5. BackgroundKnown' = BackgroundKnown
      BY <3>2, <3>3 DEF helmVars, BackgroundKnown
    <3>6. Installing' = Installing /\ Removing' = Removing
      BY <3>2, <3>3, <3>4, <3>5 DEF helmVars, Installing, Removing
    <3> QED
      BY <1>2, <3>2, <3>6 DEF helmVars, OutcomeInv, PhaseInv, Plain
  <2> QED
    BY <1>2, <2>1, <2>2
<1> QED
  BY <1>1, <1>2, HelmInvariant, PTL DEF Spec

\* What the package's commands make of the states in which an operation ends.
LEMMA LooseIsKnown ==
    ASSUME HistoryInv, Loose
    PROVE  Abstract(history) \in InstallFailures(before, op.pkg)
<1> DEFINE a == Abstract(history)
<1>1. /\ Deployed = {} => a.live = NoPkg
      /\ Deployed # {} => \E r \in Deployed : a.live = history[r].pkg
      /\ a.top = Look(history[Newest].status, Deployed # {})
      /\ a = [live |-> a.live, top |-> a.top]
  BY AbstractIs DEF Loose
<1>2. history[Newest].status \in Status /\ Newest \in Revisions
  BY NewestIs, RevisionFields DEF Loose
<1>3. a.top \in {"deployed", "failed", "pending"} /\ (a.top = "deployed" => Deployed # {})
  BY <1>1, <1>2 DEF Look, Status, Deployed
<1>4. Deployed # {} => a.live \in Keepers /\ a.live # NoPkg
  BY <1>1, NewestIs, RevisionFields, VersionsAssumption DEF Loose, Deployed
<1>5. before # Stuck
  BY DEF Loose
<1> HIDE DEF a
<1>6. CASE a.top # "deployed"
  <2>1. a.live \in {before.live, NoPkg} \cup (IF before = NoRelease THEN {op.pkg} ELSE {})
    BY <1>1, <1>4 DEF Keepers
  <2>2. a.top \in {"failed", "pending"}
    BY <1>3, <1>6
  <2>3. a \in Interrupted(before, op.pkg)
    BY <1>1, <1>5, <2>1, <2>2 DEF Interrupted, Stuck
  <2> QED
    BY <2>3 DEF InstallFailures, a
<1>7. CASE a.top = "deployed"
  <2>1. a.live \in Keepers /\ a.live # NoPkg
    BY <1>3, <1>4, <1>7
  <2>2. CASE before = NoRelease
    <3>1. a = [live |-> op.pkg, top |-> "deployed"] /\ before.top # "pending"
      BY <1>1, <1>7, <2>1, <2>2 DEF Keepers, NoRelease
    <3> QED
      BY <3>1 DEF InstallFailures, Upgraded, a
  <2>3. CASE before # NoRelease
    <3>1. a = [live |-> before.live, top |-> "deployed"] /\ before.live # NoPkg
      BY <1>1, <1>7, <2>1, <2>3 DEF Keepers
    <3> QED
      BY <3>1 DEF InstallFailures, a
  <2> QED
    BY <2>2, <2>3
<1> QED
  BY <1>6, <1>7

LEMMA PurgedIsKnown ==
    ASSUME HistoryInv, before \in Release, Purged
    PROVE  Abstract(history) \in {NoRelease} \cup UninstallFailures(before)
<1> DEFINE a == Abstract(history)
<1>1. CASE Revisions = {}
  BY <1>1 DEF Abstract, Revisions
<1>2. CASE Revisions # {}
  <2>1. /\ Deployed = {} => a.live = NoPkg
        /\ Deployed # {} => \E r \in Deployed : a.live = history[r].pkg
        /\ a.top = Look(history[Newest].status, Deployed # {})
        /\ a = [live |-> a.live, top |-> a.top]
    BY <1>2, AbstractIs
  <2>2. history[Newest].status \in Status /\ Newest \in Revisions
    BY <1>2, NewestIs, RevisionFields
  <2>3. Deployed # {} => a.live = before.live /\ a.live # NoPkg
    BY <1>2, <2>1, NewestIs, RevisionFields, VersionsAssumption DEF Purged, Deployed
  <2>4. before = [live |-> before.live, top |-> before.top]
    BY DEF Release
  <2>5. Present(before)
    BY DEF Purged, Present
  <2>6. history[Newest].status = "deployed" => Deployed # {}
    BY <2>2 DEF Deployed
  <2> HIDE DEF a
  <2>7. CASE Deployed # {}
    <3>1. /\ a.live = before.live /\ before.live # NoPkg
          /\ a.top = before.top \/ (a.top = "failed" /\ before.top = "pending")
      BY <1>2, <2>1, <2>2, <2>3, <2>7 DEF Purged, Look, Status
    <3>2. a = before \/ (before.top = "pending" /\ a = [live |-> before.live, top |-> "failed"])
      BY <2>1, <2>4, <3>1
    <3> QED
      BY <3>1, <3>2 DEF UninstallFailures, a
  <2>8. CASE Deployed = {}
    <3>1. /\ a.live = NoPkg
          /\ a.top = "pending" \/ (a.top = "failed" /\ before.top = "failed")
      BY <1>2, <2>1, <2>2, <2>6, <2>8 DEF Purged, Look, Status
    <3>2. \/ a = [live |-> NoPkg, top |-> "pending"]
          \/ before.top = "failed" /\ a = [live |-> NoPkg, top |-> "failed"]
      BY <2>1, <3>1
    <3> QED
      BY <2>5, <3>2 DEF UninstallFailures, a
  <2> QED
    BY <2>7, <2>8
<1> QED
  BY <1>1, <1>2

\* However an operation ends, with an error, by a timeout or by a kill, it leaves
\* the release as the package's commands expect: every outcome of RemoveChart is
\* one of UninstallFailures or nothing, every outcome of InstallOrUpgradeChart and
\* UpdateReleaseValues one of InstallFailures, and a success without a fault is a
\* deployed version.  PackageState, which the proofs about packages are of, takes
\* exactly these outcomes as single steps.
THEOREM OutcomesAreComplete == Spec => OutcomesAreKnown
<1> DEFINE after == Abstract(history')
<1>1. ASSUME HelmInv, OutcomeInv, [Next]_vars, pc # "idle", pc' = "idle", migration = "none", ~op.many
      PROVE  IF op.kind = "remove"
               THEN after \in {NoRelease} \cup (IF result' = "ok" THEN {} ELSE UninstallFailures(before))
               ELSE after \in Upgraded(before, op.pkg) \cup
                              (IF result' = "ok" /\ clean THEN {}
                               ELSE IF result' = "ok" THEN Interrupted(before, op.pkg)
                               ELSE InstallFailures(before, op.pkg))
  <2>0. HistoryInv /\ before \in Release /\ PhaseInv
    BY <1>1 DEF HelmInv, RecordInv, OutcomeInv
  <2>1. Exit \/ Killed
    <3>1. Next
      BY <1>1 DEF vars, helmVars
    <3> QED
      BY <1>1, <3>1 DEF Next, InstallOrUpgradeChart, UpdateReleaseValues, Start, RemoveChart,
         UpgradeCluster,
         StartFails, MigrateNothing, MigrateSupersede, MigrateCreate, MigrateFails, Prepare, UpgradeRefused,
         PrepareNamespace, ApplySecrets, RenderFails, CreateRevision, Applied, RecordDeployed, RecordLost,
         ApplyFails, ApplyTimesOut, BackgroundSucceeds, BackgroundFails, HealthChecked, ChooseRollback,
         RollbackCreate, RollbackStops, RollbackFails, RollbackApplied, RollbackRecorded, Uninstalling, Purge,
         Uninstalled, UninstallFails, Goto, Returns, HelmFails
  <2>2. /\ history' = history
        /\ \/ pc = "returned" /\ result' = result
           \/ pc \notin {"idle", "returned"} /\ result' = "killed"
    BY <2>1 DEF Exit, Killed
  <2>3. after = Abstract(history)
    BY <2>2
  <2>4. CASE op.kind = "remove"
    <3>1. Removing
      BY <1>1, <2>4 DEF OutcomeInv, Plain
    <3>2. pc \in {"uninstall", "purge", "returned"}
      BY <1>1, <2>0, <2>4 DEF PhaseInv
    <3>3. CASE result' = "ok"
      <4>1. Revisions = {}
        BY <2>2, <3>1, <3>3 DEF Removing
      <4> QED
        BY <2>3, <2>4, <4>1 DEF Abstract, Revisions
    <3>4. CASE result' # "ok"
      <4>1. Purged \/ Untouched
        BY <2>2, <3>1, <3>2, <3>4 DEF Removing
      <4>2. Untouched => after \in UninstallFailures(before)
        BY <2>3 DEF Untouched, UninstallFailures
      <4>3. Purged => after \in {NoRelease} \cup UninstallFailures(before)
        BY <2>0, <2>3, PurgedIsKnown
      <4> HIDE DEF after
      <4> QED
        BY <2>4, <3>4, <4>1, <4>2, <4>3
    <3> QED
      BY <3>3, <3>4
  <2>5. CASE op.kind # "remove"
    <3>1. Installing
      BY <1>1, <2>5 DEF OutcomeInv, Plain
    <3>2. Completed => after \in Upgraded(before, op.pkg)
      BY <2>3 DEF Completed, Upgraded
    <3>3. LostInstall => ~clean /\ after \in Interrupted(before, op.pkg)
      <4> SUFFICES ASSUME LostInstall PROVE ~clean /\ after \in Interrupted(before, op.pkg)
        OBVIOUS
      <4>1. ~clean /\ before = NoRelease /\ after = [live |-> NoPkg, top |-> "pending"]
        BY <2>3 DEF LostInstall, Stuck
      <4>2. before # [live |-> NoPkg, top |-> "pending"]
        BY <4>1 DEF NoRelease
      <4> HIDE DEF after
      <4> QED
        BY <4>1, <4>2 DEF Interrupted
    <3>4. Failed => after \in InstallFailures(before, op.pkg)
      <4>1. Loose => after \in InstallFailures(before, op.pkg)
        BY <2>0, <2>3, LooseIsKnown
      <4>2. Untouched => after \in InstallFailures(before, op.pkg)
        BY <2>3 DEF Untouched, InstallFailures
      <4> QED
        BY <4>1, <4>2 DEF Failed
    <3>5. CASE result' = "ok"
      <4>1. Completed \/ LostInstall
        BY <2>2, <3>1, <3>5 DEF Installing
      <4> HIDE DEF after
      <4> QED
        BY <2>5, <3>2, <3>3, <3>5, <4>1
    <3>6. CASE result' # "ok"
      <4>1. pc \in Deploys \cup {"returned"}
        BY <1>1, <2>0, <2>5 DEF PhaseInv
      <4>2. Underway => Failed
        BY <2>0, UnderwayIsLoose DEF Failed
      <4>3. pc \in {"migrate", "prepare", "namespaces"} => Failed
        BY <1>1, <3>1 DEF Installing, Failed, HelmInv, BackgroundInv, Unwinding
      <4>4. Completed \/ Failed
        BY <2>2, <3>1, <3>6, <4>1, <4>2, <4>3 DEF Installing, Deploys, LostInstall, Failed
      <4> HIDE DEF after
      <4> QED
        BY <2>5, <3>2, <3>4, <3>6, <4>4
    <3> QED
      BY <3>5, <3>6
  <2> QED
    BY <2>4, <2>5
<1>2. HelmInv /\ OutcomeInv /\ [Next]_vars =>
        [LET left == Abstract(history') IN
         pc # "idle" /\ pc' = "idle" /\ migration = "none" /\ ~op.many =>
           IF op.kind = "remove"
             THEN left \in {NoRelease} \cup (IF result' = "ok" THEN {} ELSE UninstallFailures(before))
             ELSE left \in Upgraded(before, op.pkg) \cup
                           (IF result' = "ok" /\ clean THEN {}
                            ELSE IF result' = "ok" THEN Interrupted(before, op.pkg)
                            ELSE InstallFailures(before, op.pkg))]_vars
  BY <1>1
<1> QED
  BY <1>2, HelmInvariant, OutcomeInvariant, PTL DEF Spec, OutcomesAreKnown
=============================================================================
