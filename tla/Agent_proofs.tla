---------------------------- MODULE Agent_proofs ----------------------------
(***************************************************************************)
(* Proofs about Agent, for any resources, states, paths and bounds: the    *)
(* proxy serves what a client follows, the webhook never changes again     *)
(* what it has admitted, and what it admits asks for what was pushed.      *)
(***************************************************************************)
EXTENDS Agent, TLAPS

-----------------------------------------------------------------------------
(* The inductive invariant.                                                *)

\* The registry's hosts have different names, and no author of an OCIRepository
\* wrote one of these names; nor did an earlier version.  (Two hosts that
\* differ in the port only are the same to DoHostnamesMatch, which an update
\* relies on, and not to ImageTransformHost, which a create does.)
HostsApart == \A z \in States :
    /\ \A y \in States : DoHostnamesMatch(RegistryAddress(z), RegistryAddress(y))
                            => RegistryAddress(z) = RegistryAddress(y)
    /\ \A n \in Names : \A r \in {Manifest[n], Legacy[n]} :
           r.kind = "oci" => ~IsPatched(z, r.refs[1])

HasTag(r) == r.semver \/ r.refs[1].digest # "" \/ r.refs[1].id # <<>>

\* An OCIRepository at the registry has the registry's port and a tag.
Tame(r) == r.kind = "oci" => \A z \in States : IsPatched(z, r.refs[1]) =>
    r.refs[1].host = RegistryAddress(z) /\ HasTag(r)

HasAccess(z, mtls, r) ==
    /\ r.secret = "registry"
    /\ r.insecure = (r.insecure \/ (IsInternal(z) /\ ~mtls))
    /\ r.cert = (r.cert \/ mtls)

\* The webhook has nothing left to do, by kind.
Settled(z, r) ==
    IF r.kind = "pod" THEN r.patched = TRUE
    ELSE IF r.kind = "git" THEN
        z.git = NoHost \/ (r.patched = TRUE /\ r.secret = "git" /\ DoHostnamesMatch(z.git, r.refs[1].host))
    ELSE IF r.kind = "helm" THEN
        r.type # "oci" \/ (r.patched = TRUE /\ IsPatched(z, r.refs[1]) /\ HasAccess(z, z.mtls, r))
    ELSE IF r.kind = "oci" THEN
        z.mtls \/ (/\ r.patched = TRUE /\ r.refs[1].host = RegistryAddress(z)
                   /\ HasTag(r) /\ HasAccess(z, FALSE, r))
    ELSE IF r.kind = "app" THEN
        ~ServiceUsable(z, GeneratorURLs(r)) \/
        (r.patched = TRUE /\ \A i \in DOMAIN r.refs :
            r.refs[i].scheme # "none" => getPatchedRepoURL(z, r.refs[i]) = r.refs[i])
    ELSE IF r.kind = "project" THEN
        ~ServiceUsable(z, r.refs) \/
        (r.patched = TRUE /\ \A i \in DOMAIN r.refs :
            CanBePatched(z, r.refs[i]) => getPatchedRepoURL(z, r.refs[i]) = r.refs[i])
    ELSE
        LET oci == r.refs[1].scheme = "oci" IN
        r.refs = <<>> \/ ~ServiceUsable(z, r.refs) \/
        (/\ r.patched = TRUE /\ r.refs = <<r.refs[1]>>
         /\ getPatchedRepoURL(z, r.refs[1]) = r.refs[1] /\ r.creds = getCreds(z, r.refs[1])
         /\ r.insecure = (r.insecure \/ (oci /\ IsInternal(z) /\ ~z.mtls))
         /\ r.cert = (r.cert \/ (oci /\ z.mtls)))

ShapeInv ==
    /\ zarf \in States /\ names \subseteq Names
    /\ resources = [n \in Names |-> resources[n]]
    /\ \A n \in Names : /\ IsResource(resources[n]) /\ Tame(resources[n])
                        /\ resources[n] = NoResource \/ resources[n].kind = Manifest[n].kind

\* What the agent admitted last is settled for the state of that moment, which
\* is still the state.
SettledInv ==
    last.by = "agent" /\ last.op # "debug" =>
        last.name \in Names /\ Settled(zarf, resources[last.name])

\* A client that follows a link asks for the marked path.
ProxyInv ==
    /\ client = [f \in {"agent", "asks", "follows", "hops"} |-> client[f]]
    /\ server = [f \in DOMAIN NoAnswer |-> server[f]]
    /\ client.follows # "" => client.asks.marked = TRUE /\ client.asks.at = client.follows
    /\ FollowedIsServed

-----------------------------------------------------------------------------
(* References: what each transformation keeps.                             *)

\* Two references with the same fields are the same.
LEMMA RefSame ==
    ASSUME NEW u, IsRef(u), NEW v, IsRef(v), u.scheme = v.scheme, u.host = v.host,
           u.id = v.id, u.digest = v.digest, u.user = v.user
    PROVE  u = v
<1> DEFINE F == {"scheme", "host", "id", "digest", "user"}
<1>1. \A f \in F : u[f] = v[f]
  OBVIOUS
<1>2. u = [f \in F |-> u[f]] /\ v = [f \in F |-> v[f]]
  BY Zenon DEF IsRef
<1> HIDE DEF F
<1>3. [f \in F |-> u[f]] = [f \in F |-> v[f]]
  BY <1>1
<1> QED
  BY <1>2, <1>3, Zenon

LEMMA RefHost ==
    ASSUME NEW u, IsRef(u), NEW x
    PROVE  LET v == [u EXCEPT !.host = x] IN
           /\ IsRef(v) /\ v.host = x
           /\ v.scheme = u.scheme /\ v.id = u.id /\ v.digest = u.digest /\ v.user = u.user
<1> DEFINE F == {"scheme", "host", "id", "digest", "user"}
<1>1. u = [f \in F |-> u[f]]
  BY Zenon DEF IsRef
<1>2. [u EXCEPT !.host = x] = [f \in F |-> IF f = "host" THEN x ELSE u[f]]
  BY <1>1
<1> QED
  BY <1>2 DEF IsRef

LEMMA RefId ==
    ASSUME NEW u, IsRef(u), NEW x
    PROVE  LET v == [u EXCEPT !.id = x] IN
           /\ IsRef(v) /\ v.id = x
           /\ v.scheme = u.scheme /\ v.host = u.host /\ v.digest = u.digest /\ v.user = u.user
<1> DEFINE F == {"scheme", "host", "id", "digest", "user"}
<1>1. u = [f \in F |-> u[f]]
  BY Zenon DEF IsRef
<1>2. [u EXCEPT !.id = x] = [f \in F |-> IF f = "id" THEN x ELSE u[f]]
  BY <1>1
<1> QED
  BY <1>2 DEF IsRef

LEMMA RefDigest ==
    ASSUME NEW u, IsRef(u), NEW x
    PROVE  LET v == [u EXCEPT !.digest = x] IN
           /\ IsRef(v) /\ v.digest = x
           /\ v.scheme = u.scheme /\ v.host = u.host /\ v.id = u.id /\ v.user = u.user
<1> DEFINE F == {"scheme", "host", "id", "digest", "user"}
<1>1. u = [f \in F |-> u[f]]
  BY Zenon DEF IsRef
<1>2. [u EXCEPT !.digest = x] = [f \in F |-> IF f = "digest" THEN x ELSE u[f]]
  BY <1>1
<1> QED
  BY <1>2 DEF IsRef

LEMMA RefUser ==
    ASSUME NEW u, IsRef(u), NEW x
    PROVE  LET v == [u EXCEPT !.user = x] IN
           /\ IsRef(v) /\ v.user = x
           /\ v.scheme = u.scheme /\ v.host = u.host /\ v.id = u.id /\ v.digest = u.digest
<1> DEFINE F == {"scheme", "host", "id", "digest", "user"}
<1>1. u = [f \in F |-> u[f]]
  BY Zenon DEF IsRef
<1>2. [u EXCEPT !.user = x] = [f \in F |-> IF f = "user" THEN x ELSE u[f]]
  BY <1>1
<1> QED
  BY <1>2 DEF IsRef

\* ParseImageRef keeps everything but a missing tag.
LEMMA ParseFacts ==
    ASSUME NEW u, IsRef(u)
    PROVE  LET v == ParseImageRef(u) IN
           /\ IsRef(v) /\ v.scheme = u.scheme /\ v.host = u.host
           /\ v.digest = u.digest /\ v.user = u.user
           /\ v.id # <<>> \/ v.digest # ""
           /\ u.id # <<>> \/ u.digest # "" => v = u
<1>1. CASE u.id = <<>> /\ u.digest = ""
  <2> DEFINE v == [u EXCEPT !.id = <<"latest">>]
  <2>1. /\ IsRef(v) /\ v.id = <<"latest">> /\ v.scheme = u.scheme /\ v.host = u.host
        /\ v.digest = u.digest /\ v.user = u.user
    BY RefId
  <2>2. ParseImageRef(u) = v
    BY <1>1 DEF ParseImageRef
  <2>3. <<"latest">> # <<>>
    OBVIOUS
  <2> HIDE DEF v
  <2> QED
    BY <1>1, <2>1, <2>2, <2>3
<1>2. CASE ~(u.id = <<>> /\ u.digest = "")
  <2>1. ParseImageRef(u) = u
    BY <1>2 DEF ParseImageRef
  <2> QED
    BY <1>2, <2>1
<1> QED
  BY <1>1, <1>2

\* What is elsewhere goes to the target; what is there stays as it is.
LEMMA TransformFacts ==
    ASSUME NEW u, IsRef(u), NEW t
    PROVE  \A v \in {ImageTransformHost(t, u), ImageTransformHostWithoutChecksum(t, u)} :
               /\ IsRef(v) /\ v.scheme = u.scheme /\ v.digest = u.digest
               /\ IF HasPrefix(t, u.host) THEN v = u ELSE v.host = t
<1> DEFINE w == ParseImageRef(u)
<1>0. IsRef(w) /\ w.scheme = u.scheme /\ w.host = u.host /\ w.digest = u.digest
  BY ParseFacts
<1> HIDE DEF w
<1>1. ASSUME NEW x
      PROVE  LET v == [w EXCEPT !.host = t, !.id = x] IN
             IsRef(v) /\ v.scheme = u.scheme /\ v.digest = u.digest /\ v.host = t
  <2> DEFINE v1 == [w EXCEPT !.host = t]
  <2>1. IsRef(v1) /\ v1.host = t /\ v1.scheme = u.scheme /\ v1.digest = u.digest
    BY <1>0, RefHost
  <2> HIDE DEF v1
  <2> DEFINE v2 == [v1 EXCEPT !.id = x]
  <2>2. IsRef(v2) /\ v2.host = t /\ v2.scheme = u.scheme /\ v2.digest = u.digest
    BY <2>1, RefId
  <2> HIDE DEF v2
  <2>3. [w EXCEPT !.host = t, !.id = x] = v2
    BY Zenon DEF v1, v2
  <2> QED
    BY <2>2, <2>3
<1>2. CASE HasPrefix(t, u.host)
  <2>1. ImageTransformHost(t, u) = u /\ ImageTransformHostWithoutChecksum(t, u) = u
    BY <1>0, <1>2 DEF ImageTransformHost, ImageTransformHostWithoutChecksum, w
  <2> QED
    BY <1>2, <2>1
<1>3. CASE ~HasPrefix(t, u.host)
  <2>1. \E x : ImageTransformHost(t, u) = [w EXCEPT !.host = t, !.id = x]
    BY <1>0, <1>3, Zenon DEF ImageTransformHost, w
  <2>2. \E x : ImageTransformHostWithoutChecksum(t, u) = [w EXCEPT !.host = t, !.id = x]
    BY <1>0, <1>3, Zenon DEF ImageTransformHostWithoutChecksum, w
  <2>3. ASSUME NEW v \in {ImageTransformHost(t, u), ImageTransformHostWithoutChecksum(t, u)}
        PROVE  IsRef(v) /\ v.scheme = u.scheme /\ v.digest = u.digest /\ v.host = t
    <3>1. PICK x : v = [w EXCEPT !.host = t, !.id = x]
      BY <2>1, <2>2, Zenon
    <3> QED
      BY <1>1, <3>1, Zenon
  <2> QED
    BY <1>3, <2>3
<1> QED
  BY <1>2, <1>3

\* A chart's URL leads to the registry afterwards, whatever it was.
LEMMA OCINameFacts ==
    ASSUME NEW z, NEW u, IsRef(u)
    PROVE  LET v == PatchedOCIName(z, u) IN
           IsRef(v) /\ v.scheme = u.scheme /\ IsPatched(z, v)
<1> DEFINE t == RegistryAddress(z)
<1>1. CASE IsPatched(z, u)
  BY <1>1 DEF PatchedOCIName
<1>2. CASE ~IsPatched(z, u)
  <2>1. ~HasPrefix(t, u.host)
    BY <1>2 DEF IsPatched, HasPrefix, DoHostnamesMatch
  <2>2. PICK v \in {ImageTransformHost(t, u), ImageTransformHostWithoutChecksum(t, u)} :
          PatchedOCIName(z, u) = NameOnly(v)
    BY <1>2 DEF PatchedOCIName
  <2>3. IsRef(v) /\ v.scheme = u.scheme /\ v.host = t
    BY <2>1, <2>2, TransformFacts
  <2> DEFINE v1 == [v EXCEPT !.id = <<>>]
  <2>4. IsRef(v1) /\ v1.scheme = u.scheme /\ v1.host = t
    BY <2>3, RefId
  <2> HIDE DEF v1
  <2> DEFINE v2 == [v1 EXCEPT !.digest = ""]
  <2>5. IsRef(v2) /\ v2.scheme = u.scheme /\ v2.host = t
    BY <2>4, RefDigest
  <2> HIDE DEF v2
  <2>6. NameOnly(v) = v2
    BY Zenon DEF NameOnly, v1, v2
  <2> QED
    BY <2>2, <2>5, <2>6 DEF IsPatched, DoHostnamesMatch
<1> QED
  BY <1>1, <1>2

LEMMA GitURLFacts ==
    ASSUME NEW base, NEW user, NEW u, IsRef(u)
    PROVE  LET v == GitURL(base, u, user) IN
           IsRef(v) /\ v.scheme = u.scheme /\ v.host = base
<1> DEFINE v1 == [u EXCEPT !.host = base]
<1>1. IsRef(v1) /\ v1.scheme = u.scheme /\ v1.host = base
  BY RefHost
<1> HIDE DEF v1
<1> DEFINE v2 == [v1 EXCEPT !.id = Append(@, u.host)]
<1>2. IsRef(v2) /\ v2.scheme = u.scheme /\ v2.host = base
  BY <1>1, RefId
<1> HIDE DEF v2
<1> DEFINE v3 == [v2 EXCEPT !.user = user]
<1>3. IsRef(v3) /\ v3.scheme = u.scheme /\ v3.host = base
  BY <1>2, RefUser
<1> HIDE DEF v3
<1>4. GitURL(base, u, user) = v3
  BY Zenon DEF GitURL, v1, v2, v3
<1> QED
  BY <1>3, <1>4

\* getPatchedRepoURL changes nothing the second time.
LEMMA RepoURLFacts ==
    ASSUME NEW z, NEW u, IsRef(u)
    PROVE  LET v == getPatchedRepoURL(z, u) IN
           IsRef(v) /\ v.scheme = u.scheme /\ getPatchedRepoURL(z, v) = v
<1> DEFINE v == getPatchedRepoURL(z, u)
<1>1. CASE v = u
  BY <1>1
<1>2. CASE v # u /\ u.scheme = "oci"
  <2>1. z.address # NoHost /\ v = PatchedOCIName(z, u)
    BY <1>2 DEF getPatchedRepoURL
  <2>2. IsRef(v) /\ v.scheme = "oci" /\ IsPatched(z, v)
    BY <1>2, <2>1, OCINameFacts
  <2> HIDE DEF v
  <2>3. getPatchedRepoURL(z, v) = v
    BY <2>1, <2>2 DEF getPatchedRepoURL, PatchedOCIName
  <2> QED
    BY <1>2, <2>2, <2>3 DEF v
<1>3. CASE v # u /\ u.scheme # "oci"
  <2>1. v = GitURL(z.git, u, z.gitUser)
    BY <1>3 DEF getPatchedRepoURL
  <2>2. IsRef(v) /\ v.scheme = u.scheme /\ v.host = z.git
    BY <2>1, GitURLFacts
  <2> HIDE DEF v
  <2>3. getPatchedRepoURL(z, v) = v
    BY <1>3, <2>2 DEF getPatchedRepoURL, DoHostnamesMatch
  <2> QED
    BY <2>2, <2>3 DEF v
<1> QED
  BY <1>1, <1>2, <1>3

-----------------------------------------------------------------------------
(* Resources: what a change of a field keeps.                              *)

IsRecord(r) == r = [f \in DOMAIN NoResource |-> r[f]]

LEMMA FieldNames ==
    DOMAIN NoResource = {"kind", "label", "patched", "refs", "orig", "ephemeral", "secret", "creds",
                         "insecure", "cert", "semver", "type", "chart"}
BY DEF NoResource

LEMMA SetField ==
    ASSUME NEW r, IsRecord(r), NEW f \in DOMAIN NoResource, NEW x
    PROVE  LET s == [r EXCEPT ![f] = x] IN
           /\ IsRecord(s) /\ s[f] = x /\ (x = r[f] => s = r)
           /\ \A g \in DOMAIN NoResource \ {f} : s[g] = r[g]
<1> DEFINE F == DOMAIN NoResource
<1>1. r = [g \in F |-> r[g]]
  BY Zenon DEF IsRecord
<1>2. [r EXCEPT ![f] = x] = [g \in F |-> IF g = f THEN x ELSE r[g]]
  <2> HIDE DEF F
  <2> QED
    BY <1>1
<1> DEFINE s == [g \in F |-> IF g = f THEN x ELSE r[g]]
<1>3. s[f] = x /\ \A g \in F \ {f} : s[g] = r[g]
  OBVIOUS
<1>4. IsRecord(s)
  BY DEF IsRecord
<1>5. x = r[f] => s = r
  <2>1. x = r[f] => \A g \in F : s[g] = r[g]
    BY <1>3
  <2> QED
    BY <1>1, <2>1
<1> HIDE DEF s
<1> QED
  BY <1>2, <1>3, <1>4, <1>5 DEF s

\* What a hook may make of a resource.
RefsOK(kind, refs) ==
    /\ refs = [i \in DOMAIN refs |-> refs[i]]
    /\ \A i \in DOMAIN refs : IsRef(refs[i])
    /\ refs = <<>> \/ 1 \in DOMAIN refs
    /\ kind \in {"git", "helm", "oci"} => refs = <<refs[1]>>

LEMMA ResourceFacts ==
    ASSUME NEW r
    PROVE  IsResource(r) <=> IsRecord(r) /\ r.patched \in BOOLEAN /\ RefsOK(r.kind, r.refs)
BY DEF IsResource, IsRecord, RefsOK

LEMMA OneRef ==
    ASSUME NEW kind, NEW u, IsRef(u)
    PROVE  RefsOK(kind, <<u>>)
<1>1. DOMAIN <<u>> = {1} /\ <<u>>[1] = u
  OBVIOUS
<1>2. <<u>> = [i \in {1} |-> u]
  OBVIOUS
<1> QED
  BY <1>1, <1>2 DEF RefsOK

LEMMA MappedRefs ==
    ASSUME NEW kind \in {"pod", "app", "project"}, NEW refs, RefsOK(kind, refs), NEW new,
           new = [i \in DOMAIN refs |-> new[i]], \A i \in DOMAIN refs : IsRef(new[i])
    PROVE  RefsOK(kind, new)
<1>1. DOMAIN new = DOMAIN refs
  OBVIOUS
<1>2. new = <<>> \/ 1 \in DOMAIN new
  <2>1. CASE 1 \in DOMAIN refs
    BY <1>1, <2>1
  <2>2. CASE refs = <<>>
    <3>1. DOMAIN new = {}
      BY <1>1, <2>2
    <3> QED
      BY <3>1
  <2> QED
    BY <2>1, <2>2 DEF RefsOK
<1> QED
  BY <1>1, <1>2 DEF RefsOK

\* Label only adds the label.
LEMMA LabelFacts ==
    ASSUME NEW r, IsRecord(r)
    PROVE  LET s == Label(r) IN
           /\ IsRecord(s) /\ s.patched = TRUE /\ (r.patched = TRUE => s = r)
           /\ s.kind = r.kind /\ s.refs = r.refs /\ s.secret = r.secret /\ s.creds = r.creds
           /\ s.insecure = r.insecure /\ s.cert = r.cert /\ s.type = r.type /\ s.semver = r.semver
<1>1. ASSUME NEW x
      PROVE  LET s == [r EXCEPT !.patched = x] IN
             /\ IsRecord(s) /\ s.patched = x /\ (r.patched = x => s = r)
             /\ s.kind = r.kind /\ s.refs = r.refs /\ s.secret = r.secret /\ s.creds = r.creds
             /\ s.insecure = r.insecure /\ s.cert = r.cert /\ s.type = r.type /\ s.semver = r.semver
  BY SetField, FieldNames
<1> QED
  BY <1>1, Zenon DEF Label

\* Access sets what it says, and nothing when that is set.
LEMMA AccessFacts ==
    ASSUME NEW z, NEW mtls, NEW r, IsRecord(r)
    PROVE  LET s == Access(z, mtls, r) IN
           /\ IsRecord(s) /\ HasAccess(z, mtls, s) /\ (HasAccess(z, mtls, r) => s = r)
           /\ s.kind = r.kind /\ s.refs = r.refs /\ s.patched = r.patched
           /\ s.type = r.type /\ s.semver = r.semver
<1> DEFINE insecure == r.insecure \/ (IsInternal(z) /\ ~mtls)
<1> DEFINE cert == r.cert \/ mtls
<1> DEFINE s1 == [r EXCEPT !.secret = "registry"]
<1>1. /\ IsRecord(s1) /\ s1.secret = "registry" /\ (r.secret = "registry" => s1 = r)
      /\ s1.kind = r.kind /\ s1.refs = r.refs /\ s1.patched = r.patched
      /\ s1.type = r.type /\ s1.semver = r.semver /\ s1.insecure = r.insecure /\ s1.cert = r.cert
  BY SetField, FieldNames
<1> HIDE DEF s1, insecure, cert
<1> DEFINE s2 == [s1 EXCEPT !.insecure = insecure]
<1>2. /\ IsRecord(s2) /\ s2.secret = "registry" /\ s2.insecure = insecure
      /\ (insecure = s1.insecure => s2 = s1)
      /\ s2.kind = r.kind /\ s2.refs = r.refs /\ s2.patched = r.patched
      /\ s2.type = r.type /\ s2.semver = r.semver /\ s2.cert = r.cert
  BY <1>1, SetField, FieldNames
<1> HIDE DEF s2
<1> DEFINE s3 == [s2 EXCEPT !.cert = cert]
<1>3. /\ IsRecord(s3) /\ s3.secret = "registry" /\ s3.insecure = insecure /\ s3.cert = cert
      /\ (cert = s2.cert => s3 = s2)
      /\ s3.kind = r.kind /\ s3.refs = r.refs /\ s3.patched = r.patched
      /\ s3.type = r.type /\ s3.semver = r.semver
  BY <1>2, SetField, FieldNames
<1> HIDE DEF s3
<1>4. Access(z, mtls, r) = s3
  <2>1. s3 = [[[r EXCEPT !.secret = "registry"] EXCEPT !.insecure = insecure] EXCEPT !.cert = cert]
    BY Zenon DEF s1, s2, s3
  <2>2. insecure = (s1.insecure \/ (IsInternal(z) /\ ~mtls)) /\ cert = (s2.cert \/ mtls)
    BY <1>1, <1>2, Zenon DEF insecure, cert
  <2> QED
    BY <2>1, <2>2, Zenon DEF Access, s1, s2
<1>5. HasAccess(z, mtls, s3)
  <2>1. s3.insecure = (s3.insecure \/ (IsInternal(z) /\ ~mtls))
    BY <1>3, Zenon DEF insecure
  <2>2. s3.cert = (s3.cert \/ mtls)
    BY <1>3, Zenon DEF cert
  <2> QED
    BY <1>3, <2>1, <2>2 DEF HasAccess
<1>6. HasAccess(z, mtls, r) => s3 = r
  <2> SUFFICES ASSUME HasAccess(z, mtls, r) PROVE s3 = r
    OBVIOUS
  <2>1. r.secret = "registry" /\ r.insecure = insecure /\ r.cert = cert
    BY Zenon DEF HasAccess, insecure, cert
  <2> QED
    BY <1>1, <1>2, <1>3, <2>1
<1> QED
  BY <1>3, <1>4, <1>5, <1>6

-----------------------------------------------------------------------------
(* Every hook settles a resource, and leaves a settled one alone.          *)

\* m: what a hook has made of r.  mutateOCIRepo with mTLS does it again.
Settles(z, r, m) ==
    m.ok => /\ IsResource(m.res) /\ m.res.kind = r.kind /\ Settled(z, m.res)
            /\ Settled(z, r) /\ ~(z.mtls /\ r.kind = "oci") => m.res = r

LEMMA ResultFacts ==
    ASSUME NEW r
    PROVE  Result(r).ok = TRUE /\ Result(r).res = r /\ Denied.ok = FALSE
BY DEF Result, Denied

\* A hook that leaves the resource as it is, and has reason to.
LEMMA LeftAlone ==
    ASSUME NEW z, NEW r, IsResource(r), Settled(z, r)
    PROVE  Settles(z, r, Result(r))
BY ResultFacts DEF Settles

\* The first reference.
LEMMA FirstRef ==
    ASSUME NEW r, IsResource(r), r.refs # <<>>
    PROVE  IsRef(r.refs[1])
BY DEF IsResource

LEMMA PodSettles ==
    ASSUME NEW z, NEW r, IsResource(r), r.kind = "pod"
    PROVE  Settles(z, r, mutatePod(z, r))
<1>0. IsRecord(r) /\ RefsOK("pod", r.refs) /\ r.patched \in BOOLEAN
  BY ResourceFacts
<1>1. CASE r.patched
  <2>1. r.patched = TRUE
    BY <1>0, <1>1, Zenon
  <2>2. Settled(z, r)
    BY <2>1, Zenon DEF Settled
  <2>3. mutatePod(z, r) = Result(r)
    BY <1>1, Zenon DEF mutatePod
  <2> QED
    BY <2>2, <2>3, LeftAlone
<1>2. CASE ~r.patched
  <2> DEFINE new == [i \in DOMAIN r.refs |-> ImageTransformHost(z.address, r.refs[i])]
  <2>1. RefsOK("pod", new)
    <3>1. \A i \in DOMAIN r.refs : IsRef(new[i])
      BY <1>0, TransformFacts DEF RefsOK
    <3>2. new = [i \in DOMAIN r.refs |-> new[i]]
      OBVIOUS
    <3> HIDE DEF new
    <3> QED
      BY <1>0, <3>1, <3>2, MappedRefs
  <2> DEFINE s1 == [r EXCEPT !.secret = "registry"]
  <2>2. IsRecord(s1) /\ s1.kind = "pod" /\ s1.refs = r.refs
    BY <1>0, SetField, FieldNames
  <2> HIDE DEF s1, new
  <2> DEFINE s2 == [s1 EXCEPT !.orig = r.refs]
  <2>3. IsRecord(s2) /\ s2.kind = "pod" /\ s2.refs = r.refs
    BY <2>2, SetField, FieldNames
  <2> HIDE DEF s2
  <2> DEFINE s3 == [s2 EXCEPT !.refs = new]
  <2>4. IsRecord(s3) /\ s3.kind = "pod" /\ s3.refs = new
    BY <2>3, SetField, FieldNames
  <2> HIDE DEF s3
  <2> DEFINE s == Label(s3)
  <2>5. IsRecord(s) /\ s.patched = TRUE /\ s.kind = "pod" /\ s.refs = new
    BY <2>4, LabelFacts
  <2> HIDE DEF s
  <2>6. mutatePod(z, r) = Result(s)
    <3>1. new = [i \in DOMAIN s2.refs |-> ImageTransformHost(z.address, s2.refs[i])]
      BY <2>3, Zenon DEF new
    <3> QED
      BY <1>2, <3>1, Zenon DEF mutatePod, s, s3, s2, s1
  <2>7. s.patched \in BOOLEAN
    BY <2>5, Zenon
  <2>8. IsResource(s)
    BY <2>1, <2>5, <2>7, ResourceFacts
  <2>9. Settled(z, s)
    BY <2>5, Zenon DEF Settled
  <2>10. ~Settled(z, r)
    BY <1>2, Zenon DEF Settled
  <2> QED
    BY <2>5, <2>6, <2>8, <2>9, <2>10, ResultFacts DEF Settles
<1> QED
  BY <1>1, <1>2, Zenon

LEMMA GitSettles ==
    ASSUME NEW z, NEW r, IsResource(r), r.kind = "git"
    PROVE  Settles(z, r, mutateGitRepo(z, r))
<1> DEFINE u == r.refs[1]
<1> DEFINE same == DoHostnamesMatch(z.git, u.host)
<1> DEFINE v == IF same THEN u ELSE GitURL(z.git, u, z.gitUser)
<1>0. IsRecord(r) /\ r.refs = <<u>>
  BY ResourceFacts DEF RefsOK
<1>1. IsRef(u)
  BY <1>0, FirstRef
<1>2. IsRef(v) /\ DoHostnamesMatch(z.git, v.host) /\ (same => v = u)
  BY <1>1, GitURLFacts DEF DoHostnamesMatch
<1>3. CASE z.git = NoHost
  <2>1. mutateGitRepo(z, r) = Result(r)
    BY <1>3 DEF mutateGitRepo
  <2>2. Settled(z, r)
    BY <1>3 DEF Settled
  <2> QED
    BY <2>1, <2>2, LeftAlone
<1>4. CASE z.git # NoHost /\ ~same /\ ~IsGitURL(u)
  <2>1. mutateGitRepo(z, r) = Denied
    BY <1>4 DEF mutateGitRepo
  <2> QED
    BY <2>1, ResultFacts DEF Settles
<1>5. CASE z.git # NoHost /\ ~(~same /\ ~IsGitURL(u))
  <2> DEFINE s1 == [r EXCEPT !.refs = <<v>>]
  <2>1. IsRecord(s1) /\ s1.kind = "git" /\ s1.refs = <<v>> /\ (<<v>> = r.refs => s1 = r)
    <3> HIDE DEF v
    <3> QED
      BY <1>0, SetField, FieldNames
  <2> HIDE DEF s1
  <2> DEFINE s2 == [s1 EXCEPT !.secret = "git"]
  <2>2. /\ IsRecord(s2) /\ s2.kind = "git" /\ s2.refs = <<v>> /\ s2.secret = "git"
        /\ s1.secret = "git" => s2 = s1
    <3> HIDE DEF v
    <3> QED
      BY <2>1, SetField, FieldNames
  <2> HIDE DEF s2
  <2> DEFINE s == Label(s2)
  <2>3. /\ IsRecord(s) /\ s.kind = "git" /\ s.refs = <<v>> /\ s.secret = "git" /\ s.patched = TRUE
        /\ s2.patched = TRUE => s = s2
    BY <2>2, LabelFacts, Zenon
  <2> HIDE DEF s
  <2>4. mutateGitRepo(z, r) = Result(s)
    BY <1>5, Zenon DEF mutateGitRepo, s, s2, s1
  <2>5. s.patched \in BOOLEAN
    BY <2>3, Zenon
  <2>6. IsResource(s)
    <3> HIDE DEF v
    <3> QED
      BY <1>2, <2>3, <2>5, ResourceFacts, OneRef
  <2>7. s.refs[1] = v
    <3> HIDE DEF v
    <3> QED
      BY <2>3
  <2>8. Settled(z, s)
    BY <1>2, <2>3, <2>7, Zenon DEF Settled
  <2>9. ASSUME Settled(z, r) PROVE s = r
    <3>1. r.patched = TRUE /\ r.secret = "git" /\ same
      BY <1>5, <2>9, Zenon DEF Settled
    <3>2. s1 = r
      BY <1>0, <1>2, <2>1, <3>1, Zenon
    <3>3. s2 = r
      BY <2>2, <3>1, <3>2, Zenon
    <3> QED
      BY <2>3, <3>1, <3>3, Zenon
  <2> QED
    BY <2>3, <2>4, <2>6, <2>8, <2>9, ResultFacts DEF Settles
<1> QED
  BY <1>3, <1>4, <1>5, Zenon

LEMMA HelmSettles ==
    ASSUME NEW z, NEW r, IsResource(r), r.kind = "helm"
    PROVE  Settles(z, r, mutateHelmRepo(z, r))
<1> DEFINE u == r.refs[1]
<1> DEFINE v == PatchedOCIName(z, u)
<1>0. IsRecord(r) /\ r.refs = <<u>>
  BY ResourceFacts DEF RefsOK
<1>1. IsRef(u)
  BY <1>0, FirstRef
<1>2. IsRef(v) /\ IsPatched(z, v) /\ (IsPatched(z, u) => v = u)
  BY <1>1, OCINameFacts DEF PatchedOCIName
<1> HIDE DEF v
<1>3. CASE r.type # "oci"
  <2>1. mutateHelmRepo(z, r) = Result(r)
    BY <1>3 DEF mutateHelmRepo
  <2>2. Settled(z, r)
    BY <1>3 DEF Settled
  <2> QED
    BY <2>1, <2>2, LeftAlone
<1>4. CASE r.type = "oci"
  <2> DEFINE s1 == [r EXCEPT !.refs = <<v>>]
  <2>1. IsRecord(s1) /\ s1.kind = "helm" /\ s1.refs = <<v>> /\ (<<v>> = r.refs => s1 = r)
    BY <1>0, SetField, FieldNames
  <2> HIDE DEF s1
  <2> DEFINE s2 == Access(z, z.mtls, s1)
  <2>2. /\ IsRecord(s2) /\ s2.kind = "helm" /\ s2.refs = <<v>> /\ HasAccess(z, z.mtls, s2)
        /\ HasAccess(z, z.mtls, s1) => s2 = s1
    BY <2>1, AccessFacts
  <2> HIDE DEF s2
  <2> DEFINE s == Label(s2)
  <2>3. /\ IsRecord(s) /\ s.kind = "helm" /\ s.refs = <<v>> /\ s.patched = TRUE
        /\ s.secret = s2.secret /\ s.insecure = s2.insecure /\ s.cert = s2.cert
        /\ s2.patched = TRUE => s = s2
    BY <2>2, LabelFacts, Zenon
  <2> HIDE DEF s
  <2>4. mutateHelmRepo(z, r) = Result(s)
    BY <1>4, Zenon DEF mutateHelmRepo, s, s2, s1, v
  <2>5. s.patched \in BOOLEAN
    BY <2>3, Zenon
  <2>6. IsResource(s)
    BY <1>2, <2>3, <2>5, ResourceFacts, OneRef
  <2>7. s.refs[1] = v
    BY <2>3
  <2>8. HasAccess(z, z.mtls, s)
    BY <2>2, <2>3, Zenon DEF HasAccess
  <2>9. Settled(z, s)
    BY <1>2, <2>3, <2>7, <2>8, Zenon DEF Settled
  <2>10. ASSUME Settled(z, r) PROVE s = r
    <3>1. r.patched = TRUE /\ IsPatched(z, u) /\ HasAccess(z, z.mtls, r)
      BY <1>4, <2>10, Zenon DEF Settled
    <3>2. s1 = r
      BY <1>0, <1>2, <2>1, <3>1, Zenon
    <3>3. s2 = r
      BY <2>2, <3>1, <3>2, Zenon
    <3> QED
      BY <2>3, <3>1, <3>3, Zenon
  <2> QED
    BY <2>3, <2>4, <2>6, <2>9, <2>10, ResultFacts DEF Settles
<1> QED
  BY <1>3, <1>4, Zenon

\* mutateOCIRepo, where the registry's hosts have different names.
LEMMA OCISettles ==
    ASSUME HostsApart, NEW z \in States, NEW op, NEW isChart,
           NEW r, IsResource(r), r.kind = "oci", Tame(r)
    PROVE  LET m == mutateOCIRepo(z, op, r, isChart) IN
           m.ok /\ Settles(z, r, m) /\ Tame(m.res)
<1> DEFINE t == RegistryAddress(z)
<1> DEFINE u == r.refs[1]
<1> DEFINE mutate == op = "create" \/ ~IsPatched(z, u)
<1> DEFINE byIP == op = "update" /\ IsPatchedClusterIP(z, u)
<1> DEFINE w == IF u.digest # "" THEN [u EXCEPT !.id = <<>>] ELSE u
<1> DEFINE new == OCIRepoRef(z, w, byIP, isChart)
<1> DEFINE tag == IF r.semver \/ u.digest # "" THEN u.id ELSE ParseImageRef(new).id
<1> DEFINE v1 == [new EXCEPT !.id = tag]
<1> DEFINE v == [v1 EXCEPT !.digest = u.digest]
<1> DEFINE q == IF mutate THEN [r EXCEPT !.refs = <<v>>] ELSE r
<1> DEFINE s2 == Access(z, mutate /\ z.mtls, q)
<1> DEFINE s == Label(s2)
<1>0. IsRecord(r) /\ r.refs = <<u>>
  BY ResourceFacts DEF RefsOK
<1>1. IsRef(u) /\ (IsPatched(z, u) => u.host = t /\ HasTag(r))
  BY <1>0, FirstRef DEF Tame
<1>2. mutateOCIRepo(z, op, r, isChart) = Result(s)
  BY Zenon DEF mutateOCIRepo
<1> HIDE DEF s, s2, q, v, v1, tag, new
<1>3. /\ IsRef(w) /\ w.scheme = u.scheme /\ w.host = u.host /\ w.digest = u.digest /\ w.user = u.user
      /\ u.digest = "" => w = u
  BY <1>1, RefId
<1> HIDE DEF w
<1>4. /\ IsRef(new) /\ new.digest = u.digest
      /\ IF HasPrefix(t, u.host) THEN new = w ELSE new.host = t
  <2>1. new \in {ImageTransformHost(t, w), ImageTransformHostWithoutChecksum(t, w)}
    BY DEF new, OCIRepoRef
  <2>2. /\ IsRef(new) /\ new.digest = w.digest
        /\ IF HasPrefix(t, w.host) THEN new = w ELSE new.host = t
    <3> HIDE DEF t, u
    <3>1. IsRef(w)
      BY <1>3
    <3>2. \A x \in {ImageTransformHost(t, w), ImageTransformHostWithoutChecksum(t, w)} :
             /\ IsRef(x) /\ x.digest = w.digest
             /\ IF HasPrefix(t, w.host) THEN x = w ELSE x.host = t
      BY <3>1, TransformFacts
    <3> QED
      BY <2>1, <3>2, Zenon
  <2> QED
    BY <1>3, <2>2
<1>5. new.host = t
  <2>1. CASE HasPrefix(t, u.host)
    <3>1. IsPatched(z, u)
      BY <2>1 DEF HasPrefix, IsPatched, DoHostnamesMatch
    <3> QED
      BY <1>1, <1>3, <1>4, <2>1, <3>1
  <2>2. CASE ~HasPrefix(t, u.host)
    BY <1>4, <2>2
  <2> QED
    BY <2>1, <2>2
<1>6. r.semver \/ u.digest # "" \/ tag # <<>>
  <2>1. ParseImageRef(new).id # <<>> \/ ParseImageRef(new).digest # ""
    BY <1>4, ParseFacts
  <2>2. ParseImageRef(new).digest = u.digest
    BY <1>4, ParseFacts
  <2> QED
    BY <2>1, <2>2 DEF tag
<1>7. /\ IsRef(v1) /\ v1.host = t /\ v1.id = tag
      /\ v1.scheme = new.scheme /\ v1.user = new.user
  BY <1>4, <1>5, RefId DEF v1
<1>8. /\ IsRef(v) /\ v.host = t /\ v.id = tag /\ v.digest = u.digest
      /\ v.scheme = new.scheme /\ v.user = new.user
  BY <1>7, RefDigest DEF v
<1>9. \E x : /\ IsRef(x) /\ x.host = t /\ q.refs = <<x>> /\ IsRecord(q) /\ q.kind = "oci"
             /\ q.semver = r.semver /\ (r.semver \/ x.digest # "" \/ x.id # <<>>)
  <2>1. CASE mutate
    <3>1. IsRecord(q) /\ q.kind = "oci" /\ q.refs = <<v>> /\ q.semver = r.semver
      BY <1>0, <2>1, SetField, FieldNames DEF q
    <3> QED
      BY <1>6, <1>8, <3>1
  <2>2. CASE ~mutate
    <3>1. q = r /\ u.host = t /\ HasTag(r)
      BY <1>1, <2>2 DEF q
    <3> QED
      BY <1>0, <1>1, <3>1 DEF HasTag
  <2> QED
    BY <2>1, <2>2
<1>10. PICK x : /\ IsRef(x) /\ x.host = t /\ q.refs = <<x>> /\ IsRecord(q) /\ q.kind = "oci"
                /\ q.semver = r.semver /\ (r.semver \/ x.digest # "" \/ x.id # <<>>)
  BY <1>9
<1>11. /\ IsRecord(s2) /\ s2.kind = "oci" /\ s2.refs = <<x>> /\ s2.semver = r.semver
       /\ HasAccess(z, mutate /\ z.mtls, s2) /\ (HasAccess(z, mutate /\ z.mtls, q) => s2 = q)
  <2> HIDE DEF mutate
  <2>1. PICK mtls : mtls = (mutate /\ z.mtls)
    OBVIOUS
  <2>2. s2 = Access(z, mtls, q)
    BY <2>1, Zenon DEF s2
  <2>3. /\ IsRecord(s2) /\ s2.kind = "oci" /\ s2.refs = <<x>> /\ s2.semver = r.semver
        /\ HasAccess(z, mtls, s2) /\ (HasAccess(z, mtls, q) => s2 = q)
    <3>1. LET a == Access(z, mtls, q) IN
          /\ IsRecord(a) /\ HasAccess(z, mtls, a) /\ (HasAccess(z, mtls, q) => a = q)
          /\ a.kind = q.kind /\ a.refs = q.refs /\ a.semver = q.semver
      <4>1. IsRecord(q)
        BY <1>10
      <4> QED
        BY <4>1, AccessFacts
    <3> QED
      BY <1>10, <2>2, <3>1, Zenon
  <2> QED
    BY <2>1, <2>3, Zenon
<1>12. /\ IsRecord(s) /\ s.kind = "oci" /\ s.refs = <<x>> /\ s.semver = r.semver /\ s.patched = TRUE
       /\ s.secret = s2.secret /\ s.insecure = s2.insecure /\ s.cert = s2.cert
       /\ s2.patched = TRUE => s = s2
  BY <1>11, LabelFacts, Zenon DEF s
<1>13. s.refs[1] = x
  BY <1>12
<1>14. IsResource(s)
  <2>1. s.patched \in BOOLEAN
    BY <1>12, Zenon
  <2> QED
    BY <1>10, <1>12, <2>1, ResourceFacts, OneRef
<1>15. HasTag(s)
  BY <1>10, <1>12, <1>13 DEF HasTag
<1>16. Tame(s)
  <2> SUFFICES ASSUME NEW y \in States, IsPatched(y, x) PROVE x.host = RegistryAddress(y)
    BY <1>13, <1>15 DEF Tame
  <2>1. DoHostnamesMatch(RegistryAddress(z), RegistryAddress(y))
    BY <1>10 DEF IsPatched, DoHostnamesMatch
  <2> QED
    BY <1>10, <2>1 DEF HostsApart
<1>17. Settled(z, s)
  <2>1. CASE z.mtls
    BY <1>12, <2>1, Zenon DEF Settled
  <2>2. CASE ~z.mtls
    <3>1. (mutate /\ z.mtls) = FALSE
      BY <2>2, Zenon
    <3>2. HasAccess(z, FALSE, s2)
      BY <1>11, <3>1, Zenon
    <3>3. HasAccess(z, FALSE, s)
      BY <1>12, <3>2, Zenon DEF HasAccess
    <3> QED
      BY <1>10, <1>12, <1>13, <1>15, <3>3, Zenon DEF Settled
  <2> QED
    BY <2>1, <2>2, Zenon
<1>18. ASSUME ~z.mtls, Settled(z, r) PROVE s = r
  <2>1. r.patched = TRUE /\ u.host = t /\ HasTag(r) /\ HasAccess(z, FALSE, r)
    BY <1>18, Zenon DEF Settled
  <2>2. HasPrefix(t, u.host)
    BY <2>1 DEF HasPrefix
  <2>3. new = w
    BY <1>4, <2>2
  <2>4. tag = u.id
    <3>1. CASE r.semver \/ u.digest # ""
      BY <3>1 DEF tag
    <3>2. CASE ~(r.semver \/ u.digest # "")
      <4>1. u.id # <<>> /\ new = u
        BY <1>3, <2>1, <2>3, <3>2 DEF HasTag
      <4> QED
        BY <1>1, <3>2, <4>1, ParseFacts DEF tag
    <3> QED
      BY <3>1, <3>2
  <2>5. v = u
    BY <1>1, <1>3, <1>8, <2>1, <2>3, <2>4, RefSame
  <2>6. q = r
    BY <1>0, <2>5, SetField, FieldNames DEF q
  <2>7. (mutate /\ z.mtls) = FALSE
    BY <1>18, Zenon
  <2>8. s2 = r
    BY <1>11, <2>1, <2>6, <2>7, Zenon
  <2> QED
    BY <1>12, <2>1, <2>8, Zenon
<1>19. Settles(z, r, Result(s))
  <2>1. Result(s).ok = TRUE /\ Result(s).res = s
    BY ResultFacts
  <2>2. Settled(z, r) /\ ~(z.mtls /\ r.kind = "oci") => s = r
    BY <1>18, Zenon
  <2> QED
    BY <1>12, <1>14, <1>17, <2>1, <2>2 DEF Settles
<1> QED
  BY <1>2, <1>16, <1>19, ResultFacts

\* The URLs of an Application, an ApplicationSet or an AppProject: those of
\* which are patched, and what comes of it.
URLsPatched(z, r, which, new) ==
    /\ new = [i \in DOMAIN r.refs |-> new[i]]
    /\ \A i \in DOMAIN r.refs :
         new[i] = IF i \in which THEN getPatchedRepoURL(z, r.refs[i]) ELSE r.refs[i]

URLsSettled(z, r, which, new, s) ==
    /\ IsResource(s) /\ s.kind = r.kind /\ s.patched = TRUE /\ s.refs = new
    /\ \A i \in DOMAIN new : new[i].scheme = r.refs[i].scheme
    /\ \A i \in which \cap DOMAIN new : getPatchedRepoURL(z, new[i]) = new[i]
    /\ r.patched = TRUE /\ (\A i \in which \cap DOMAIN new : getPatchedRepoURL(z, r.refs[i]) = r.refs[i])
         => s = r

LEMMA URLsSettle ==
    ASSUME NEW z, NEW r, IsResource(r), r.kind \in {"app", "project"},
           NEW CHANGED, NEW new, URLsPatched(z, r, CHANGED, new)
    PROVE  URLsSettled(z, r, CHANGED, new, Label([r EXCEPT !.refs = new]))
<1> DEFINE kind == r.kind
<1>a. /\ new = [i \in DOMAIN r.refs |-> new[i]]
      /\ \A i \in DOMAIN r.refs : new[i] = IF i \in CHANGED THEN getPatchedRepoURL(z, r.refs[i])
                                           ELSE r.refs[i]
  BY Zenon DEF URLsPatched
<1>0. IsRecord(r) /\ RefsOK(kind, r.refs)
  BY ResourceFacts
<1>1. ASSUME NEW i \in DOMAIN r.refs
      PROVE  /\ IsRef(new[i]) /\ new[i].scheme = r.refs[i].scheme
             /\ i \in CHANGED => getPatchedRepoURL(z, new[i]) = new[i]
  <2>1. IsRef(r.refs[i])
    BY <1>0 DEF RefsOK
  <2> QED
    BY <1>a, <2>1, RepoURLFacts
<1>2. RefsOK(kind, new) /\ DOMAIN new = DOMAIN r.refs
  BY <1>0, <1>1, <1>a, MappedRefs
<1> DEFINE s1 == [r EXCEPT !.refs = new]
<1>3. IsRecord(s1) /\ s1.kind = kind /\ s1.refs = new /\ (new = r.refs => s1 = r)
  BY <1>0, SetField, FieldNames
<1> HIDE DEF s1
<1> DEFINE s == Label(s1)
<1>4. /\ IsRecord(s) /\ s.kind = kind /\ s.refs = new /\ s.patched = TRUE
      /\ s1.patched = TRUE => s = s1
  BY <1>3, LabelFacts, Zenon
<1> HIDE DEF s
<1>5. IsResource(s)
  <2>1. s.patched \in BOOLEAN
    BY <1>4, Zenon
  <2> QED
    BY <1>2, <1>4, <2>1, ResourceFacts
<1>6. ASSUME r.patched = TRUE, \A i \in CHANGED \cap DOMAIN new : getPatchedRepoURL(z, r.refs[i]) = r.refs[i]
      PROVE  s = r
  <2>1. \A i \in DOMAIN r.refs : new[i] = r.refs[i]
    BY <1>2, <1>6, <1>a
  <2>2. r.refs = [i \in DOMAIN r.refs |-> r.refs[i]]
    BY <1>0 DEF RefsOK
  <2>3. new = r.refs
    BY <1>a, <2>1, <2>2
  <2> QED
    BY <1>3, <1>4, <1>6, <2>3, Zenon
<1>7. /\ IsResource(s) /\ s.kind = kind /\ s.patched = TRUE /\ s.refs = new
      /\ \A i \in DOMAIN new : new[i].scheme = r.refs[i].scheme
      /\ \A i \in CHANGED \cap DOMAIN new : getPatchedRepoURL(z, new[i]) = new[i]
  BY <1>1, <1>2, <1>4, <1>5
<1>8. Label([r EXCEPT !.refs = new]) = s
  BY Zenon DEF s, s1
<1>9. URLsSettled(z, r, CHANGED, new, s)
  BY <1>6, <1>7, Zenon DEF URLsSettled
<1> QED
  BY <1>8, <1>9, Zenon

LEMMA AppSettles ==
    ASSUME NEW z, NEW r, IsResource(r), r.kind = "app"
    PROVE  Settles(z, r, mutateApplication(z, r))
<1> DEFINE urls == GeneratorURLs(r)
<1>1. CASE ~ServiceUsable(z, urls)
  <2>1. mutateApplication(z, r) = Result(r)
    BY <1>1 DEF mutateApplication
  <2>2. Settled(z, r)
    BY <1>1 DEF Settled
  <2> QED
    BY <2>1, <2>2, LeftAlone
<1>2. CASE ServiceUsable(z, urls) /\ \E i \in DOMAIN urls : ~CanBePatched(z, urls[i])
  <2>1. mutateApplication(z, r) = Denied
    BY <1>2, Zenon DEF mutateApplication
  <2> QED
    BY <2>1, ResultFacts DEF Settles
<1>3. CASE ServiceUsable(z, urls) /\ ~(\E i \in DOMAIN urls : ~CanBePatched(z, urls[i]))
  <2> DEFINE CHANGED == {i \in DOMAIN r.refs : r.refs[i].scheme # "none"}
  <2> DEFINE new == [i \in DOMAIN r.refs |->
               IF r.refs[i].scheme = "none" THEN r.refs[i] ELSE getPatchedRepoURL(z, r.refs[i])]
  <2> DEFINE s == Label([r EXCEPT !.refs = new])
  <2>1. mutateApplication(z, r) = Result(s)
    BY <1>3, Zenon DEF mutateApplication
  <2>2. /\ new = [i \in DOMAIN r.refs |-> new[i]]
        /\ \A i \in DOMAIN r.refs : new[i] = IF i \in CHANGED THEN getPatchedRepoURL(z, r.refs[i])
                                             ELSE r.refs[i]
    OBVIOUS
  <2>3. DOMAIN new = DOMAIN r.refs
    OBVIOUS
  <2> HIDE DEF new
  <2>4. /\ IsResource(s) /\ s.kind = "app" /\ s.patched = TRUE /\ s.refs = new
        /\ \A i \in DOMAIN new : new[i].scheme = r.refs[i].scheme
        /\ \A i \in CHANGED \cap DOMAIN new : getPatchedRepoURL(z, new[i]) = new[i]
        /\ r.patched = TRUE /\ (\A i \in CHANGED \cap DOMAIN new : getPatchedRepoURL(z, r.refs[i]) = r.refs[i])
             => s = r
    <3>1. r.kind \in {"app", "project"}
      OBVIOUS
    <3> HIDE DEF CHANGED
    <3>2. URLsPatched(z, r, CHANGED, new)
      BY <2>2, Zenon DEF URLsPatched
    <3>3. URLsSettled(z, r, CHANGED, new, s)
      BY <3>1, <3>2, URLsSettle, Zenon
    <3> HIDE DEF s
    <3> QED
      BY <3>3, Zenon DEF URLsSettled
  <2> HIDE DEF s
  <2>5. Settled(z, s)
    <3>1. \A i \in DOMAIN s.refs : s.refs[i].scheme # "none" => getPatchedRepoURL(z, s.refs[i]) = s.refs[i]
      BY <2>3, <2>4
    <3> QED
      BY <2>4, <3>1, Zenon DEF Settled
  <2>6. ASSUME Settled(z, r) PROVE s = r
    <3>1. r.patched = TRUE /\ \A i \in DOMAIN r.refs :
            r.refs[i].scheme # "none" => getPatchedRepoURL(z, r.refs[i]) = r.refs[i]
      BY <1>3, <2>6, Zenon DEF Settled
    <3>2. \A i \in CHANGED \cap DOMAIN new : getPatchedRepoURL(z, r.refs[i]) = r.refs[i]
      BY <3>1, Zenon
    <3> QED
      BY <2>4, <3>1, <3>2, Zenon
  <2> QED
    BY <2>1, <2>4, <2>5, <2>6, ResultFacts DEF Settles
<1> QED
  BY <1>1, <1>2, <1>3, Zenon

LEMMA ProjectSettles ==
    ASSUME NEW z, NEW r, IsResource(r), r.kind = "project"
    PROVE  Settles(z, r, mutateAppProject(z, r))
<1>1. CASE ~ServiceUsable(z, r.refs)
  <2>1. mutateAppProject(z, r) = Result(r)
    BY <1>1 DEF mutateAppProject
  <2>2. Settled(z, r)
    BY <1>1 DEF Settled
  <2> QED
    BY <2>1, <2>2, LeftAlone
<1>2. CASE ServiceUsable(z, r.refs)
  <2> DEFINE CHANGED == {i \in DOMAIN r.refs : CanBePatched(z, r.refs[i])}
  <2> DEFINE new == [i \in DOMAIN r.refs |->
               IF CanBePatched(z, r.refs[i]) THEN getPatchedRepoURL(z, r.refs[i]) ELSE r.refs[i]]
  <2> DEFINE s == Label([r EXCEPT !.refs = new])
  <2>1. mutateAppProject(z, r) = Result(s)
    BY <1>2, Zenon DEF mutateAppProject
  <2>2. /\ new = [i \in DOMAIN r.refs |-> new[i]]
        /\ \A i \in DOMAIN r.refs : new[i] = IF i \in CHANGED THEN getPatchedRepoURL(z, r.refs[i])
                                             ELSE r.refs[i]
    OBVIOUS
  <2>3. DOMAIN new = DOMAIN r.refs
    OBVIOUS
  <2> HIDE DEF new
  <2>4. /\ IsResource(s) /\ s.kind = "project" /\ s.patched = TRUE /\ s.refs = new
        /\ \A i \in DOMAIN new : new[i].scheme = r.refs[i].scheme
        /\ \A i \in CHANGED \cap DOMAIN new : getPatchedRepoURL(z, new[i]) = new[i]
        /\ r.patched = TRUE /\ (\A i \in CHANGED \cap DOMAIN new : getPatchedRepoURL(z, r.refs[i]) = r.refs[i])
             => s = r
    <3>1. r.kind \in {"app", "project"}
      OBVIOUS
    <3> HIDE DEF CHANGED
    <3>2. URLsPatched(z, r, CHANGED, new)
      BY <2>2, Zenon DEF URLsPatched
    <3>3. URLsSettled(z, r, CHANGED, new, s)
      BY <3>1, <3>2, URLsSettle, Zenon
    <3> HIDE DEF s
    <3> QED
      BY <3>3, Zenon DEF URLsSettled
  <2> HIDE DEF s
  \* What could not be patched is as it was.
  <2>5. Settled(z, s)
    <3>1. ASSUME NEW i \in DOMAIN s.refs, CanBePatched(z, s.refs[i])
          PROVE  getPatchedRepoURL(z, s.refs[i]) = s.refs[i]
      <4>1. i \in DOMAIN r.refs /\ s.refs[i] = new[i] /\ i \in DOMAIN new
        BY <2>3, <2>4
      <4>2. CASE i \in CHANGED
        BY <2>4, <4>1, <4>2, Zenon
      <4>3. CASE i \notin CHANGED
        <5>1. s.refs[i] = r.refs[i]
          BY <2>2, <4>1, <4>3, Zenon
        <5> QED
          BY <3>1, <4>1, <4>3, <5>1, Zenon
      <4> QED
        BY <4>2, <4>3
    <3> QED
      BY <2>4, <3>1, Zenon DEF Settled
  <2>6. ASSUME Settled(z, r) PROVE s = r
    <3>1. r.patched = TRUE /\ \A i \in DOMAIN r.refs :
            CanBePatched(z, r.refs[i]) => getPatchedRepoURL(z, r.refs[i]) = r.refs[i]
      BY <1>2, <2>6, Zenon DEF Settled
    <3>2. \A i \in CHANGED \cap DOMAIN new : getPatchedRepoURL(z, r.refs[i]) = r.refs[i]
      BY <3>1, Zenon
    <3> QED
      BY <2>4, <3>1, <3>2, Zenon
  <2> QED
    BY <2>1, <2>4, <2>5, <2>6, ResultFacts DEF Settles
<1> QED
  BY <1>1, <1>2, Zenon

LEMMA SecretSettles ==
    ASSUME NEW z, NEW r, IsResource(r), r.kind \notin {"pod", "git", "helm", "oci", "app", "project"}
    PROVE  Settles(z, r, mutateRepositorySecret(z, r))
<1> DEFINE u == r.refs[1]
<1> DEFINE oci == u.scheme = "oci"
<1>1. CASE r.refs = <<>>
  <2>1. mutateRepositorySecret(z, r) = Denied
    BY <1>1 DEF mutateRepositorySecret
  <2> QED
    BY <2>1, ResultFacts DEF Settles
<1>2. CASE r.refs # <<>> /\ ~ServiceUsable(z, r.refs)
  <2>1. mutateRepositorySecret(z, r) = Result(r)
    BY <1>2 DEF mutateRepositorySecret
  <2>2. Settled(z, r)
    BY <1>2 DEF Settled
  <2> QED
    BY <2>1, <2>2, LeftAlone
<1>3. CASE r.refs # <<>> /\ ServiceUsable(z, r.refs) /\ ~CanBePatched(z, u)
  <2>1. mutateRepositorySecret(z, r) = Denied
    BY <1>3 DEF mutateRepositorySecret
  <2> QED
    BY <2>1, ResultFacts DEF Settles
<1>4. CASE r.refs # <<>> /\ ServiceUsable(z, r.refs) /\ CanBePatched(z, u)
  <2>0. IsRecord(r) /\ IsRef(u)
    BY <1>4, ResourceFacts, FirstRef
  <2> DEFINE v == getPatchedRepoURL(z, u)
  <2>1. IsRef(v) /\ v.scheme = u.scheme /\ getPatchedRepoURL(z, v) = v
    BY <2>0, RepoURLFacts
  <2> DEFINE insecure == r.insecure \/ (oci /\ IsInternal(z) /\ ~z.mtls)
  <2> DEFINE cert == r.cert \/ (oci /\ z.mtls)
  <2> DEFINE creds == getCreds(z, u)
  <2> DEFINE s1 == [r EXCEPT !.refs = <<v>>]
  <2> HIDE DEF v, insecure, cert, creds
  <2>2. /\ IsRecord(s1) /\ s1.kind = r.kind /\ s1.refs = <<v>> /\ s1.insecure = r.insecure
        /\ s1.cert = r.cert /\ (<<v>> = r.refs => s1 = r)
    BY <2>0, SetField, FieldNames
  <2> HIDE DEF s1
  <2> DEFINE s2 == [s1 EXCEPT !.creds = creds]
  <2>3. /\ IsRecord(s2) /\ s2.kind = r.kind /\ s2.refs = <<v>> /\ s2.creds = creds
        /\ s2.insecure = r.insecure /\ s2.cert = r.cert /\ (creds = s1.creds => s2 = s1)
    BY <2>2, SetField, FieldNames
  <2> HIDE DEF s2
  <2> DEFINE s3 == [s2 EXCEPT !.insecure = insecure]
  <2>4. /\ IsRecord(s3) /\ s3.kind = r.kind /\ s3.refs = <<v>> /\ s3.creds = creds
        /\ s3.insecure = insecure /\ s3.cert = r.cert /\ (insecure = s2.insecure => s3 = s2)
    BY <2>3, SetField, FieldNames
  <2> HIDE DEF s3
  <2> DEFINE s4 == [s3 EXCEPT !.cert = cert]
  <2>5. /\ IsRecord(s4) /\ s4.kind = r.kind /\ s4.refs = <<v>> /\ s4.creds = creds
        /\ s4.insecure = insecure /\ s4.cert = cert /\ (cert = s3.cert => s4 = s3)
    BY <2>4, SetField, FieldNames
  <2> HIDE DEF s4
  <2> DEFINE s == Label(s4)
  <2>6. /\ IsRecord(s) /\ s.kind = r.kind /\ s.refs = <<v>> /\ s.creds = creds
        /\ s.insecure = insecure /\ s.cert = cert /\ s.patched = TRUE
        /\ s4.patched = TRUE => s = s4
    BY <2>5, LabelFacts, Zenon
  <2> HIDE DEF s
  <2>7. mutateRepositorySecret(z, r) = Result(s)
    <3>1. /\ insecure = (s2.insecure \/ (oci /\ IsInternal(z) /\ ~z.mtls))
          /\ cert = (s3.cert \/ (oci /\ z.mtls))
      BY <2>3, <2>4, Zenon DEF insecure, cert
    <3> QED
      BY <1>4, <3>1, Zenon DEF mutateRepositorySecret, s, s4, s3, s2, s1, v, creds
  <2>8. s.refs[1] = v
    BY <2>6
  <2>9. IsResource(s)
    <3>1. s.patched \in BOOLEAN
      BY <2>6, Zenon
    <3> QED
      BY <2>1, <2>6, <3>1, ResourceFacts, OneRef
  <2>10. Settled(z, s)
    <3>1. (s.refs[1].scheme = "oci") = oci
      BY <2>1, <2>8
    <3>2. s.creds = getCreds(z, s.refs[1])
      BY <2>1, <2>6, <2>8, <3>1 DEF getCreds, creds
    <3>3. s.insecure = (s.insecure \/ ((s.refs[1].scheme = "oci") /\ IsInternal(z) /\ ~z.mtls))
      <4>1. insecure = (insecure \/ (oci /\ IsInternal(z) /\ ~z.mtls))
        BY Zenon DEF insecure
      <4> QED
        BY <2>6, <3>1, <4>1, Zenon
    <3>4. s.cert = (s.cert \/ ((s.refs[1].scheme = "oci") /\ z.mtls))
      <4>1. cert = (cert \/ (oci /\ z.mtls))
        BY Zenon DEF cert
      <4> QED
        BY <2>6, <3>1, <4>1, Zenon
    <3>5. s.refs = <<s.refs[1]>> /\ getPatchedRepoURL(z, s.refs[1]) = s.refs[1]
      BY <2>1, <2>6, <2>8, Zenon
    <3>6. /\ s.kind # "pod" /\ s.kind # "git" /\ s.kind # "helm" /\ s.kind # "oci"
          /\ s.kind # "app" /\ s.kind # "project"
      BY <2>6
    <3> QED
      BY <2>6, <3>2, <3>3, <3>4, <3>5, <3>6, Zenon DEF Settled
  <2>11. ASSUME Settled(z, r) PROVE s = r
    <3>0. /\ r.kind # "pod" /\ r.kind # "git" /\ r.kind # "helm" /\ r.kind # "oci"
          /\ r.kind # "app" /\ r.kind # "project"
      OBVIOUS
    <3>1. /\ r.patched = TRUE /\ r.refs = <<u>> /\ getPatchedRepoURL(z, u) = u
          /\ r.creds = getCreds(z, u) /\ r.insecure = insecure /\ r.cert = cert
      BY <1>4, <2>11, <3>0, Zenon DEF Settled, insecure, cert
    <3>2. s1 = r
      BY <2>2, <3>1, Zenon DEF v
    <3>3. s2 = r
      BY <2>3, <3>1, <3>2, Zenon DEF creds
    <3>4. s3 = r
      BY <2>4, <3>1, <3>3, Zenon
    <3>5. s4 = r
      BY <2>5, <3>1, <3>4, Zenon
    <3> QED
      BY <2>6, <3>1, <3>5, Zenon
  <2> QED
    BY <2>6, <2>7, <2>9, <2>10, <2>11, ResultFacts DEF Settles
<1> QED
  BY <1>1, <1>2, <1>3, <1>4, Zenon

\* The hook of any kind.
LEMMA MutateSettles ==
    ASSUME HostsApart, NEW z \in States, NEW op, op # "debug", NEW isChart,
           NEW r, IsResource(r), Tame(r)
    PROVE  LET m == Mutate(z, op, r, isChart) IN
           Settles(z, r, m) /\ (m.ok => Tame(m.res))
<1> DEFINE m == Mutate(z, op, r, isChart)
<1>0. Settles(z, r, m)
  BY PodSettles, GitSettles, HelmSettles, OCISettles, AppSettles, ProjectSettles, SecretSettles DEF
     Mutate
<1>1. m.ok => Tame(m.res)
  <2>1. CASE r.kind = "oci"
    BY <2>1, OCISettles DEF Mutate
  <2>2. CASE r.kind # "oci"
    <3> HIDE DEF m
    <3> QED
      BY <1>0, <2>2 DEF Settles, Tame
  <2> QED
    BY <2>1, <2>2
<1> QED
  BY <1>0, <1>1

-----------------------------------------------------------------------------
(* Requests.                                                               *)

LEMMA NothingThere == IsResource(NoResource) /\ Tame(NoResource) /\ NoResource.kind = "none"
<1>1. NoResource.kind = "none" /\ NoResource.refs = <<>> /\ NoResource.patched = FALSE
  BY DEF NoResource
<1>2. IsRecord(NoResource)
  BY DEF IsRecord, NoResource
<1>3. RefsOK("none", <<>>)
  BY DEF RefsOK
<1>4. NoResource.patched \in BOOLEAN
  BY <1>1, Zenon
<1>5. IsResource(NoResource)
  BY <1>1, <1>2, <1>3, <1>4, ResourceFacts
<1> QED
  BY <1>1, <1>5 DEF Tame

\* What its author or an earlier version wrote.
LEMMA WrittenFacts ==
    ASSUME HostsApart, NEW n \in Names
    PROVE  /\ IsResource(Manifest[n]) /\ Tame(Manifest[n])
           /\ IsResource(Legacy[n]) /\ Tame(Legacy[n])
           /\ Legacy[n] = NoResource \/ Legacy[n].kind = Manifest[n].kind
BY AgentAssumption DEF HostsApart, Tame

\* Ephemeral containers are nothing to the other hooks.
LEMMA EphemeralFacts ==
    ASSUME NEW r, IsResource(r), NEW x
    PROVE  LET s == [r EXCEPT !.ephemeral = x] IN
           /\ IsResource(s) /\ s.kind = r.kind /\ s.refs = r.refs /\ s.ephemeral = x
           /\ x = r.ephemeral => s = r
           /\ Tame(r) => Tame(s)
           /\ \A z : Settled(z, r) => Settled(z, s)
<1> DEFINE s == [r EXCEPT !.ephemeral = x]
<1>0. IsRecord(r) /\ r.patched \in BOOLEAN /\ RefsOK(r.kind, r.refs)
  BY ResourceFacts
<1>1. /\ IsRecord(s) /\ s.kind = r.kind /\ s.refs = r.refs /\ s.ephemeral = x /\ s.type = r.type
      /\ s.patched = r.patched /\ s.secret = r.secret /\ s.creds = r.creds /\ s.semver = r.semver
      /\ s.insecure = r.insecure /\ s.cert = r.cert /\ (x = r.ephemeral => s = r)
  BY <1>0, SetField, FieldNames
<1> HIDE DEF s
<1>2. IsResource(s)
  BY <1>0, <1>1, ResourceFacts, Zenon
<1>3. HasTag(r) => HasTag(s)
  BY <1>1, Zenon DEF HasTag
<1>4. Tame(r) => Tame(s)
  BY <1>1, <1>3, Zenon DEF Tame
<1>5. ASSUME NEW z, Settled(z, r) PROVE Settled(z, s)
  <2>1. GeneratorURLs(s) = GeneratorURLs(r)
    BY <1>1, Zenon DEF GeneratorURLs
  <2>2. \A b : HasAccess(z, b, r) => HasAccess(z, b, s)
    BY <1>1, Zenon DEF HasAccess
  <2>3. CASE r.kind \in {"pod", "git"}
    BY <1>1, <1>5, <2>3, Zenon DEF Settled
  <2>4. CASE r.kind = "helm"
    BY <1>1, <1>5, <2>2, <2>4, Zenon DEF Settled
  <2>5. CASE r.kind = "oci"
    BY <1>1, <1>3, <1>5, <2>2, <2>5, Zenon DEF Settled
  <2>6. CASE r.kind = "app"
    BY <1>1, <1>5, <2>1, <2>6, Zenon DEF Settled
  <2>7. CASE r.kind = "project"
    BY <1>1, <1>5, <2>7, Zenon DEF Settled
  <2>8. CASE r.kind \notin {"pod", "git", "helm", "oci", "app", "project"}
    <3>1. /\ r.kind # "pod" /\ r.kind # "git" /\ r.kind # "helm" /\ r.kind # "oci"
          /\ r.kind # "app" /\ r.kind # "project"
      BY <2>8
    <3> QED
      BY <1>1, <1>5, <3>1, Zenon DEF Settled
  <2> QED
    BY <2>3, <2>4, <2>5, <2>6, <2>7, <2>8
<1> QED
  BY <1>1, <1>2, <1>4, <1>5 DEF s

\* kubectl debug.
LEMMA DebugFacts ==
    ASSUME NEW z, NEW r, IsResource(r), r.kind = "pod", NEW isChart
    PROVE  LET m == Mutate(z, "debug", r, isChart) IN
           m.ok /\ IsResource(m.res) /\ m.res.kind = "pod" /\ Tame(m.res)
<1>1. PICK x : Mutate(z, "debug", r, isChart) = Result([r EXCEPT !.ephemeral = x])
  BY Zenon DEF Mutate, mutateEphemeralContainers
<1> DEFINE s == [r EXCEPT !.ephemeral = x]
<1>2. IsResource(s) /\ s.kind = "pod"
  BY EphemeralFacts
<1> HIDE DEF s
<1>3. Mutate(z, "debug", r, isChart) = Result(s)
  BY <1>1, Zenon DEF s
<1> QED
  BY <1>2, <1>3, ResultFacts DEF Tame

\* What a request with resource r under name n does.
LEMMA AdmitCases ==
    ASSUME NEW n, NEW op, NEW r, Admit(n, op, r)
    PROVE  \/ resources' = [resources EXCEPT ![n] = r] /\ last'.by = "nobody"
           \/ last'.by = "denied" /\ resources' = resources
           \/ \E isChart :
                LET m == Mutate(zarf, op, r, isChart) IN
                /\ m.ok /\ resources' = [resources EXCEPT ![n] = m.res]
                /\ last' = [name |-> n, op |-> op, was |-> r.patched, by |-> "agent"]
<1>1. CASE ~(Selected(r) /\ ShouldMutate(r.label, nsLabel, policy))
  BY <1>1 DEF Admit
<1>2. CASE Selected(r) /\ ShouldMutate(r.label, nsLabel, policy)
  <2>1. CASE \E isChart \in MaybeChart(r) :
               LET m == Mutate(zarf, op, r, isChart)
                   ok == m.ok /\ Valid(op, resources[n], m.res)
               IN  /\ resources' = IF ok THEN [resources EXCEPT ![n] = m.res] ELSE resources
                   /\ last' = [name |-> n, op |-> op, was |-> r.patched,
                               by |-> IF ok THEN "agent" ELSE "denied"]
    <3>1. PICK isChart \in MaybeChart(r) :
            LET m == Mutate(zarf, op, r, isChart)
                ok == m.ok /\ Valid(op, resources[n], m.res)
            IN  /\ resources' = IF ok THEN [resources EXCEPT ![n] = m.res] ELSE resources
                /\ last' = [name |-> n, op |-> op, was |-> r.patched,
                            by |-> IF ok THEN "agent" ELSE "denied"]
      BY <2>1, Zenon
    <3> DEFINE m == Mutate(zarf, op, r, isChart)
    <3> HIDE DEF m
    <3>2. CASE m.ok /\ Valid(op, resources[n], m.res)
      <4>1. /\ resources' = [resources EXCEPT ![n] = m.res]
            /\ last' = [name |-> n, op |-> op, was |-> r.patched, by |-> "agent"]
        BY <3>1, <3>2, Zenon DEF m
      <4> QED
        BY <3>2, <4>1, Zenon DEF m
    <3>3. CASE ~(m.ok /\ Valid(op, resources[n], m.res))
      <4>1. resources' = resources /\ last' = [name |-> n, op |-> op, was |-> r.patched, by |-> "denied"]
        BY <3>1, <3>3, Zenon DEF m
      <4> QED
        BY <4>1
    <3> QED
      BY <3>2, <3>3, Zenon
  <2>2. CASE /\ last' = [name |-> n, op |-> op, by |-> "denied", was |-> r.patched]
             /\ UNCHANGED resources
    BY <2>2
  <2> QED
    BY <1>2, <2>1, <2>2, Zenon DEF Admit
<1> QED
  BY <1>1, <1>2

\* A request with resource r under name n.
LEMMA AdmitStep ==
    ASSUME HostsApart, ShapeInv, SettledInv, UNCHANGED <<zarf, names>>,
           NEW n \in Names, NEW op, NEW r,
           IsResource(r), Tame(r), r.kind = Manifest[n].kind, op = "debug" => r.kind = "pod",
           Admit(n, op, r)
    PROVE  ShapeInv' /\ SettledInv'
<1>0. /\ zarf \in States /\ zarf' \in States /\ names' \subseteq Names
      /\ resources = [k \in Names |-> resources[k]]
  BY DEF ShapeInv
\* The resource that is stored.
<1>1. ASSUME NEW s, IsResource(s), Tame(s), s.kind = Manifest[n].kind, resources' = [resources EXCEPT ![n] = s]
      PROVE  ShapeInv' /\ resources'[n] = s
  <2>1. resources' = [k \in Names |-> IF k = n THEN s ELSE resources[k]]
    BY <1>0, <1>1
  <2> QED
    BY <1>0, <1>1, <2>1 DEF ShapeInv
<1>2. ASSUME resources' = resources PROVE ShapeInv'
  BY <1>0, <1>2 DEF ShapeInv
<1>3. ASSUME last'.by # "agent" PROVE SettledInv'
  BY <1>3 DEF SettledInv
<1>4. CASE resources' = [resources EXCEPT ![n] = r] /\ last'.by = "nobody"
  BY <1>1, <1>3, <1>4
<1>5. CASE last'.by = "denied" /\ resources' = resources
  BY <1>2, <1>3, <1>5
<1>6. ASSUME NEW isChart,
             LET m == Mutate(zarf, op, r, isChart) IN
             /\ m.ok /\ resources' = [resources EXCEPT ![n] = m.res]
             /\ last' = [name |-> n, op |-> op, was |-> r.patched, by |-> "agent"]
      PROVE  ShapeInv' /\ SettledInv'
  <2>1. PICK z : z = zarf
    OBVIOUS
  <2> DEFINE m == Mutate(z, op, r, isChart)
  <2>2. /\ m.ok /\ resources' = [resources EXCEPT ![n] = m.res]
        /\ last'.name = n /\ last'.op = op
    BY <1>6, <2>1
  <2>3. CASE op = "debug"
    <3>1. IsResource(m.res) /\ m.res.kind = r.kind /\ Tame(m.res)
      BY <2>3, DebugFacts
    <3> HIDE DEF m
    <3>2. ShapeInv'
      BY <1>1, <2>2, <3>1
    <3> QED
      BY <2>2, <2>3, <3>2 DEF SettledInv
  <2>4. CASE op # "debug"
    <3>1. Settles(z, r, m) /\ (m.ok => Tame(m.res))
      BY <1>0, <2>1, <2>4, MutateSettles
    <3> HIDE DEF m
    <3>2. IsResource(m.res) /\ m.res.kind = r.kind /\ Tame(m.res) /\ Settled(z, m.res)
      BY <2>2, <3>1 DEF Settles
    <3>3. ShapeInv' /\ resources'[n] = m.res
      BY <1>1, <2>2, <3>2
    <3>4. zarf' = z
      BY <2>1
    <3> QED
      BY <2>2, <3>2, <3>3, <3>4 DEF SettledInv
  <2> QED
    BY <2>3, <2>4
<1> QED
  BY <1>4, <1>5, <1>6, AdmitCases, Zenon

\* The author's manifest applied over the resource.
LEMMA AppliedFacts ==
    ASSUME HostsApart, NEW n \in Names, NEW r, IsResource(r), r.kind = Manifest[n].kind
    PROVE  LET s == [r EXCEPT !.refs = Manifest[n].refs, !.creds = Manifest[n].creds] IN
           IsResource(s) /\ Tame(s) /\ s.kind = Manifest[n].kind
<1>0. IsRecord(r) /\ r.patched \in BOOLEAN /\ RefsOK(r.kind, r.refs)
  BY ResourceFacts
<1>1. RefsOK(r.kind, Manifest[n].refs)
  BY WrittenFacts, ResourceFacts
<1> DEFINE s1 == [r EXCEPT !.refs = Manifest[n].refs]
<1>2. IsRecord(s1) /\ s1.kind = r.kind /\ s1.patched = r.patched /\ s1.refs = Manifest[n].refs
  BY <1>0, SetField, FieldNames
<1> HIDE DEF s1
<1> DEFINE s2 == [s1 EXCEPT !.creds = Manifest[n].creds]
<1>3. IsRecord(s2) /\ s2.kind = r.kind /\ s2.patched = r.patched /\ s2.refs = Manifest[n].refs
  BY <1>2, SetField, FieldNames
<1> HIDE DEF s2
<1>4. [r EXCEPT !.refs = Manifest[n].refs, !.creds = Manifest[n].creds] = s2
  BY Zenon DEF s1, s2
<1>5. IsResource(s2)
  BY <1>0, <1>1, <1>3, ResourceFacts, Zenon
<1>6. Tame(s2)
  BY <1>3, Zenon DEF Tame, HostsApart
<1> QED
  BY <1>3, <1>4, <1>5, <1>6

\* Of a request that finds a resource.
LEMMA ExistingFacts ==
    ASSUME ShapeInv, NEW n \in Names, Exists(n)
    PROVE  IsResource(resources[n]) /\ Tame(resources[n]) /\ resources[n].kind = Manifest[n].kind
BY DEF ShapeInv, Exists

LEMMA ResourcesInit ==
    ASSUME HostsApart, Init
    PROVE  ShapeInv /\ SettledInv
<1>1. /\ zarf \in States /\ names \subseteq Names /\ last.by = "nobody"
      /\ resources = [n \in Names |->
            IF n \in names /\ IsInternal(zarf) THEN Legacy[n] ELSE NoResource]
  BY AgentAssumption DEF Init, NoRequestYet
<1>2. ASSUME NEW n \in Names
      PROVE  /\ IsResource(resources[n]) /\ Tame(resources[n])
             /\ resources[n] = NoResource \/ resources[n].kind = Manifest[n].kind
  <2>1. resources[n] = Legacy[n] \/ resources[n] = NoResource
    BY <1>1
  <2> QED
    BY <2>1, WrittenFacts, NothingThere
<1>3. resources = [n \in Names |-> resources[n]]
  BY <1>1
<1> QED
  BY <1>1, <1>2, <1>3 DEF ShapeInv, SettledInv

LEMMA ResourcesStep ==
    ASSUME HostsApart, ShapeInv, SettledInv, [Next]_vars
    PROVE  ShapeInv' /\ SettledInv'
<1>0. /\ zarf \in States /\ names \subseteq Names
      /\ resources = [k \in Names |-> resources[k]]
  BY DEF ShapeInv
<1>1. ASSUME NEW n \in names, Create(n) PROVE ShapeInv' /\ SettledInv'
  <2>1. IsResource(Manifest[n]) /\ Tame(Manifest[n])
    BY <1>0, WrittenFacts
  <2>2. Admit(n, "create", Manifest[n]) /\ UNCHANGED <<zarf, names>>
    BY <1>1 DEF Create, Idle
  <2> QED
    BY <1>0, <2>1, <2>2, AdmitStep
<1>2. ASSUME NEW n \in names, Apply(n) PROVE ShapeInv' /\ SettledInv'
  <2>1. IsResource(resources[n]) /\ resources[n].kind = Manifest[n].kind
    BY <1>0, <1>2, ExistingFacts DEF Apply
  <2>2. PICK x : x = resources[n]
    OBVIOUS
  <2> DEFINE s == [x EXCEPT !.refs = Manifest[n].refs, !.creds = Manifest[n].creds]
  <2>3. IsResource(s) /\ Tame(s) /\ s.kind = Manifest[n].kind
    BY <1>0, <2>1, <2>2, AppliedFacts
  <2>4. Admit(n, "update", s) /\ UNCHANGED <<zarf, names>>
    BY <1>2, <2>2, Zenon DEF Apply, Idle
  <2> HIDE DEF s
  <2> QED
    BY <1>0, <2>3, <2>4, AdmitStep
<1>3. ASSUME NEW n \in names, Touch(n) PROVE ShapeInv' /\ SettledInv'
  <2>1. PICK x : x = resources[n]
    OBVIOUS
  <2>2. IsResource(x) /\ Tame(x) /\ x.kind = Manifest[n].kind
    BY <1>0, <1>3, <2>1, ExistingFacts DEF Touch
  <2>3. Admit(n, "update", x) /\ UNCHANGED <<zarf, names>>
    BY <1>3, <2>1, Zenon DEF Touch, Idle
  <2> QED
    BY <1>0, <2>2, <2>3, AdmitStep
<1>4. ASSUME NEW n \in names, Recreate(n) PROVE ShapeInv' /\ SettledInv'
  <2>1. PICK x : x = resources[n]
    OBVIOUS
  <2>2. IsResource(x) /\ Tame(x) /\ x.kind = Manifest[n].kind
    BY <1>0, <1>4, <2>1, ExistingFacts DEF Recreate
  <2> DEFINE s == [x EXCEPT !.ephemeral = <<>>]
  <2>3. IsResource(s) /\ Tame(s) /\ s.kind = Manifest[n].kind
    BY <2>2, EphemeralFacts
  <2>4. Admit(n, "create", s) /\ UNCHANGED <<zarf, names>>
    BY <1>4, <2>1, Zenon DEF Recreate, Idle
  <2> HIDE DEF s
  <2> QED
    BY <1>0, <2>3, <2>4, AdmitStep
<1>5. ASSUME NEW n \in names, Debug(n) PROVE ShapeInv' /\ SettledInv'
  <2>1. PICK x : x = resources[n]
    OBVIOUS
  <2>2. IsResource(x) /\ Tame(x) /\ x.kind = Manifest[n].kind /\ x.kind = "pod"
    BY <1>0, <1>5, <2>1, ExistingFacts DEF Debug
  <2> DEFINE s == [x EXCEPT !.ephemeral = Append(x.ephemeral, Manifest[n].refs[1])]
  <2>3. IsResource(s) /\ Tame(s) /\ s.kind = Manifest[n].kind /\ s.kind = "pod"
    BY <2>2, EphemeralFacts
  <2>4. Admit(n, "debug", s) /\ UNCHANGED <<zarf, names>>
    BY <1>5, <2>1, Zenon DEF Debug, Idle
  <2> HIDE DEF s
  <2> QED
    BY <1>0, <2>3, <2>4, AdmitStep
<1>6. ASSUME NEW n \in names, Delete(n) PROVE ShapeInv' /\ SettledInv'
  <2>1. /\ resources' = [k \in Names |-> IF k = n THEN NoResource ELSE resources[k]]
        /\ last'.by = "nobody" /\ zarf' = zarf /\ names' = names
    BY <1>0, <1>6 DEF Delete, NoRequestYet
  <2> QED
    BY <1>0, <2>1, NothingThere DEF ShapeInv, SettledInv
<1>7. CASE LabelNamespace \/ ChangeState
  <2>0. last' = NoRequestYet /\ UNCHANGED <<names, resources>>
    BY <1>7, Zenon DEF LabelNamespace, ChangeState
  <2>1. last'.by = "nobody"
    BY <2>0 DEF NoRequestYet
  <2>2. CASE LabelNamespace
    BY <1>0, <2>0, <2>1, <2>2 DEF LabelNamespace, ShapeInv, SettledInv
  <2>3. CASE ChangeState
    <3>1. zarf' \in States
      BY <2>3, Zenon DEF ChangeState
    <3> QED
      BY <1>0, <2>0, <2>1, <3>1 DEF ShapeInv, SettledInv
  <2> QED
    BY <1>7, <2>2, <2>3
<1>8. CASE UNCHANGED <<zarf, webhookVars>>
  BY <1>8 DEF ShapeInv, SettledInv, webhookVars
<1> QED
  BY <1>1, <1>2, <1>3, <1>4, <1>5, <1>6, <1>7, <1>8 DEF Next, vars

-----------------------------------------------------------------------------
(* The webhook leaves what it has admitted alone.                          *)

LEMMA AdmitKeeps ==
    ASSUME HostsApart, ShapeInv, NEW n \in Names, NEW op, op # "debug",
           NEW r, IsResource(r), Tame(r), Settled(zarf, r), Admit(n, op, r)
    PROVE  \/ resources'[n] \in {r, resources[n]}
           \/ zarf.mtls /\ r.kind = "oci"
<1>0. zarf \in States /\ resources = [k \in Names |-> resources[k]]
  BY DEF ShapeInv
<1>1. ASSUME NEW s, resources' = [resources EXCEPT ![n] = s] PROVE resources'[n] = s
  BY <1>0, <1>1
<1>2. CASE ~(Selected(r) /\ ShouldMutate(r.label, nsLabel, policy))
  BY <1>1, <1>2 DEF Admit
<1>3. CASE UNCHANGED resources
  BY <1>3
<1>4. ASSUME NEW isChart, LET m == Mutate(zarf, op, r, isChart) IN
                          m.ok /\ resources' = [resources EXCEPT ![n] = m.res]
      PROVE  resources'[n] = r \/ (zarf.mtls /\ r.kind = "oci")
  <2>1. PICK z : z = zarf
    OBVIOUS
  <2> DEFINE m == Mutate(z, op, r, isChart)
  <2>2. m.ok /\ resources' = [resources EXCEPT ![n] = m.res]
    BY <1>4, <2>1, Zenon
  <2>3. Settles(z, r, m)
    BY <1>0, <2>1, MutateSettles
  <2> HIDE DEF m
  <2>4. m.res = r \/ (z.mtls /\ r.kind = "oci")
    BY <2>1, <2>2, <2>3 DEF Settles
  <2> QED
    BY <1>1, <2>1, <2>2, <2>4, Zenon
<1>5. CASE /\ Selected(r) /\ ShouldMutate(r.label, nsLabel, policy)
           /\ ~UNCHANGED resources
  <2>1. PICK isChart \in MaybeChart(r) :
          LET m == Mutate(zarf, op, r, isChart)
              ok == m.ok /\ Valid(op, resources[n], m.res)
          IN  resources' = IF ok THEN [resources EXCEPT ![n] = m.res] ELSE resources
    BY <1>5, Zenon DEF Admit
  <2>2. LET m == Mutate(zarf, op, r, isChart) IN
        m.ok /\ resources' = [resources EXCEPT ![n] = m.res]
    BY <1>5, <2>1, Zenon
  <2> QED
    BY <1>4, <2>2
<1> QED
  BY <1>2, <1>3, <1>5, Zenon

LEMMA SettledStays ==
    ASSUME HostsApart, ShapeInv, SettledInv, NEW n \in names,
           last.name = n, last.by = "agent", last.op # "debug", Touch(n) \/ Recreate(n)
    PROVE  \/ resources'[n] = [resources[n] EXCEPT !.ephemeral = resources'[n].ephemeral]
           \/ zarf.mtls /\ resources[n].kind = "oci"
<1>0. n \in Names
  BY DEF ShapeInv
<1>1. PICK x : x = resources[n]
  OBVIOUS
<1>2. PICK z : z = zarf
  OBVIOUS
<1>3. IsResource(x) /\ Tame(x) /\ Settled(z, x)
  BY <1>0, <1>1, <1>2 DEF ShapeInv, SettledInv
<1>4. [x EXCEPT !.ephemeral = x.ephemeral] = x
  BY <1>3, EphemeralFacts
<1>5. CASE Touch(n)
  <2>1. Admit(n, "update", x)
    BY <1>1, <1>5 DEF Touch
  <2>2. resources'[n] = x \/ (zarf.mtls /\ x.kind = "oci")
    BY <1>0, <1>1, <1>2, <1>3, <2>1, AdmitKeeps
  <2> QED
    BY <1>1, <1>4, <2>2
<1>6. CASE Recreate(n)
  <2> DEFINE s == [x EXCEPT !.ephemeral = <<>>]
  <2>1. IsResource(s) /\ Tame(s) /\ Settled(z, s) /\ s.kind = x.kind /\ s.ephemeral = <<>>
    BY <1>3, EphemeralFacts
  <2>2. Admit(n, "create", s)
    BY <1>1, <1>6, Zenon DEF Recreate
  <2>3. [x EXCEPT !.ephemeral = s.ephemeral] = s
    BY <2>1, Zenon
  <2> HIDE DEF s
  <2>4. resources'[n] \in {s, x} \/ (zarf.mtls /\ s.kind = "oci")
    BY <1>0, <1>1, <1>2, <2>1, <2>2, AdmitKeeps
  <2> QED
    BY <1>1, <1>4, <2>1, <2>3, <2>4
<1> QED
  BY <1>5, <1>6

\* What the webhook has admitted it leaves alone in any cluster whose registry
\* hosts are told apart by name: neither a controller's update nor a restore
\* makes mutatePod, the Flux and the Argo CD hooks change the resource again.
THEOREM AdmittedIsLeftAlone ==
    ASSUME HostsApart PROVE Spec => NothingLeftToDo
<1>1. Init => ShapeInv /\ SettledInv
  BY ResourcesInit
<1>2. ShapeInv /\ SettledInv /\ [Next]_vars => (ShapeInv /\ SettledInv)'
  BY ResourcesStep
<1>3. ShapeInv /\ SettledInv =>
        \A n \in names :
          (last.name = n /\ last.by = "agent" /\ last.op # "debug" /\ (Touch(n) \/ Recreate(n)))
              => \/ resources'[n] = [resources[n] EXCEPT !.ephemeral = resources'[n].ephemeral]
                 \/ zarf.mtls /\ resources[n].kind = "oci"
  BY SettledStays, Zenon
<1> QED
  BY <1>1, <1>2, <1>3, PTL DEF Spec, NothingLeftToDo

-----------------------------------------------------------------------------
(* Where admitted resources lead.                                          *)

\* A reference to something outside of the cluster, whatever the state.
Elsewhere(u) == \A z \in States :
    \A h \in {z.address, RegistryAddress(z), Service.ip, z.git, NoHost} : ~DoHostnamesMatch(h, u.host)

\* The words of tags and names; ParseImageRef adds one of its own.
Word == STRING \cup {"latest"}

\* Authors write for the world outside: images, charts and repositories are
\* elsewhere, tags and names are words, and nothing is patched yet.  A version
\* range comes without a tag, and the sources of Flux have the URLs they need.
AuthoredElsewhere == \A n \in Names :
    LET m == Manifest[n] IN
    /\ m.kind = "pod" => m.patched = FALSE /\ m.ephemeral = <<>> /\ m.refs # <<>>
    /\ m.kind = "git" => m.refs[1].scheme # "oci"
    /\ m.kind = "helm" => m.refs[1].scheme = "oci"
    /\ m.kind = "oci" /\ m.semver => m.refs[1].id = <<>>
    /\ \A i \in DOMAIN m.refs :
          /\ m.refs[i].id \in Seq(Word)
          /\ m.kind \in {"pod", "oci"} \/ m.refs[i].scheme \in {"oci", "git"} => Elsewhere(m.refs[i])
          /\ \A z \in States : z.git = NoHost \/ ~DoHostnamesMatch(z.git, m.refs[i].host)

\* What an earlier version sent to the service's IP is in the registry.
LegacyByIP == \A n \in Names :
    LET u == Manifest[n].refs[1]
        r == Legacy[n]
        v == r.refs[1] IN
    \/ r = NoResource
    \/ /\ Service.ip # NoHost
       /\ r.kind = "oci" /\ r.semver = Manifest[n].semver /\ r.type = Manifest[n].type
       /\ r.ephemeral = <<>> /\ v.host = Service.ip
       /\ IF r.semver THEN v.id = <<>> ELSE ImageIsThere(Service.ip, u, v)

\* The state changes, but the registry and the git server stay where they are.
SameServices == \A c \in Changes :
    /\ RegistryAddress(c[2]) = RegistryAddress(c[1])
    /\ IsInternal(c[2]) <=> IsInternal(c[1])
    /\ c[1].git # NoHost => c[2].git = c[1].git /\ c[2].gitUser = c[1].gitUser

\* A chart and a repository where they are found.
ChartAt(z, v) == v.host = RegistryAddress(z) /\ v.id = <<>>
RepoAt(z, u, v) == v.host = z.git /\ v.id = u.id \o <<u.host>> /\ v.user = z.gitUser

\* IsThere, in state z.
Found(z, r, u, v) ==
    IF r.kind = "pod" THEN ImageIsThere(z.address, u, v)
    ELSE IF r.kind = "oci" THEN
         IF r.semver THEN ChartAt(z, v) ELSE ImageIsThere(RegistryAddress(z), u, v)
    ELSE IF u.scheme = "oci" THEN r.type # "oci" \/ z.address = NoHost \/ ChartAt(z, v)
    ELSE IF u.scheme = "git" THEN z.git = NoHost \/ RepoAt(z, u, v)
    ELSE v = u

\* A URL is what its author wrote, u, or where u is found.
URLStands(z, u, v) ==
    \/ v = u
    \/ u.scheme = "oci" /\ v.scheme = "oci" /\ ChartAt(z, v)
    \/ u.scheme = "git" /\ v.scheme = "git" /\ z.git # NoHost /\ RepoAt(z, u, v)

\* The same for the reference of an OCIRepository.
OCIStands(z, semver, u, v) ==
    \/ v = u
    \/ IF semver THEN ChartAt(z, v) ELSE ImageIsThere(RegistryAddress(z), u, v)

\* The containers of a pod: as they were written, or all transformed, in the
\* state of that moment.
PodStands(m, r) ==
    /\ \E S : r.ephemeral \in Seq(S)
    /\ \A i \in DOMAIN r.refs :
          IF r.patched THEN \E z \in States : r.refs[i] = ImageTransformHost(z.address, m.refs[i])
          ELSE r.refs[i] = m.refs[i]

\* A resource goes back to its author's manifest.
Origin(z, m, r) ==
    /\ r.kind = m.kind /\ r.semver = m.semver /\ r.type = m.type
    /\ DOMAIN r.refs \subseteq DOMAIN m.refs
    /\ IF r.kind = "pod" THEN PodStands(m, r)
       ELSE IF r.kind = "oci" THEN OCIStands(z, r.semver, m.refs[1], r.refs[1])
       ELSE \A i \in DOMAIN r.refs : URLStands(z, m.refs[i], r.refs[i])

\* What an earlier version wrote, created anew: its tag has one hash too many.
Twice(z, n, r) ==
    LET m == Manifest[n]
        v == r.refs[1] IN
    /\ r.kind = "oci" /\ m.kind = "oci" /\ r.semver = m.semver /\ r.type = m.type
    /\ 1 \in DOMAIN m.refs /\ DOMAIN r.refs = {1} /\ IsRef(v)
    /\ v.host = RegistryAddress(z) /\ v.id # <<>> /\ HashedAgain(n, v)

OriginInv == \A n \in Names :
    \/ resources[n] = NoResource
    \/ resources[n] = Legacy[n] /\ IsInternal(zarf)
    \/ Origin(zarf, Manifest[n], resources[n])
    \/ Twice(zarf, n, resources[n])

\* What was admitted last is there.
AllFound(z, m, r) == \A i \in DOMAIN r.refs : Found(z, r, m.refs[i], r.refs[i])
LastFound(z, m, r) == Found(z, r, m.refs[1], r.ephemeral[Len(r.ephemeral)])
AskedInv ==
    last.by = "agent" =>
        LET r == resources[last.name]
            m == Manifest[last.name]
        IN  /\ last.name \in Names
            /\ ~(r.kind = "pod" /\ last.was) /\ last.op # "debug" =>
                  AllFound(zarf, m, r) \/ Twice(zarf, last.name, r)
            /\ last.op = "debug" => LastFound(zarf, m, r)

-----------------------------------------------------------------------------
(* Tags, names and hashes.                                                 *)

LEMMA Hashed ==
    ASSUME NEW s \in Seq(Word), NEW h
    PROVE  Append(s, h) = s \o <<h>> /\ Append(s, h) # <<>>
<1> DEFINE S == Word \cup {h}
<1>1. s \in Seq(S) /\ h \in S /\ <<h>> \in Seq(S)
  OBVIOUS
<1> HIDE DEF S
<1>2. Append(s, h) \in Seq(S) /\ Len(Append(s, h)) = Len(s) + 1 /\ Len(s) \in Nat
  BY <1>1
<1>3. Append(s, h) = s \o <<h>>
  BY <1>1
<1>4. Len(<<>>) = 0
  OBVIOUS
<1> QED BY <1>2, <1>3, <1>4

\* A hashed name tells what was hashed.
LEMMA HashedApart ==
    ASSUME NEW s \in Seq(Word), NEW t \in Seq(Word), NEW h, NEW k, s \o <<h>> = t \o <<k>>
    PROVE  s = t /\ h = k
<1> DEFINE S == Word \cup {h, k}
<1>1. s \in Seq(S) /\ t \in Seq(S) /\ h \in S /\ k \in S
  OBVIOUS
<1> HIDE DEF S
<1>2. Append(s, h) = Append(t, k)
  BY Hashed
<1>3. /\ Len(Append(s, h)) = Len(s) + 1 /\ Len(Append(t, k)) = Len(t) + 1
      /\ \A i \in 1 .. Len(s) : Append(s, h)[i] = s[i]
      /\ \A i \in 1 .. Len(t) : Append(t, k)[i] = t[i]
      /\ Append(s, h)[Len(s) + 1] = h /\ Append(t, k)[Len(t) + 1] = k
      /\ Len(s) \in Nat /\ Len(t) \in Nat
  BY <1>1
<1>4. Len(s) = Len(t)
  BY <1>2, <1>3
<1>5. \A i \in 1 .. Len(s) : s[i] = t[i]
  BY <1>2, <1>3, <1>4
<1>6. s = t
  BY <1>1, <1>4, <1>5
<1> QED BY <1>2, <1>3, <1>4, <1>6

\* The tag of an image.
Tag(u) == IF u.id = <<>> THEN <<"latest">> ELSE u.id

LEMMA TagFacts ==
    ASSUME NEW u, u.id \in Seq(Word)
    PROVE  Tag(u) \in Seq(Word) /\ Tag(u) # <<>>
<1>1. ASSUME NEW x \in Word PROVE <<x>> \in Seq(Word) /\ <<x>> # <<>>
  OBVIOUS
<1>2. "latest" \in Word
  BY DEF Word
<1>3. <<"latest">> \in Seq(Word) /\ <<"latest">> # <<>>
  BY <1>1, <1>2, Zenon
<1> QED BY <1>3, Zenon DEF Tag

\* The provers cannot read the empty string.
HasDigest(u) == u.digest # ""

-----------------------------------------------------------------------------
(* References: where each transformation leads.                            *)

\* u at host t, with tag or name x.
Sent(u, t, x) == [u EXCEPT !.host = t, !.id = x]

LEMMA SetHostAndId ==
    ASSUME NEW u, IsRef(u), NEW t, NEW x
    PROVE  LET v == Sent(u, t, x) IN
           /\ IsRef(v) /\ v.host = t /\ v.id = x
           /\ v.scheme = u.scheme /\ v.digest = u.digest /\ v.user = u.user
<1> DEFINE v1 == [u EXCEPT !.host = t]
<1>1. /\ IsRef(v1) /\ v1.host = t
      /\ v1.scheme = u.scheme /\ v1.digest = u.digest /\ v1.user = u.user
  BY RefHost
<1> HIDE DEF v1
<1> DEFINE v2 == [v1 EXCEPT !.id = x]
<1>2. /\ IsRef(v2) /\ v2.host = t /\ v2.id = x
      /\ v2.scheme = u.scheme /\ v2.digest = u.digest /\ v2.user = u.user
  BY <1>1, RefId
<1> HIDE DEF v2
<1>3. Sent(u, t, x) = v2
  BY Zenon DEF Sent, v1, v2
<1> QED BY <1>2, <1>3

\* An image goes to t, under its tag with the hash or under the tag alone.
LEMMA ImageLeads ==
    ASSUME NEW u, IsRef(u), u.id \in Seq(Word), NEW t, ~DoHostnamesMatch(t, u.host)
    PROVE  LET v == ImageTransformHost(t, u)
               w == ImageTransformHostWithoutChecksum(t, u) IN
           /\ v.host = t /\ v.digest = u.digest /\ v.scheme = u.scheme /\ v.user = u.user
           /\ w.host = t /\ w.digest = u.digest
           /\ ~HasDigest(u) => v.id = Tag(u) \o <<u.host>> /\ w.id = Tag(u)
<1> DEFINE p == ParseImageRef(u)
           v == ImageTransformHost(t, u)
           w == ImageTransformHostWithoutChecksum(t, u)
<1>1. /\ IsRef(p) /\ p.scheme = u.scheme /\ p.host = u.host /\ p.digest = u.digest
      /\ p.user = u.user
  BY ParseFacts
<1>2. u.digest = "" => p.id = Tag(u)
  <2>1. CASE u.id = <<>> /\ u.digest = ""
    <3>1. [u EXCEPT !.id = <<"latest">>].id = <<"latest">>
      BY RefId
    <3> QED BY <2>1, <3>1, Zenon DEF ParseImageRef, Tag
  <2>2. CASE ~(u.id = <<>> /\ u.digest = "")
    BY <2>2, Zenon DEF ParseImageRef, Tag
  <2> QED BY <2>1, <2>2, Zenon
<1>3. ~HasPrefix(t, u.host)
  BY DEF HasPrefix, DoHostnamesMatch
<1> HIDE DEF p
<1>a. ASSUME NEW x, NEW y, y = Sent(p, t, x)
      PROVE  /\ y.host = t /\ y.id = x
             /\ y.scheme = p.scheme /\ y.digest = p.digest /\ y.user = p.user
  <2>1. IsRef(p)
    BY <1>1
  <2> QED BY <2>1, <1>a, SetHostAndId
<1>4. CASE u.digest = ""
  <2>1. v = Sent(p, t, Append(p.id, p.host))
    BY <1>1, <1>3, <1>4, Zenon DEF ImageTransformHost, CRCTag, p, Sent
  <2>2. w = Sent(p, t, p.id)
    <3>1. w = [p EXCEPT !.host = t, !.id = IF p.digest # "" THEN <<>> ELSE @]
      BY <1>1, <1>3, Zenon DEF ImageTransformHostWithoutChecksum, p
    <3> DEFINE p1 == [p EXCEPT !.host = t]
    <3>2. p1.id = p.id
      BY <1>1, RefHost
    <3>3. w = [p1 EXCEPT !.id = IF p.digest # "" THEN <<>> ELSE p1.id]
      BY <3>1, Zenon
    <3>4. w = [p1 EXCEPT !.id = p.id]
      BY <1>1, <1>4, <3>2, <3>3, Zenon
    <3> QED BY <3>4, Zenon DEF Sent
  <2> DEFINE x == Append(p.id, p.host)
  <2> HIDE DEF v, w, x
  <2>3. /\ v.host = t /\ v.id = x
        /\ v.scheme = p.scheme /\ v.digest = p.digest /\ v.user = p.user
    <3>1. v = Sent(p, t, x)
      BY <2>1, Zenon DEF x
    <3> QED BY <1>a, <3>1, Zenon
  <2>4. w.host = t /\ w.id = p.id /\ w.digest = p.digest
    BY <1>a, <2>2, Zenon
  <2>5. x = Tag(u) \o <<u.host>>
    BY <1>1, <1>2, <1>4, TagFacts, Hashed, Zenon DEF x
  <2> QED BY <1>1, <1>2, <1>4, <2>3, <2>4, <2>5, Zenon DEF HasDigest, v, w
<1>5. CASE u.digest # ""
  <2>1. v = Sent(p, t, <<>>) /\ w = Sent(p, t, <<>>)
    <3>1. w = [p EXCEPT !.host = t, !.id = IF p.digest # "" THEN <<>> ELSE @]
      BY <1>1, <1>3, Zenon DEF ImageTransformHostWithoutChecksum, p
    <3>2. w = Sent(p, t, <<>>)
      BY <1>1, <1>5, <3>1, Zenon DEF Sent
    <3> QED BY <1>1, <1>3, <1>5, <3>2, Zenon DEF ImageTransformHost, p, Sent
  <2> HIDE DEF v, w
  <2>2. v.host = t /\ v.scheme = p.scheme /\ v.digest = p.digest /\ v.user = p.user
    BY <1>a, <2>1, Zenon
  <2>3. w.host = t /\ w.digest = p.digest
    BY <1>a, <2>1, Zenon
  <2> QED BY <1>1, <1>5, <2>2, <2>3, Zenon DEF v, w, HasDigest
<1> QED BY <1>4, <1>5, Zenon

LEMMA ImagesAreThere ==
    ASSUME NEW u, IsRef(u), u.id \in Seq(Word), NEW t, ~DoHostnamesMatch(t, u.host)
    PROVE  /\ ImageIsThere(t, u, ImageTransformHost(t, u))
           /\ ImageIsThere(t, u, ImageTransformHostWithoutChecksum(t, u))
<1> DEFINE v == ImageTransformHost(t, u)
           w == ImageTransformHostWithoutChecksum(t, u)
<1>1. /\ v.host = t /\ v.digest = u.digest /\ w.host = t /\ w.digest = u.digest
      /\ ~HasDigest(u) => v.id = Tag(u) \o <<u.host>> /\ w.id = Tag(u)
  BY ImageLeads
<1> HIDE DEF v, w
<1>2. ImageIsThere(t, u, v) /\ ImageIsThere(t, u, w)
  BY <1>1, Zenon DEF ImageIsThere, Tag, HasDigest
<1> QED BY <1>2, Zenon DEF v, w

\* A chart and a repository.
LEMMA ChartLeads ==
    ASSUME NEW z \in States, NEW u, IsRef(u), u.id \in Seq(Word), Elsewhere(u)
    PROVE  LET v == PatchedOCIName(z, u) IN
           v.host = RegistryAddress(z) /\ v.id = <<>> /\ v.scheme = u.scheme
<1> DEFINE t == RegistryAddress(z)
           v == ImageTransformHost(t, u)
           v1 == [v EXCEPT !.id = <<>>]
           v2 == [v1 EXCEPT !.digest = ""]
<1>1. ~DoHostnamesMatch(t, u.host) /\ ~DoHostnamesMatch(Service.ip, u.host)
      /\ ~DoHostnamesMatch(NoHost, u.host)
  BY Zenon DEF Elsewhere
<1>2. PatchedOCIName(z, u) = NameOnly(v)
  BY <1>1, Zenon DEF PatchedOCIName, IsPatched, IsPatchedClusterIP, ClusterIP
<1>3. v.host = t /\ v.scheme = u.scheme /\ IsRef(v)
  <2>1. IsRef(v)
    BY TransformFacts
  <2> QED BY <1>1, <2>1, ImageLeads
<1> HIDE DEF v, v2
<1>4. IsRef(v1) /\ v1.id = <<>> /\ v1.host = t /\ v1.scheme = u.scheme
  <2> HIDE DEF t
  <2> QED BY <1>3, RefId, SMTT(30)
<1> HIDE DEF v1
<1>5. v2.id = <<>> /\ v2.host = t /\ v2.scheme = u.scheme
  BY <1>4, RefDigest, Zenon DEF v2
<1>6. NameOnly(v) = v2
  BY Zenon DEF NameOnly, v1, v2
<1> QED BY <1>2, <1>5, <1>6, Zenon

LEMMA RepoLeads ==
    ASSUME NEW u, IsRef(u), u.id \in Seq(Word), NEW base, NEW user
    PROVE  LET v == GitURL(base, u, user) IN
           v.host = base /\ v.id = u.id \o <<u.host>> /\ v.user = user /\ v.scheme = u.scheme
<1> DEFINE v1 == [u EXCEPT !.host = base]
<1>1. IsRef(v1) /\ v1.scheme = u.scheme /\ v1.host = base /\ v1.id = u.id
  BY RefHost
<1> HIDE DEF v1
<1> DEFINE x == Append(v1.id, u.host)
           v2 == [v1 EXCEPT !.id = x]
<1>0. x = u.id \o <<u.host>>
  BY <1>1, Hashed, Zenon
<1> HIDE DEF x
<1>2. IsRef(v2) /\ v2.scheme = u.scheme /\ v2.host = base /\ v2.id = x
  BY <1>1, RefId
<1> HIDE DEF v2
<1> DEFINE v3 == [v2 EXCEPT !.user = user]
<1>3. v3.scheme = u.scheme /\ v3.host = base /\ v3.id = x /\ v3.user = user
  BY <1>2, RefUser
<1> HIDE DEF v3
<1>4. GitURL(base, u, user) = v3
  BY Zenon DEF GitURL, v1, v2, v3, x
<1> QED BY <1>3, <1>4, <1>0

-----------------------------------------------------------------------------
(* What each hook makes of the references.                                 *)

\* What no hook changes.
Alike(r, s) == s.kind = r.kind /\ s.semver = r.semver /\ s.type = r.type

LEMMA RefsSet ==
    ASSUME NEW r, IsRecord(r), NEW x
    PROVE  LET s == [r EXCEPT !.refs = x] IN IsRecord(s) /\ Alike(r, s) /\ s.refs = x
BY SetField, FieldNames DEF Alike

LEMMA LabelledRefs ==
    ASSUME NEW r, IsRecord(r), NEW x
    PROVE  LET s == Label([r EXCEPT !.refs = x]) IN IsRecord(s) /\ Alike(r, s) /\ s.refs = x
<1> DEFINE s1 == [r EXCEPT !.refs = x]
<1>1. IsRecord(s1) /\ Alike(r, s1) /\ s1.refs = x
  BY RefsSet
<1> HIDE DEF s1
<1>2. LET s == Label(s1) IN IsRecord(s) /\ Alike(r, s) /\ s.refs = x
  BY <1>1, LabelFacts DEF Alike
<1> QED BY <1>2, Zenon DEF s1

LEMMA PodBecomes ==
    ASSUME NEW z, NEW r, IsResource(r), r.kind = "pod", NEW m, m = mutatePod(z, r)
    PROVE  \/ r.patched /\ m.res = r
           \/ /\ ~r.patched /\ Alike(r, m.res) /\ m.res.patched /\ m.res.ephemeral = r.ephemeral
              /\ m.res.refs = [i \in DOMAIN r.refs |-> ImageTransformHost(z.address, r.refs[i])]
<1>0. IsRecord(r)
  BY ResourceFacts
<1>1. CASE r.patched
  BY <1>1, ResultFacts, Zenon DEF mutatePod
<1>2. CASE ~r.patched
  <2> DEFINE new == [i \in DOMAIN r.refs |-> ImageTransformHost(z.address, r.refs[i])]
  <2> HIDE DEF new
  <2> DEFINE s1 == [r EXCEPT !.secret = "registry"]
  <2>2. IsRecord(s1) /\ Alike(r, s1) /\ s1.ephemeral = r.ephemeral /\ s1.refs = r.refs
    BY <1>0, SetField, FieldNames DEF Alike
  <2> HIDE DEF s1
  <2> DEFINE s2 == [s1 EXCEPT !.orig = r.refs]
  <2>3. IsRecord(s2) /\ Alike(r, s2) /\ s2.ephemeral = r.ephemeral /\ s2.refs = r.refs
    BY <2>2, SetField, FieldNames DEF Alike
  <2> HIDE DEF s2
  <2> DEFINE s3 == [s2 EXCEPT !.refs = new]
  <2>4. IsRecord(s3) /\ Alike(r, s3) /\ s3.ephemeral = r.ephemeral /\ s3.refs = new
    BY <2>3, SetField, FieldNames DEF Alike
  <2> HIDE DEF s3
  <2> DEFINE s == [s3 EXCEPT !.patched = TRUE]
  <2>a. PICK true : true = TRUE
    OBVIOUS
  <2>5. LET q == [s3 EXCEPT !.patched = true] IN
        Alike(r, q) /\ q.ephemeral = r.ephemeral /\ q.refs = new /\ q.patched = true
    <3> HIDE <2>a
    <3> QED BY <2>4, SetField, FieldNames DEF Alike
  <2>b. s = [s3 EXCEPT !.patched = true]
    BY <2>a, Zenon
  <2> HIDE DEF s
  <2>6. Alike(r, s) /\ s.ephemeral = r.ephemeral /\ s.refs = new /\ s.patched = TRUE
    BY <2>5, <2>a, <2>b, Zenon
  <2>7. m = Result(s)
    <3>1. new = [i \in DOMAIN s2.refs |-> ImageTransformHost(z.address, s2.refs[i])]
      BY <2>3, Zenon DEF new
    <3> QED BY <1>2, <3>1, Zenon DEF mutatePod, Label, s, s3, s2, s1
  <2>8. m.res = s
    BY <2>7, ResultFacts, Zenon
  <2> QED BY <1>2, <2>6, <2>8, Zenon DEF new
<1> QED BY <1>1, <1>2, Zenon

LEMMA GitBecomes ==
    ASSUME NEW z, NEW r, IsResource(r), r.kind = "git", NEW m, m = mutateGitRepo(z, r), m.ok
    PROVE  LET u == r.refs[1]
               same == DoHostnamesMatch(z.git, u.host) IN
           \/ z.git = NoHost /\ m.res = r
           \/ /\ z.git # NoHost /\ Alike(r, m.res)
              /\ m.res.refs = <<IF same THEN u ELSE GitURL(z.git, u, z.gitUser)>>
              /\ same \/ IsGitURL(u)
<1> DEFINE u == r.refs[1]
           same == DoHostnamesMatch(z.git, u.host)
           v == IF same THEN u ELSE GitURL(z.git, u, z.gitUser)
<1>0. IsRecord(r)
  BY ResourceFacts
<1>1. CASE z.git = NoHost
  BY <1>1, ResultFacts, Zenon DEF mutateGitRepo
<1>2. CASE z.git # NoHost /\ ~same /\ ~IsGitURL(u)
  BY <1>2, ResultFacts, Zenon DEF mutateGitRepo
<1>3. CASE z.git # NoHost /\ (same \/ IsGitURL(u))
  <2> HIDE DEF v
  <2> DEFINE s1 == [r EXCEPT !.refs = <<v>>]
  <2>1. IsRecord(s1) /\ Alike(r, s1) /\ s1.refs = <<v>>
    BY <1>0, RefsSet
  <2> HIDE DEF s1
  <2> DEFINE s2 == [s1 EXCEPT !.secret = "git"]
  <2>2. IsRecord(s2) /\ Alike(r, s2) /\ s2.refs = <<v>>
    BY <2>1, SetField, FieldNames DEF Alike
  <2> HIDE DEF s2
  <2> DEFINE s == Label(s2)
  <2>3. Alike(r, s) /\ s.refs = <<v>>
    BY <2>2, LabelFacts DEF Alike
  <2> HIDE DEF s
  <2>4. m = Result(s)
    BY <1>3, Zenon DEF mutateGitRepo, s, s2, s1, v
  <2>5. m.res = s
    BY <2>4, ResultFacts, Zenon
  <2> QED BY <1>3, <2>3, <2>5, Zenon DEF v
<1> QED BY <1>1, <1>2, <1>3, Zenon

LEMMA HelmBecomes ==
    ASSUME NEW z, NEW r, IsResource(r), r.kind = "helm", NEW m, m = mutateHelmRepo(z, r)
    PROVE  \/ r.type # "oci" /\ m.res = r
           \/ r.type = "oci" /\ Alike(r, m.res) /\ m.res.refs = <<PatchedOCIName(z, r.refs[1])>>
<1> DEFINE v == PatchedOCIName(z, r.refs[1])
<1>0. IsRecord(r)
  BY ResourceFacts
<1>1. CASE r.type # "oci"
  BY <1>1, ResultFacts, Zenon DEF mutateHelmRepo
<1>2. CASE r.type = "oci"
  <2> HIDE DEF v
  <2> DEFINE s1 == [r EXCEPT !.refs = <<v>>]
  <2>1. IsRecord(s1) /\ Alike(r, s1) /\ s1.refs = <<v>>
    BY <1>0, RefsSet
  <2> HIDE DEF s1
  <2> DEFINE s2 == Access(z, z.mtls, s1)
  <2>2. IsRecord(s2) /\ Alike(r, s2) /\ s2.refs = <<v>>
    BY <2>1, AccessFacts DEF Alike
  <2> HIDE DEF s2
  <2> DEFINE s == Label(s2)
  <2>3. Alike(r, s) /\ s.refs = <<v>>
    BY <2>2, LabelFacts DEF Alike
  <2> HIDE DEF s
  <2>4. m = Result(s)
    BY <1>2, Zenon DEF mutateHelmRepo, s, s2, s1, v
  <2>5. m.res = s
    BY <2>4, ResultFacts, Zenon
  <2> QED BY <1>2, <2>3, <2>5, Zenon DEF v
<1> QED BY <1>1, <1>2, Zenon

\* mutateOCIRepo's new reference.
OCIMutates(z, op, r) == op = "create" \/ ~IsPatched(z, r.refs[1])
OCIByIP(z, op, r) == op = "update" /\ IsPatchedClusterIP(z, r.refs[1])
OCIAsked(u) == IF HasDigest(u) THEN [u EXCEPT !.id = <<>>] ELSE u
OCITag(semver, u, new) == IF semver \/ HasDigest(u) THEN u.id ELSE ParseImageRef(new).id
OCINew(u, new, tag) == [new EXCEPT !.id = tag, !.digest = u.digest]

LEMMA OCIBecomes ==
    ASSUME NEW z, NEW op, NEW isChart, NEW r, IsResource(r), r.kind = "oci",
           NEW m, m = mutateOCIRepo(z, op, r, isChart)
    PROVE  LET u == r.refs[1]
               new == OCIRepoRef(z, OCIAsked(u), OCIByIP(z, op, r), isChart) IN
           /\ Alike(r, m.res)
           /\ m.res.refs = IF OCIMutates(z, op, r) THEN <<OCINew(u, new, OCITag(r.semver, u, new))>>
                           ELSE r.refs
<1> DEFINE u == r.refs[1]
           mutate == op = "create" \/ ~IsPatched(z, u)
           byIP == op = "update" /\ IsPatchedClusterIP(z, u)
           w == IF u.digest # "" THEN [u EXCEPT !.id = <<>>] ELSE u
           new == OCIRepoRef(z, w, byIP, isChart)
           tag == IF r.semver \/ u.digest # "" THEN u.id ELSE ParseImageRef(new).id
           v == [new EXCEPT !.id = tag, !.digest = u.digest]
           q == IF mutate THEN [r EXCEPT !.refs = <<v>>] ELSE r
           s2 == Access(z, mutate /\ z.mtls, q)
           s == Label(s2)
<1>0. IsRecord(r)
  BY ResourceFacts
<1>1. m = Result(s)
  BY Zenon DEF mutateOCIRepo
<1>2. v = OCINew(u, OCIRepoRef(z, OCIAsked(u), OCIByIP(z, op, r), isChart),
              OCITag(r.semver, u, OCIRepoRef(z, OCIAsked(u), OCIByIP(z, op, r), isChart)))
  BY Zenon DEF OCINew, OCIAsked, OCIByIP, OCITag, HasDigest
<1> HIDE DEF s, s2, q, v, u, w, new, tag
<1>3. IsRecord(q) /\ Alike(r, q) /\ q.refs = IF mutate THEN <<v>> ELSE r.refs
  <2>1. CASE mutate
    <3>1. q = [r EXCEPT !.refs = <<v>>]
      BY <2>1, Zenon DEF q
    <3>2. IsRecord(q) /\ Alike(r, q) /\ q.refs = <<v>>
      <4> HIDE DEF mutate
      <4> QED BY <1>0, <3>1, RefsSet
    <3> QED BY <2>1, <3>2, Zenon
  <2>2. CASE ~mutate
    <3>1. q = r
      BY <2>2, Zenon DEF q
    <3> QED BY <1>0, <2>2, <3>1, Zenon DEF Alike
  <2> QED BY <2>1, <2>2, Zenon
<1> HIDE DEF mutate
<1>4. IsRecord(s2) /\ Alike(r, s2) /\ s2.refs = q.refs
  <2>1. PICK mtls : mtls = (mutate /\ z.mtls)
    OBVIOUS
  <2>2. s2 = Access(z, mtls, q)
    BY <2>1, Zenon DEF s2
  <2>3. IsRecord(q)
    BY <1>3, Zenon
  <2>4. LET a == Access(z, mtls, q) IN
        IsRecord(a) /\ a.kind = q.kind /\ a.refs = q.refs /\ a.semver = q.semver /\ a.type = q.type
    <3> HIDE <2>1
    <3> QED BY <2>3, AccessFacts
  <2> QED BY <1>3, <2>2, <2>4, Zenon DEF Alike
<1>5. Alike(r, s) /\ s.refs = q.refs
  <2>1. IsRecord(s2)
    BY <1>4, Zenon
  <2>2. LET a == Label(s2) IN
        a.kind = s2.kind /\ a.refs = s2.refs /\ a.semver = s2.semver /\ a.type = s2.type
    BY <2>1, LabelFacts, Zenon
  <2> QED BY <1>4, <2>2, Zenon DEF s, Alike
<1>6. m.res = s
  BY <1>1, ResultFacts, Zenon
<1> QED BY <1>2, <1>3, <1>5, <1>6, Zenon DEF OCIMutates, mutate, u

LEMMA AppBecomes ==
    ASSUME NEW z, NEW r, IsResource(r), NEW m, m = mutateApplication(z, r), m.ok
    PROVE  \/ m.res = r /\ ~ServiceUsable(z, GeneratorURLs(r))
           \/ /\ Alike(r, m.res)
              /\ m.res.refs = [i \in DOMAIN r.refs |->
                    IF r.refs[i].scheme = "none" THEN r.refs[i] ELSE getPatchedRepoURL(z, r.refs[i])]
              /\ \A i \in DOMAIN r.refs : r.refs[i].scheme # "none" => CanBePatched(z, r.refs[i])
<1> DEFINE urls == GeneratorURLs(r)
           new == [i \in DOMAIN r.refs |->
                    IF r.refs[i].scheme = "none" THEN r.refs[i] ELSE getPatchedRepoURL(z, r.refs[i])]
<1>0. IsRecord(r)
  BY ResourceFacts
<1>1. CASE ~ServiceUsable(z, urls)
  BY <1>1, ResultFacts, Zenon DEF mutateApplication
<1>2. CASE ServiceUsable(z, urls) /\ \E i \in DOMAIN urls : ~CanBePatched(z, urls[i])
  BY <1>2, ResultFacts, Zenon DEF mutateApplication
<1>3. CASE ServiceUsable(z, urls) /\ ~(\E i \in DOMAIN urls : ~CanBePatched(z, urls[i]))
  <2> HIDE DEF new
  <2> DEFINE s == Label([r EXCEPT !.refs = new])
  <2>1. Alike(r, s) /\ s.refs = new
    <3>1. LET q == Label([r EXCEPT !.refs = new]) IN Alike(r, q) /\ q.refs = new
      BY <1>0, LabelledRefs, Zenon
    <3> QED BY <3>1, Zenon
  <2>2. m = Result(s)
    BY <1>3, Zenon DEF mutateApplication, new
  <2> HIDE DEF s
  <2>3. m.res = s
    BY <2>2, ResultFacts, Zenon
  <2>4. ASSUME NEW i \in DOMAIN r.refs, r.refs[i].scheme # "none" PROVE CanBePatched(z, r.refs[i])
    <3>1. i \in DOMAIN urls /\ urls[i] = r.refs[i]
      BY <2>4 DEF GeneratorURLs
    <3> QED BY <1>3, <3>1, Zenon
  <2> QED BY <2>1, <2>3, <2>4, Zenon DEF new
<1> QED BY <1>1, <1>2, <1>3, Zenon

LEMMA ProjectBecomes ==
    ASSUME NEW z, NEW r, IsResource(r), NEW m, m = mutateAppProject(z, r)
    PROVE  \/ m.res = r /\ ~ServiceUsable(z, r.refs)
           \/ /\ Alike(r, m.res)
              /\ m.res.refs = [i \in DOMAIN r.refs |->
                    IF CanBePatched(z, r.refs[i]) THEN getPatchedRepoURL(z, r.refs[i]) ELSE r.refs[i]]
<1> DEFINE new == [i \in DOMAIN r.refs |->
                    IF CanBePatched(z, r.refs[i]) THEN getPatchedRepoURL(z, r.refs[i]) ELSE r.refs[i]]
<1>0. IsRecord(r)
  BY ResourceFacts
<1>1. CASE ~ServiceUsable(z, r.refs)
  BY <1>1, ResultFacts, Zenon DEF mutateAppProject
<1>2. CASE ServiceUsable(z, r.refs)
  <2> HIDE DEF new
  <2> DEFINE s == Label([r EXCEPT !.refs = new])
  <2>1. Alike(r, s) /\ s.refs = new
    <3>1. LET q == Label([r EXCEPT !.refs = new]) IN Alike(r, q) /\ q.refs = new
      BY <1>0, LabelledRefs, Zenon
    <3> QED BY <3>1, Zenon
  <2>2. m = Result(s)
    BY <1>2, Zenon DEF mutateAppProject, new
  <2> HIDE DEF s
  <2>3. m.res = s
    BY <2>2, ResultFacts, Zenon
  <2> QED BY <2>1, <2>3, Zenon DEF new
<1> QED BY <1>1, <1>2, Zenon

LEMMA SecretBecomes ==
    ASSUME NEW z, NEW r, IsResource(r), NEW m, m = mutateRepositorySecret(z, r), m.ok
    PROVE  /\ r.refs # <<>>
           /\ \/ m.res = r /\ ~ServiceUsable(z, r.refs)
              \/ /\ Alike(r, m.res) /\ CanBePatched(z, r.refs[1])
                 /\ m.res.refs = <<getPatchedRepoURL(z, r.refs[1])>>
<1> DEFINE u == r.refs[1]
           oci == u.scheme = "oci"
           v == getPatchedRepoURL(z, u)
<1>0. IsRecord(r)
  BY ResourceFacts
<1>1. CASE r.refs = <<>>
  BY <1>1, ResultFacts, Zenon DEF mutateRepositorySecret
<1>2. CASE r.refs # <<>> /\ ~ServiceUsable(z, r.refs)
  BY <1>2, ResultFacts, Zenon DEF mutateRepositorySecret
<1>3. CASE r.refs # <<>> /\ ServiceUsable(z, r.refs) /\ ~CanBePatched(z, u)
  BY <1>3, ResultFacts, Zenon DEF mutateRepositorySecret
<1>4. CASE r.refs # <<>> /\ ServiceUsable(z, r.refs) /\ CanBePatched(z, u)
  <2> DEFINE creds == getCreds(z, u)
             s1 == [r EXCEPT !.refs = <<v>>]
             i2 == oci /\ IsInternal(z) /\ ~z.mtls
             i3 == oci /\ z.mtls
  <2> HIDE DEF v, creds, i2, i3
  <2>1. IsRecord(s1) /\ Alike(r, s1) /\ s1.refs = <<v>>
    BY <1>0, RefsSet
  <2> HIDE DEF s1
  <2> DEFINE s2 == [s1 EXCEPT !.creds = creds]
  <2>2. IsRecord(s2) /\ Alike(r, s2) /\ s2.refs = <<v>>
    BY <2>1, SetField, FieldNames DEF Alike
  <2> HIDE DEF s2
  <2> DEFINE insecure == s2.insecure \/ i2
             s3 == [s2 EXCEPT !.insecure = insecure]
  <2> HIDE DEF insecure
  <2>3. IsRecord(s3) /\ Alike(r, s3) /\ s3.refs = <<v>>
    BY <2>2, SetField, FieldNames DEF Alike
  <2> HIDE DEF s3
  <2> DEFINE cert == s3.cert \/ i3
             s4 == [s3 EXCEPT !.cert = cert]
  <2> HIDE DEF cert
  <2>4. IsRecord(s4) /\ Alike(r, s4) /\ s4.refs = <<v>>
    BY <2>3, SetField, FieldNames DEF Alike
  <2> HIDE DEF s4
  <2> DEFINE s == Label(s4)
  <2>5. Alike(r, s) /\ s.refs = <<v>>
    BY <2>4, LabelFacts DEF Alike
  <2> HIDE DEF s
  <2>6. m = Result(s)
    BY <1>4, Zenon DEF mutateRepositorySecret, s, s4, cert, i3, s3, insecure, i2, s2, s1, v, creds
  <2>7. m.res = s
    BY <2>6, ResultFacts, Zenon
  <2> QED BY <1>4, <2>5, <2>7, Zenon DEF v
<1> QED BY <1>1, <1>2, <1>3, <1>4, Zenon

-----------------------------------------------------------------------------
(* URLs lead to what their author named.                                   *)

\* What an author may write as a URL.
Authored(u) ==
    /\ IsRef(u) /\ u.id \in Seq(Word)
    /\ u.scheme \in {"oci", "git"} => Elsewhere(u)
    /\ \A z \in States : z.git = NoHost \/ ~DoHostnamesMatch(z.git, u.host)

URLFound(z, u, v) ==
    IF u.scheme = "oci" THEN z.address = NoHost \/ ChartAt(z, v)
    ELSE IF u.scheme = "git" THEN z.git = NoHost \/ RepoAt(z, u, v)
    ELSE v = u

LEMMA URLFoundIsFound ==
    ASSUME NEW z, NEW r, r.kind \notin {"pod", "oci"}, NEW u, NEW v, URLFound(z, u, v)
    PROVE  Found(z, r, u, v)
BY DEF URLFound, Found

LEMMA URLScheme ==
    ASSUME NEW z, NEW u, NEW v, URLStands(z, u, v)
    PROVE  v.scheme = u.scheme
BY DEF URLStands

\* Where no service can be used, nothing need be found.
LEMMA NoService ==
    ASSUME NEW z, NEW u, NEW v, URLStands(z, u, v),
           IF v.scheme = "oci" THEN z.address = NoHost ELSE z.git = NoHost
    PROVE  URLFound(z, u, v)
BY DEF URLStands, URLFound

LEMMA ChartURLLeads ==
    ASSUME NEW z \in States, NEW u, Authored(u), u.scheme = "oci", NEW v, URLStands(z, u, v)
    PROVE  LET w == PatchedOCIName(z, v) IN w.scheme = "oci" /\ ChartAt(z, w)
<1>1. CASE v = u
  BY <1>1, ChartLeads DEF Authored, ChartAt
<1>2. CASE v.scheme = "oci" /\ ChartAt(z, v)
  <2>1. PatchedOCIName(z, v) = v
    BY <1>2 DEF PatchedOCIName, IsPatched, DoHostnamesMatch, ChartAt
  <2> QED BY <1>2, <2>1
<1> QED BY <1>1, <1>2 DEF URLStands

LEMMA URLLeads ==
    ASSUME NEW z \in States, NEW u, Authored(u), NEW v, URLStands(z, u, v)
    PROVE  /\ CanBePatched(z, v) => /\ URLStands(z, u, getPatchedRepoURL(z, v))
                                    /\ URLFound(z, u, getPatchedRepoURL(z, v))
           /\ ~CanBePatched(z, v) => URLFound(z, u, v)
<1> DEFINE w == getPatchedRepoURL(z, v)
<1>0. v.scheme = u.scheme
  BY URLScheme
<1>1. CASE u.scheme = "oci"
  <2>1. CASE z.address = NoHost
    <3>1. w = v
      BY <1>0, <1>1, <2>1 DEF getPatchedRepoURL
    <3> QED BY <1>0, <1>1, <2>1, <3>1 DEF URLFound, CanBePatched
  <2>2. CASE z.address # NoHost
    <3>1. w = PatchedOCIName(z, v)
      BY <1>0, <1>1, <2>2 DEF getPatchedRepoURL
    <3>2. w.scheme = "oci" /\ ChartAt(z, w)
      BY <1>1, <3>1, ChartURLLeads
    <3> HIDE DEF w
    <3>3. URLStands(z, u, w) /\ URLFound(z, u, w) /\ CanBePatched(z, v)
      BY <1>0, <1>1, <3>2 DEF URLStands, URLFound, CanBePatched
    <3> QED BY <3>3 DEF w
  <2> QED BY <2>1, <2>2
<1>2. CASE u.scheme # "oci" /\ z.git = NoHost
  <2>1. w = v /\ CanBePatched(z, v)
    BY <1>0, <1>2 DEF getPatchedRepoURL, CanBePatched
  <2>2. URLFound(z, u, v)
    BY <1>0, <1>2, NoService
  <2> QED BY <2>1, <2>2
<1>3. CASE u.scheme # "oci" /\ z.git # NoHost /\ DoHostnamesMatch(z.git, v.host)
  <2>1. w = v /\ CanBePatched(z, v)
    BY <1>0, <1>3 DEF getPatchedRepoURL, CanBePatched
  <2>2. v # u
    BY <1>3 DEF Authored
  <2>3. URLFound(z, u, v)
    BY <1>3, <2>2 DEF URLStands, URLFound
  <2> QED BY <2>1, <2>3
<1>4. CASE u.scheme # "oci" /\ z.git # NoHost /\ ~DoHostnamesMatch(z.git, v.host)
  <2>1. v = u
    BY <1>4 DEF URLStands, RepoAt, DoHostnamesMatch
  <2>2. CASE IsGitURL(v)
    <3>1. w = GitURL(z.git, u, z.gitUser)
      BY <1>4, <2>1 DEF getPatchedRepoURL
    <3>2. RepoAt(z, u, w) /\ w.scheme = u.scheme
      <4>1. PICK base, user : base = z.git /\ user = z.gitUser
        OBVIOUS
      <4>2. LET x == GitURL(base, u, user) IN
            x.host = base /\ x.id = u.id \o <<u.host>> /\ x.user = user /\ x.scheme = u.scheme
        BY RepoLeads DEF Authored
      <4> HIDE DEF w
      <4> QED BY <3>1, <4>1, <4>2, Zenon DEF RepoAt
    <3> HIDE DEF w
    <3>3. URLStands(z, u, w) /\ URLFound(z, u, w) /\ CanBePatched(z, v)
      BY <1>4, <2>1, <2>2, <3>2 DEF URLStands, URLFound, CanBePatched, IsGitURL
    <3> QED BY <3>3 DEF w
  <2>3. CASE ~IsGitURL(v)
    <3>1. ~CanBePatched(z, v)
      BY <1>0, <1>4, <2>3 DEF CanBePatched
    <3>2. URLFound(z, u, v)
      BY <1>0, <1>4, <2>1, <2>3 DEF URLFound, IsGitURL
    <3> QED BY <3>1, <3>2
  <2> QED BY <2>2, <2>3
<1> QED BY <1>1, <1>2, <1>3, <1>4, Zenon

-----------------------------------------------------------------------------
(* Every hook leads to what the author named.                              *)

LEMMA AuthoredFacts ==
    ASSUME HostsApart, AuthoredElsewhere, NEW n \in Names, NEW i \in DOMAIN Manifest[n].refs
    PROVE  LET m == Manifest[n]
               u == m.refs[i] IN
           /\ IsRef(u) /\ u.id \in Seq(Word)
           /\ m.kind \in {"pod", "oci"} => Elsewhere(u)
           /\ m.kind \notin {"pod", "oci"} => Authored(u)
<1> DEFINE m == Manifest[n]
           u == m.refs[i]
<1>1. IsRef(u)
  BY WrittenFacts DEF IsResource
<1>2. /\ u.id \in Seq(Word)
      /\ m.kind \in {"pod", "oci"} \/ u.scheme \in {"oci", "git"} => Elsewhere(u)
      /\ \A z \in States : z.git = NoHost \/ ~DoHostnamesMatch(z.git, u.host)
  BY Zenon DEF AuthoredElsewhere
<1> HIDE DEF u
<1> QED BY <1>1, <1>2, Zenon DEF Authored, u

\* s, which a hook has made of r, goes back to m, and what it names is there.
Led(z, m, r, s) == Origin(z, m, s) /\ (~(r.kind = "pod" /\ r.patched) => AllFound(z, m, s))

LEMMA OneRefOnly ==
    ASSUME NEW r, NEW u, r.refs = <<u>>
    PROVE  DOMAIN r.refs = {1} /\ r.refs[1] = u
OBVIOUS

LEMMA URLsLed ==
    ASSUME NEW z, NEW m, NEW r, Origin(z, m, r), r.kind \notin {"pod", "oci"}, NEW s, Alike(r, s),
           DOMAIN s.refs \subseteq DOMAIN r.refs,
           \A i \in DOMAIN s.refs : URLStands(z, m.refs[i], s.refs[i]) /\ Found(z, s, m.refs[i], s.refs[i])
    PROVE  Led(z, m, r, s)
<1>1. AllFound(z, m, s)
  BY DEF AllFound
<1>2. Origin(z, m, s)
  BY DEF Origin, Alike
<1> QED BY <1>1, <1>2, Zenon DEF Led

\* Where nothing is done because no service can be used.
LEMMA UnusedLed ==
    ASSUME NEW z, NEW m, NEW r, Origin(z, m, r), r.kind \notin {"pod", "oci"},
           \A i \in DOMAIN r.refs : r.refs[i].scheme = "none"
              \/ IF r.refs[i].scheme = "oci" THEN z.address = NoHost ELSE z.git = NoHost
    PROVE  Led(z, m, r, r)
<1>1. \A i \in DOMAIN r.refs : URLStands(z, m.refs[i], r.refs[i])
  BY DEF Origin
<1>2. ASSUME NEW i \in DOMAIN r.refs PROVE Found(z, r, m.refs[i], r.refs[i])
  <2>1. URLFound(z, m.refs[i], r.refs[i])
    <3>1. CASE r.refs[i].scheme = "none"
      BY <1>1, <3>1 DEF URLStands, URLFound
    <3>2. CASE r.refs[i].scheme # "none"
      BY <1>1, <3>2, NoService
    <3> QED BY <3>1, <3>2
  <2> QED BY <2>1, URLFoundIsFound
<1>3. Alike(r, r)
  BY DEF Alike
<1> QED BY <1>1, <1>2, <1>3, URLsLed

\* A URL of a resource, and the one that its author wrote.
LEMMA OriginURL ==
    ASSUME HostsApart, AuthoredElsewhere, NEW z \in States, NEW n \in Names, NEW r,
           Origin(z, Manifest[n], r), r.kind \notin {"pod", "oci"}, NEW i \in DOMAIN r.refs
    PROVE  Authored(Manifest[n].refs[i]) /\ URLStands(z, Manifest[n].refs[i], r.refs[i])
<1>1. i \in DOMAIN Manifest[n].refs /\ Manifest[n].kind \notin {"pod", "oci"}
      /\ URLStands(z, Manifest[n].refs[i], r.refs[i])
  BY DEF Origin
<1> QED BY <1>1, AuthoredFacts

\* A URL that is patched.
LEMMA PatchedURLLeads ==
    ASSUME HostsApart, AuthoredElsewhere, NEW z \in States, NEW n \in Names, NEW r,
           Origin(z, Manifest[n], r), r.kind \notin {"pod", "oci"}, NEW i \in DOMAIN r.refs,
           CanBePatched(z, r.refs[i]), NEW s, Alike(r, s), NEW w, w = getPatchedRepoURL(z, r.refs[i])
    PROVE  URLStands(z, Manifest[n].refs[i], w) /\ Found(z, s, Manifest[n].refs[i], w)
<1>1. Authored(Manifest[n].refs[i]) /\ URLStands(z, Manifest[n].refs[i], r.refs[i])
  BY OriginURL
<1>2. URLStands(z, Manifest[n].refs[i], w) /\ URLFound(z, Manifest[n].refs[i], w)
  BY <1>1, URLLeads
<1>3. s.kind \notin {"pod", "oci"}
  BY DEF Alike
<1> QED BY <1>2, <1>3, URLFoundIsFound

LEMMA GitLed ==
    ASSUME HostsApart, AuthoredElsewhere, NEW z \in States, NEW n \in Names, NEW r, IsResource(r),
           Origin(z, Manifest[n], r), r.kind = "git", NEW m, m = mutateGitRepo(z, r), m.ok
    PROVE  Led(z, Manifest[n], r, m.res)
<1> DEFINE v == r.refs[1]
           u == Manifest[n].refs[1]
<1>1. r.refs = <<v>> /\ DOMAIN r.refs = {1}
  BY OneRefOnly DEF IsResource
<1>2. Authored(u) /\ URLStands(z, u, v)
  BY <1>1, OriginURL
<1>3. u.scheme # "oci" /\ v.scheme # "oci"
  <2>1. u.scheme # "oci"
    BY DEF Origin, AuthoredElsewhere
  <2> QED BY <1>2, <2>1, URLScheme
<1>4. CASE z.git = NoHost /\ m.res = r
  BY <1>1, <1>3, <1>4, UnusedLed
<1>5. CASE /\ z.git # NoHost /\ Alike(r, m.res)
           /\ m.res.refs = <<IF DoHostnamesMatch(z.git, v.host) THEN v ELSE GitURL(z.git, v, z.gitUser)>>
           /\ DoHostnamesMatch(z.git, v.host) \/ IsGitURL(v)
  <2> DEFINE w == getPatchedRepoURL(z, v)
  <2>1. CanBePatched(z, v)
    BY <1>5 DEF CanBePatched
  <2>2. m.res.refs = <<w>>
    BY <1>3, <1>5, Zenon DEF getPatchedRepoURL
  <2>3. URLStands(z, u, w) /\ Found(z, m.res, u, w)
    BY <1>1, <1>5, <2>1, PatchedURLLeads
  <2> HIDE DEF w
  <2>4. DOMAIN m.res.refs = {1} /\ m.res.refs[1] = w
    BY <2>2, OneRefOnly
  <2>5. \A i \in DOMAIN m.res.refs :
          URLStands(z, Manifest[n].refs[i], m.res.refs[i]) /\ Found(z, m.res, Manifest[n].refs[i], m.res.refs[i])
    BY <2>3, <2>4
  <2> QED BY <1>1, <1>5, <2>4, <2>5, URLsLed
<1> QED BY <1>4, <1>5, GitBecomes

LEMMA HelmLed ==
    ASSUME HostsApart, AuthoredElsewhere, NEW z \in States, NEW n \in Names, NEW r, IsResource(r),
           Origin(z, Manifest[n], r), r.kind = "helm", NEW m, m = mutateHelmRepo(z, r)
    PROVE  Led(z, Manifest[n], r, m.res)
<1> DEFINE v == r.refs[1]
           u == Manifest[n].refs[1]
<1>1. r.refs = <<v>> /\ DOMAIN r.refs = {1}
  BY OneRefOnly DEF IsResource
<1>2. Authored(u) /\ URLStands(z, u, v)
  BY <1>1, OriginURL
<1>3. u.scheme = "oci"
  BY DEF Origin, AuthoredElsewhere
<1>4. CASE r.type # "oci" /\ m.res = r
  <2>1. Found(z, r, u, v)
    BY <1>3, <1>4 DEF Found
  <2>2. Alike(r, r)
    BY DEF Alike
  <2> QED BY <1>1, <1>2, <1>4, <2>1, <2>2, URLsLed
<1>5. CASE r.type = "oci" /\ Alike(r, m.res) /\ m.res.refs = <<PatchedOCIName(z, v)>>
  <2> DEFINE w == PatchedOCIName(z, v)
  <2>1. w.scheme = "oci" /\ ChartAt(z, w)
    BY <1>2, <1>3, ChartURLLeads
  <2>2. m.res.refs = <<w>>
    BY <1>5
  <2> HIDE DEF w
  <2>3. URLStands(z, u, w) /\ Found(z, m.res, u, w)
    BY <1>3, <1>5, <2>1 DEF URLStands, Found, Alike
  <2>4. DOMAIN m.res.refs = {1} /\ m.res.refs[1] = w
    BY <2>2, OneRefOnly
  <2>5. \A i \in DOMAIN m.res.refs :
          URLStands(z, Manifest[n].refs[i], m.res.refs[i]) /\ Found(z, m.res, Manifest[n].refs[i], m.res.refs[i])
    BY <2>3, <2>4
  <2> QED BY <1>1, <1>5, <2>4, <2>5, URLsLed
<1> QED BY <1>4, <1>5, HelmBecomes

LEMMA AppLed ==
    ASSUME HostsApart, AuthoredElsewhere, NEW z \in States, NEW n \in Names, NEW r, IsResource(r),
           Origin(z, Manifest[n], r), r.kind = "app", NEW m, m = mutateApplication(z, r), m.ok
    PROVE  Led(z, Manifest[n], r, m.res)
<1>1. CASE m.res = r /\ ~ServiceUsable(z, GeneratorURLs(r))
  <2>1. ASSUME NEW i \in DOMAIN r.refs, r.refs[i].scheme # "none"
        PROVE  IF r.refs[i].scheme = "oci" THEN z.address = NoHost ELSE z.git = NoHost
    <3>1. i \in DOMAIN GeneratorURLs(r) /\ GeneratorURLs(r)[i] = r.refs[i]
      BY <2>1 DEF GeneratorURLs
    <3> QED BY <1>1, <3>1 DEF ServiceUsable
  <2> QED BY <1>1, <2>1, UnusedLed
<1>2. CASE /\ Alike(r, m.res)
           /\ m.res.refs = [i \in DOMAIN r.refs |->
                 IF r.refs[i].scheme = "none" THEN r.refs[i] ELSE getPatchedRepoURL(z, r.refs[i])]
           /\ \A i \in DOMAIN r.refs : r.refs[i].scheme # "none" => CanBePatched(z, r.refs[i])
  <2>1. DOMAIN m.res.refs = DOMAIN r.refs
    BY <1>2
  <2>2. ASSUME NEW i \in DOMAIN r.refs
        PROVE  /\ URLStands(z, Manifest[n].refs[i], m.res.refs[i])
               /\ Found(z, m.res, Manifest[n].refs[i], m.res.refs[i])
    <3>1. CASE r.refs[i].scheme # "none"
      <4>1. m.res.refs[i] = getPatchedRepoURL(z, r.refs[i])
        BY <1>2, <3>1
      <4> QED BY <1>2, <3>1, <4>1, PatchedURLLeads
    <3>2. CASE r.refs[i].scheme = "none"
      <4>1. m.res.refs[i] = r.refs[i]
        BY <1>2, <3>2
      <4>2. URLStands(z, Manifest[n].refs[i], r.refs[i])
        BY OriginURL
      <4>3. URLFound(z, Manifest[n].refs[i], r.refs[i])
        BY <3>2, <4>2 DEF URLStands, URLFound
      <4>4. m.res.kind \notin {"pod", "oci"}
        BY <1>2 DEF Alike
      <4> QED BY <4>1, <4>2, <4>3, <4>4, URLFoundIsFound
    <3> QED BY <3>1, <3>2
  <2> QED BY <1>2, <2>1, <2>2, URLsLed
<1> QED BY <1>1, <1>2, AppBecomes

LEMMA ProjectLed ==
    ASSUME HostsApart, AuthoredElsewhere, NEW z \in States, NEW n \in Names, NEW r, IsResource(r),
           Origin(z, Manifest[n], r), r.kind = "project", NEW m, m = mutateAppProject(z, r)
    PROVE  Led(z, Manifest[n], r, m.res)
<1>1. CASE m.res = r /\ ~ServiceUsable(z, r.refs)
  BY <1>1, UnusedLed DEF ServiceUsable
<1>2. CASE /\ Alike(r, m.res)
           /\ m.res.refs = [i \in DOMAIN r.refs |->
                 IF CanBePatched(z, r.refs[i]) THEN getPatchedRepoURL(z, r.refs[i]) ELSE r.refs[i]]
  <2>1. DOMAIN m.res.refs = DOMAIN r.refs
    BY <1>2
  <2>2. ASSUME NEW i \in DOMAIN r.refs
        PROVE  /\ URLStands(z, Manifest[n].refs[i], m.res.refs[i])
               /\ Found(z, m.res, Manifest[n].refs[i], m.res.refs[i])
    <3>1. CASE CanBePatched(z, r.refs[i])
      <4>1. m.res.refs[i] = getPatchedRepoURL(z, r.refs[i])
        BY <1>2, <3>1
      <4> QED BY <1>2, <3>1, <4>1, PatchedURLLeads
    <3>2. CASE ~CanBePatched(z, r.refs[i])
      <4>1. m.res.refs[i] = r.refs[i]
        BY <1>2, <3>2
      <4>2. Authored(Manifest[n].refs[i]) /\ URLStands(z, Manifest[n].refs[i], r.refs[i])
        BY OriginURL
      <4>3. URLFound(z, Manifest[n].refs[i], r.refs[i])
        BY <3>2, <4>2, URLLeads
      <4>4. m.res.kind \notin {"pod", "oci"}
        BY <1>2 DEF Alike
      <4> QED BY <4>1, <4>2, <4>3, <4>4, URLFoundIsFound
    <3> QED BY <3>1, <3>2
  <2> QED BY <1>2, <2>1, <2>2, URLsLed
<1> QED BY <1>1, <1>2, ProjectBecomes

LEMMA SecretLed ==
    ASSUME HostsApart, AuthoredElsewhere, NEW z \in States, NEW n \in Names, NEW r, IsResource(r),
           Origin(z, Manifest[n], r), r.kind \notin {"pod", "git", "helm", "oci", "app", "project"},
           NEW m, m = mutateRepositorySecret(z, r), m.ok
    PROVE  Led(z, Manifest[n], r, m.res)
<1> DEFINE v == r.refs[1]
           u == Manifest[n].refs[1]
           w == getPatchedRepoURL(z, v)
<1>1. 1 \in DOMAIN r.refs
  BY SecretBecomes DEF IsResource
<1>2. CASE m.res = r /\ ~ServiceUsable(z, r.refs)
  BY <1>2, UnusedLed DEF ServiceUsable
<1>3. CASE Alike(r, m.res) /\ CanBePatched(z, v) /\ m.res.refs = <<w>>
  <2>1. URLStands(z, u, w) /\ Found(z, m.res, u, w)
    BY <1>1, <1>3, PatchedURLLeads
  <2> HIDE DEF w
  <2>2. DOMAIN m.res.refs = {1} /\ m.res.refs[1] = w
    BY <1>3, OneRefOnly
  <2>3. \A i \in DOMAIN m.res.refs :
          URLStands(z, Manifest[n].refs[i], m.res.refs[i]) /\ Found(z, m.res, Manifest[n].refs[i], m.res.refs[i])
    BY <2>1, <2>2
  <2> QED BY <1>1, <1>3, <2>2, <2>3, URLsLed
<1> QED BY <1>2, <1>3, SecretBecomes

LEMMA PodLed ==
    ASSUME HostsApart, AuthoredElsewhere, NEW z \in States, NEW n \in Names, NEW r, IsResource(r),
           Origin(z, Manifest[n], r), r.kind = "pod", NEW m, m = mutatePod(z, r)
    PROVE  Led(z, Manifest[n], r, m.res)
<1> DEFINE M == Manifest[n]
           s == m.res
<1>0. /\ r.kind = M.kind /\ r.semver = M.semver /\ r.type = M.type
      /\ DOMAIN r.refs \subseteq DOMAIN M.refs /\ PodStands(M, r)
  BY DEF Origin
<1>1. CASE r.patched /\ s = r
  BY <1>1, Zenon DEF Led
<1>2. CASE /\ ~r.patched /\ Alike(r, s) /\ s.patched /\ s.ephemeral = r.ephemeral
           /\ s.refs = [i \in DOMAIN r.refs |-> ImageTransformHost(z.address, r.refs[i])]
  <2> HIDE DEF s
  <2>1. \E S : s.ephemeral \in Seq(S)
    BY <1>0, <1>2, Zenon DEF PodStands
  <2>2. \A i \in DOMAIN r.refs : r.refs[i] = M.refs[i]
    BY <1>0, <1>2, Zenon DEF PodStands
  <2>3. DOMAIN s.refs = DOMAIN r.refs
    BY <1>2
  <2>4. ASSUME NEW i \in DOMAIN s.refs
        PROVE  /\ s.refs[i] = ImageTransformHost(z.address, M.refs[i])
               /\ ImageIsThere(z.address, M.refs[i], s.refs[i])
    <3>1. s.refs[i] = ImageTransformHost(z.address, M.refs[i])
      BY <1>2, <2>2, <2>3
    <3>2. i \in DOMAIN M.refs /\ M.kind = "pod"
      BY <1>0, <2>3
    <3>3. IsRef(M.refs[i]) /\ M.refs[i].id \in Seq(Word) /\ Elsewhere(M.refs[i])
      BY <3>2, AuthoredFacts
    <3>4. ~DoHostnamesMatch(z.address, M.refs[i].host)
      BY <3>3, Zenon DEF Elsewhere
    <3> QED BY <3>1, <3>3, <3>4, ImagesAreThere
  <2>5. PodStands(M, s)
    BY <1>2, <2>1, <2>4, Zenon DEF PodStands
  <2>6. s.kind = "pod"
    BY <1>2, Zenon DEF Alike
  <2>7. Origin(z, M, s)
    BY <1>0, <1>2, <2>3, <2>5, <2>6, Zenon DEF Origin, Alike
  <2>8. AllFound(z, M, s)
    BY <2>4, <2>6, Zenon DEF AllFound, Found
  <2> QED BY <2>7, <2>8, Zenon DEF Led, s
<1> QED BY <1>1, <1>2, PodBecomes

LEMMA ParseKeeps ==
    ASSUME NEW u, u.id # <<>>
    PROVE  ParseImageRef(u) = u
BY Zenon DEF ParseImageRef

LEMMA ImageThere ==
    ASSUME NEW h, NEW u, NEW v
    PROVE  ImageIsThere(h, u, v) <=>
              /\ v.host = h /\ v.digest = u.digest
              /\ ~HasDigest(u) => v.id \in {Tag(u), Tag(u) \o <<u.host>>}
BY Zenon DEF ImageIsThere, Tag, HasDigest

\* Where the reference of an OCIRepository is found.
OCIAt(z, semver, u, v) ==
    IF semver THEN ChartAt(z, v) ELSE ImageIsThere(RegistryAddress(z), u, v)

LEMMA AskedFacts ==
    ASSUME NEW u, IsRef(u)
    PROVE  LET w == OCIAsked(u) IN
           /\ IsRef(w) /\ w.scheme = u.scheme /\ w.host = u.host /\ w.digest = u.digest /\ w.user = u.user
           /\ ~HasDigest(u) => w = u
           /\ w.id \in {u.id, <<>>}
BY RefId DEF OCIAsked

LEMMA NewFacts ==
    ASSUME NEW u, NEW new, IsRef(new), NEW tag
    PROVE  LET w == OCINew(u, new, tag) IN
           /\ IsRef(w) /\ w.scheme = new.scheme /\ w.host = new.host /\ w.user = new.user
           /\ w.id = tag /\ w.digest = u.digest
<1> DEFINE w1 == [new EXCEPT !.id = tag]
<1>1. IsRef(w1) /\ w1.scheme = new.scheme /\ w1.host = new.host /\ w1.user = new.user /\ w1.id = tag
  BY RefId
<1> HIDE DEF w1
<1>2. PICK d : d = u.digest
  OBVIOUS
<1> DEFINE w2 == [w1 EXCEPT !.digest = d]
<1>3. /\ IsRef(w2) /\ w2.scheme = new.scheme /\ w2.host = new.host /\ w2.user = new.user /\ w2.id = tag
      /\ w2.digest = d
  BY <1>1, RefDigest
<1> HIDE DEF w2
<1>4. OCINew(u, new, tag) = w2
  BY <1>2, Zenon DEF OCINew, w1, w2
<1> QED BY <1>2, <1>3, <1>4

\* An author's reference, which leads elsewhere.
LEMMA OCIFresh ==
    ASSUME NEW z \in States, NEW semver, NEW u, IsRef(u), u.id \in Seq(Word), Elsewhere(u),
           semver => u.id = <<>>, NEW byIP, NEW isChart, NEW new,
           new = OCIRepoRef(z, OCIAsked(u), byIP, isChart)
    PROVE  OCIAt(z, semver, u, OCINew(u, new, OCITag(semver, u, new)))
<1> DEFINE t == RegistryAddress(z)
           p == OCIAsked(u)
           tag == OCITag(semver, u, new)
           w == OCINew(u, new, tag)
<1>1. /\ IsRef(p) /\ p.host = u.host /\ p.digest = u.digest /\ (~HasDigest(u) => p = u)
      /\ p.id \in {u.id, <<>>}
  BY AskedFacts
<1>2. p.id \in Seq(Word)
  <2>1. <<>> \in Seq(Word)
    OBVIOUS
  <2> QED BY <1>1, <2>1, Zenon
<1>3. new \in {ImageTransformHost(t, p), ImageTransformHostWithoutChecksum(t, p)}
  BY DEF OCIRepoRef
<1>4. ~DoHostnamesMatch(t, p.host)
  BY <1>1, Zenon DEF Elsewhere
<1> HIDE DEF p, t
<1>5. /\ new.host = t /\ new.digest = u.digest /\ IsRef(new)
      /\ ~HasDigest(p) => new.id \in {Tag(p), Tag(p) \o <<p.host>>}
  <2>1. IsRef(new)
    BY <1>1, <1>3, TransformFacts
  <2> QED BY <1>1, <1>2, <1>3, <1>4, <2>1, ImageLeads
<1>6. w.host = t /\ w.digest = u.digest /\ w.id = tag
  BY <1>5, NewFacts
<1> HIDE DEF w
<1>7. CASE semver
  <2>1. tag = <<>>
    BY <1>7 DEF OCITag
  <2> QED BY <1>6, <1>7, <2>1 DEF OCIAt, ChartAt, t, w
<1>8. CASE ~semver /\ HasDigest(u)
  <2>1. ImageIsThere(t, u, w)
    BY <1>6, <1>8, ImageThere
  <2> QED BY <1>8, <2>1 DEF OCIAt, t, w
<1>9. CASE ~semver /\ ~HasDigest(u)
  <2>1. new.id \in {Tag(u), Tag(u) \o <<u.host>>}
    BY <1>1, <1>5, <1>9
  <2>2. new.id # <<>>
    <3>1. Tag(u) \in Seq(Word) /\ Tag(u) # <<>>
      BY TagFacts
    <3> QED BY <2>1, <3>1, Hashed
  <2>3. tag = new.id
    BY <1>9, <2>2, ParseKeeps DEF OCITag
  <2>4. ImageIsThere(t, u, w)
    BY <1>6, <2>1, <2>3, ImageThere
  <2> QED BY <1>9, <2>4 DEF OCIAt, t, w
<1> QED BY <1>7, <1>8, <1>9

\* A reference that leads to the registry stays.
LEMMA OCIStays ==
    ASSUME NEW z, NEW semver, NEW v, IsRef(v), v.host = RegistryAddress(z),
           semver \/ HasDigest(v) \/ v.id # <<>>, NEW byIP, NEW isChart, NEW new,
           new = OCIRepoRef(z, OCIAsked(v), byIP, isChart)
    PROVE  OCINew(v, new, OCITag(semver, v, new)) = v
<1> DEFINE t == RegistryAddress(z)
           p == OCIAsked(v)
           tag == OCITag(semver, v, new)
           w == OCINew(v, new, tag)
<1>1. /\ IsRef(p) /\ p.scheme = v.scheme /\ p.host = v.host /\ p.user = v.user
      /\ ~HasDigest(v) => p = v
  BY AskedFacts
<1>2. HasPrefix(t, p.host)
  BY <1>1 DEF HasPrefix
<1>3. new \in {ImageTransformHost(t, p), ImageTransformHostWithoutChecksum(t, p)}
  BY DEF OCIRepoRef
<1> HIDE DEF p, t
<1>4. new = p
  BY <1>1, <1>2, <1>3, TransformFacts
<1>5. tag = v.id
  BY <1>1, <1>4, ParseKeeps DEF OCITag
<1>6. /\ IsRef(w) /\ w.scheme = v.scheme /\ w.host = v.host /\ w.user = v.user
      /\ w.id = v.id /\ w.digest = v.digest
  BY <1>1, <1>4, <1>5, NewFacts
<1> HIDE DEF w
<1>7. w = v
  BY <1>6, RefSame
<1> QED BY <1>7 DEF w

LEMMA WithoutChecksumKeeps ==
    ASSUME NEW u, IsRef(u), NEW t, ~HasPrefix(t, u.host), ~HasDigest(u), u.id # <<>>
    PROVE  ImageTransformHostWithoutChecksum(t, u).id = u.id
<1> DEFINE u1 == [u EXCEPT !.host = t]
<1>1. IsRef(u1) /\ u1.id = u.id
  BY RefHost
<1>2. ParseImageRef(u) = u
  BY ParseKeeps
<1>3. ImageTransformHostWithoutChecksum(t, u)
        = [u1 EXCEPT !.id = IF HasDigest(u) THEN <<>> ELSE u1.id]
  BY <1>2, Zenon DEF ImageTransformHostWithoutChecksum, HasDigest
<1> HIDE DEF u1
<1>4. ImageTransformHostWithoutChecksum(t, u) = [u1 EXCEPT !.id = u.id]
  BY <1>1, <1>3, Zenon
<1>5. [u1 EXCEPT !.id = u.id].id = u.id
  BY <1>1, RefId
<1> QED BY <1>4, <1>5, Zenon

\* What an earlier version has sent to the service's IP.
LEMMA OCIFromIP ==
    ASSUME NEW z, NEW semver, NEW u, u.id \in Seq(Word), NEW v, IsRef(v), ~IsPatched(z, v),
           semver => v.id = <<>>, ~semver => ImageIsThere(Service.ip, u, v),
           NEW new, new = ImageTransformHostWithoutChecksum(RegistryAddress(z), OCIAsked(v))
    PROVE  OCIAt(z, semver, u, OCINew(v, new, OCITag(semver, v, new)))
<1> DEFINE t == RegistryAddress(z)
           p == OCIAsked(v)
           tag == OCITag(semver, v, new)
           w == OCINew(v, new, tag)
<1>1. IsRef(p) /\ p.host = v.host /\ p.digest = v.digest /\ (~HasDigest(v) => p = v)
  BY AskedFacts
<1>2. new = ImageTransformHostWithoutChecksum(t, p)
  OBVIOUS
<1>3. ~HasPrefix(t, p.host)
  BY <1>1 DEF HasPrefix, IsPatched, DoHostnamesMatch
<1> HIDE DEF p, t
<1>4. new.host = t /\ new.digest = v.digest /\ IsRef(new)
  <2>1. new \in {ImageTransformHost(t, p), ImageTransformHostWithoutChecksum(t, p)}
    BY <1>2
  <2> QED BY <1>1, <1>3, <2>1, TransformFacts
<1>5. w.host = t /\ w.digest = v.digest /\ w.id = tag
  BY <1>4, NewFacts
<1> HIDE DEF w
<1>6. CASE semver
  <2>1. tag = <<>>
    BY <1>6 DEF OCITag
  <2> QED BY <1>5, <1>6, <2>1 DEF OCIAt, ChartAt, t, w
<1>7. CASE ~semver
  <2>1. v.digest = u.digest /\ (~HasDigest(u) => v.id \in {Tag(u), Tag(u) \o <<u.host>>})
    BY <1>7, ImageThere
  <2>2. HasDigest(u) <=> HasDigest(v)
    BY <2>1, Zenon DEF HasDigest
  <2>3. ASSUME ~HasDigest(u) PROVE tag \in {Tag(u), Tag(u) \o <<u.host>>}
    <3>1. v.id # <<>>
      <4>1. Tag(u) \in Seq(Word) /\ Tag(u) # <<>>
        BY TagFacts
      <4> QED BY <2>1, <2>3, <4>1, Hashed
    <3>2. p = v
      BY <1>1, <2>2, <2>3
    <3>3. new.id = v.id
      BY <1>1, <1>2, <1>3, <2>2, <2>3, <3>1, <3>2, WithoutChecksumKeeps
    <3>4. tag = v.id
      BY <1>7, <2>2, <2>3, <3>1, <3>3, ParseKeeps DEF OCITag
    <3> QED BY <2>1, <2>3, <3>4
  <2>4. ImageIsThere(t, u, w)
    BY <1>5, <2>1, <2>3, ImageThere
  <2> QED BY <1>7, <2>4 DEF OCIAt, t, w
<1> QED BY <1>6, <1>7

\* What mutateOCIRepo leaves behind.
LEMMA OCIArrives ==
    ASSUME NEW z, NEW M, NEW r, r.kind = "oci", r.kind = M.kind, r.semver = M.semver, r.type = M.type,
           1 \in DOMAIN M.refs, NEW s, Alike(r, s), NEW x, s.refs = <<x>>,
           OCIAt(z, r.semver, M.refs[1], x)
    PROVE  Led(z, M, r, s)
<1>1. DOMAIN s.refs = {1} /\ s.refs[1] = x /\ s.kind = "oci" /\ s.semver = r.semver
  BY OneRefOnly DEF Alike
<1>2. DOMAIN s.refs \subseteq DOMAIN M.refs
  BY <1>1
<1>3. OCIAt(z, s.semver, M.refs[1], x)
  BY <1>1, Zenon
<1>4. OCIStands(z, s.semver, M.refs[1], s.refs[1])
  BY <1>1, <1>3, Zenon DEF OCIStands, OCIAt
<1>5. Found(z, s, M.refs[1], s.refs[1])
  BY <1>1, <1>3 DEF Found, OCIAt
<1>6. AllFound(z, M, s)
  BY <1>1, <1>5 DEF AllFound
<1>7. Origin(z, M, s)
  BY <1>1, <1>2, <1>4 DEF Origin, Alike
<1> QED BY <1>6, <1>7 DEF Led

LEMMA OCILed ==
    ASSUME HostsApart, AuthoredElsewhere, NEW z \in States, NEW n \in Names, NEW r, IsResource(r),
           Origin(z, Manifest[n], r), r.kind = "oci", NEW op, NEW isChart,
           NEW m, m = mutateOCIRepo(z, op, r, isChart)
    PROVE  Led(z, Manifest[n], r, m.res)
<1> DEFINE M == Manifest[n]
           v == r.refs[1]
           u == M.refs[1]
           byIP == OCIByIP(z, op, r)
           new == OCIRepoRef(z, OCIAsked(v), byIP, isChart)
           w == OCINew(v, new, OCITag(r.semver, v, new))
<1>1. r.refs = <<v>> /\ DOMAIN r.refs = {1}
  BY OneRefOnly DEF IsResource
<1>2. /\ r.kind = M.kind /\ r.semver = M.semver /\ r.type = M.type /\ 1 \in DOMAIN M.refs
      /\ OCIStands(z, r.semver, u, v)
  BY <1>1 DEF Origin
<1>3. IsRef(u) /\ u.id \in Seq(Word) /\ Elsewhere(u)
  BY <1>2, AuthoredFacts
<1>4. r.semver => u.id = <<>>
  BY <1>2 DEF AuthoredElsewhere
<1>5. IsRef(v)
  BY <1>1 DEF IsResource
<1>6. Alike(r, m.res) /\ m.res.refs = IF OCIMutates(z, op, r) THEN <<w>> ELSE r.refs
  BY OCIBecomes
<1> HIDE DEF w, new
<1>7. CASE v = u
  <2>1. OCIMutates(z, op, r)
    <3>1. ~IsPatched(z, u)
      BY <1>3, Zenon DEF Elsewhere, IsPatched
    <3> QED BY <1>7, <3>1 DEF OCIMutates
  <2>2. m.res.refs = <<w>>
    BY <1>6, <2>1
  <2>3. OCIAt(z, r.semver, u, w)
    <3>1. new = OCIRepoRef(z, OCIAsked(u), byIP, isChart)
      BY <1>7, Zenon DEF new
    <3>2. w = OCINew(u, new, OCITag(r.semver, u, new))
      BY <1>7, Zenon DEF w
    <3> HIDE DEF u
    <3> QED BY <1>3, <1>4, <3>1, <3>2, OCIFresh
  <2> QED BY <1>2, <1>6, <2>2, <2>3, OCIArrives
<1>8. CASE OCIAt(z, r.semver, u, v)
  <2>1. v.host = RegistryAddress(z) /\ (r.semver \/ HasDigest(v) \/ v.id # <<>>)
    <3>1. CASE r.semver
      BY <1>8, <3>1 DEF OCIAt, ChartAt
    <3>2. CASE ~r.semver
      <4>1. /\ v.host = RegistryAddress(z) /\ v.digest = u.digest
            /\ ~HasDigest(u) => v.id \in {Tag(u), Tag(u) \o <<u.host>>}
        BY <1>8, <3>2, ImageThere DEF OCIAt
      <4>2. HasDigest(u) <=> HasDigest(v)
        BY <4>1, Zenon DEF HasDigest
      <4>3. Tag(u) \in Seq(Word) /\ Tag(u) # <<>>
        BY <1>3, TagFacts
      <4> QED BY <4>1, <4>2, <4>3, Hashed
    <3> QED BY <3>1, <3>2
  <2>2. w = v
    <3>1. PICK b : b = byIP
      BY Zenon
    <3>2. new = OCIRepoRef(z, OCIAsked(v), b, isChart)
      BY <3>1, Zenon DEF new
    <3>3. OCINew(v, new, OCITag(r.semver, v, new)) = v
      <4> HIDE <3>1
      <4> HIDE DEF v
      <4> QED BY <1>5, <2>1, <3>2, OCIStays
    <3> QED BY <3>3, Zenon DEF w
  <2>3. m.res.refs = <<v>>
    BY <1>1, <1>6, <2>2
  <2> QED BY <1>2, <1>6, <1>8, <2>3, OCIArrives
<1> QED BY <1>2, <1>7, <1>8 DEF OCIStands, OCIAt

LEMMA LegacyFacts ==
    ASSUME HostsApart, AuthoredElsewhere, LegacyByIP, NEW n \in Names, Legacy[n] # NoResource
    PROVE  LET r == Legacy[n]
               M == Manifest[n]
               v == r.refs[1]
               u == M.refs[1] IN
           /\ r.kind = "oci" /\ M.kind = "oci" /\ r.semver = M.semver /\ r.type = M.type
           /\ 1 \in DOMAIN M.refs /\ IsRef(u) /\ u.id \in Seq(Word) /\ IsRef(v)
           /\ v.host = Service.ip /\ Service.ip # NoHost /\ r.ephemeral = <<>> /\ IsResource(r)
           /\ r.semver => v.id = <<>>
           /\ ~r.semver => ImageIsThere(Service.ip, u, v)
<1> DEFINE r == Legacy[n]
           M == Manifest[n]
           v == r.refs[1]
           u == M.refs[1]
<1>1. /\ r.kind = "oci" /\ r.semver = M.semver /\ r.type = M.type
      /\ v.host = Service.ip /\ Service.ip # NoHost /\ r.ephemeral = <<>>
      /\ r.semver => v.id = <<>>
      /\ ~r.semver => ImageIsThere(Service.ip, u, v)
  BY Zenon DEF LegacyByIP
<1>2. M.kind = "oci" /\ IsResource(M) /\ IsResource(r)
  BY <1>1, WrittenFacts
<1>3. M.refs = <<u>> /\ r.refs = <<v>>
  BY <1>1, <1>2 DEF IsResource
<1>4. 1 \in DOMAIN M.refs /\ 1 \in DOMAIN r.refs
  <2> HIDE DEF u, v
  <2> QED BY <1>3, OneRefOnly
<1>5. IsRef(u) /\ u.id \in Seq(Word) /\ IsRef(v)
  BY <1>2, <1>4, AuthoredFacts DEF IsResource
<1> QED BY <1>1, <1>2, <1>4, <1>5

LEMMA LegacyLed ==
    ASSUME HostsApart, AuthoredElsewhere, LegacyByIP, NEW z \in States, IsInternal(z), NEW n \in Names,
           NEW r, r = Legacy[n], r # NoResource, NEW isChart,
           NEW m, m = mutateOCIRepo(z, "update", r, isChart)
    PROVE  Led(z, Manifest[n], r, m.res)
<1> DEFINE M == Manifest[n]
           v == r.refs[1]
           u == M.refs[1]
           byIP == OCIByIP(z, "update", r)
           new == OCIRepoRef(z, OCIAsked(v), byIP, isChart)
           w == OCINew(v, new, OCITag(r.semver, v, new))
<1>1. /\ r.kind = "oci" /\ M.kind = "oci" /\ r.semver = M.semver /\ r.type = M.type
      /\ 1 \in DOMAIN M.refs /\ IsRef(u) /\ u.id \in Seq(Word) /\ IsRef(v)
      /\ v.host = Service.ip /\ Service.ip # NoHost
      /\ r.semver => v.id = <<>>
      /\ ~r.semver => ImageIsThere(Service.ip, u, v)
  BY LegacyFacts
<1>2. ~IsPatched(z, v)
  BY <1>1 DEF HostsApart
<1>3. IsResource(r)
  BY WrittenFacts
<1>4. Alike(r, m.res) /\ m.res.refs = IF OCIMutates(z, "update", r) THEN <<w>> ELSE r.refs
  BY <1>1, <1>3, OCIBecomes
<1>5. m.res.refs = <<w>>
  <2> HIDE DEF w
  <2> QED BY <1>2, <1>4 DEF OCIMutates
<1>6. new = ImageTransformHostWithoutChecksum(RegistryAddress(z), OCIAsked(v))
  <2>1. byIP
    BY <1>1 DEF OCIByIP, IsPatchedClusterIP, ClusterIP, DoHostnamesMatch
  <2> QED BY <2>1, Zenon DEF OCIRepoRef
<1> HIDE DEF new
<1>7. OCIAt(z, r.semver, u, w)
  <2> HIDE DEF u, v
  <2> QED BY <1>1, <1>2, <1>6, OCIFromIP
<1> HIDE DEF w
<1> QED BY <1>1, <1>4, <1>5, <1>7, OCIArrives

\* The same by a create: the hash is added to the tag that has one, unless the
\* registry says that it is a chart.
LEMMA LegacyCreated ==
    ASSUME HostsApart, AuthoredElsewhere, LegacyByIP, NEW z \in States, NEW n \in Names,
           NEW r, r = Legacy[n], r # NoResource, NEW isChart,
           NEW m, m = mutateOCIRepo(z, "create", r, isChart)
    PROVE  Led(z, Manifest[n], r, m.res) \/ Twice(z, n, m.res)
<1> DEFINE M == Manifest[n]
           v == r.refs[1]
           u == M.refs[1]
           t == RegistryAddress(z)
           p == OCIAsked(v)
           new == OCIRepoRef(z, p, OCIByIP(z, "create", r), isChart)
           tag == OCITag(r.semver, v, new)
           w == OCINew(v, new, tag)
<1>1. /\ r.kind = "oci" /\ M.kind = "oci" /\ r.semver = M.semver /\ r.type = M.type
      /\ 1 \in DOMAIN M.refs /\ IsRef(u) /\ u.id \in Seq(Word) /\ IsRef(v)
      /\ v.host = Service.ip
      /\ r.semver => v.id = <<>>
      /\ ~r.semver => ImageIsThere(Service.ip, u, v)
  BY LegacyFacts
<1>2. ~IsPatched(z, v)
  BY <1>1 DEF HostsApart
<1>3. IsResource(r)
  BY WrittenFacts
<1>4. Alike(r, m.res) /\ m.res.refs = <<w>>
  <2>1. Alike(r, m.res) /\ m.res.refs = IF OCIMutates(z, "create", r) THEN <<w>> ELSE r.refs
    BY <1>1, <1>3, OCIBecomes
  <2> HIDE DEF w
  <2> QED BY <2>1 DEF OCIMutates
<1>5. IsRef(p) /\ p.host = v.host /\ p.digest = v.digest /\ (~HasDigest(v) => p = v)
  BY <1>1, AskedFacts
<1>6. ~HasPrefix(t, p.host)
  BY <1>2, <1>5 DEF HasPrefix, IsPatched, DoHostnamesMatch
<1>7. new = IF isChart THEN ImageTransformHostWithoutChecksum(t, p) ELSE ImageTransformHost(t, p)
  BY DEF OCIRepoRef, OCIByIP
<1> HIDE DEF p, t, new
<1>8. new.host = t /\ new.digest = v.digest /\ IsRef(new)
  <2>1. new \in {ImageTransformHost(t, p), ImageTransformHostWithoutChecksum(t, p)}
    BY <1>7
  <2> QED BY <1>5, <1>6, <2>1, TransformFacts
<1>9. IsRef(w) /\ w.host = t /\ w.digest = v.digest /\ w.id = tag
  BY <1>8, NewFacts
<1> HIDE DEF w
<1>10. CASE r.semver
  <2>1. tag = <<>>
    BY <1>1, <1>10 DEF OCITag
  <2>2. OCIAt(z, r.semver, u, w)
    BY <1>9, <1>10, <2>1 DEF OCIAt, ChartAt, t
  <2> QED BY <1>1, <1>4, <2>2, OCIArrives
<1>11. CASE ~r.semver
  <2>1. v.digest = u.digest /\ (~HasDigest(u) => v.id \in {Tag(u), Tag(u) \o <<u.host>>})
    BY <1>1, <1>11, ImageThere
  <2>2. HasDigest(u) <=> HasDigest(v)
    BY <2>1, Zenon DEF HasDigest
  <2>3. CASE HasDigest(u)
    <3>1. ImageIsThere(t, u, w)
      BY <1>9, <2>1, <2>3, ImageThere
    <3>2. OCIAt(z, r.semver, u, w)
      BY <1>11, <3>1 DEF OCIAt, t
    <3> QED BY <1>1, <1>4, <3>2, OCIArrives
  <2>4. CASE ~HasDigest(u) /\ isChart
    <3>1. new = ImageTransformHostWithoutChecksum(RegistryAddress(z), OCIAsked(v))
      BY <1>7, <2>4, Zenon DEF t, p
    <3>2. w = OCINew(v, new, OCITag(r.semver, v, new))
      BY DEF w
    <3>3. OCIAt(z, r.semver, u, w)
      <4> HIDE DEF u, v
      <4> QED BY <1>1, <1>2, <3>1, <3>2, OCIFromIP
    <3> QED BY <1>1, <1>4, <3>3, OCIArrives
  <2>5. CASE ~HasDigest(u) /\ ~isChart
    <3>1. p = v
      BY <1>5, <2>2, <2>5
    <3>2. v.id # <<>> /\ Append(v.id, Service.ip) # <<>>
      <4>1. Tag(u) \in Seq(Word) /\ Tag(u) # <<>>
        BY <1>1, TagFacts
      <4> DEFINE S == Word \cup {u.host, Service.ip}
      <4>2. Tag(u) \in Seq(S) /\ <<u.host>> \in Seq(S) /\ Service.ip \in S
        BY <4>1
      <4>3. v.id # <<>>
        BY <2>1, <2>5, <4>1, Hashed
      <4>4. PICK a : a = v.id
        OBVIOUS
      <4>5. PICK b : b = <<u.host>>
        OBVIOUS
      <4> HIDE DEF S
      <4>6. a \in Seq(S)
        <5>1. Tag(u) \o b \in Seq(S)
          BY <4>2, <4>5
        <5> QED BY <2>1, <2>5, <4>2, <4>4, <4>5, <5>1, Zenon
      <4>7. Append(a, Service.ip) # <<>>
        BY <4>2, <4>6
      <4> QED BY <4>3, <4>4, <4>7, Zenon
    <3>3. ParseImageRef(v) = v
      BY <3>2, ParseKeeps
    <3>4. new = Sent(v, t, Append(v.id, v.host))
      <4>1. new = ImageTransformHost(t, v)
        BY <1>7, <2>5, <3>1, Zenon
      <4> QED BY <1>6, <2>2, <2>5, <3>1, <3>3, <4>1, Zenon
              DEF ImageTransformHost, CRCTag, Sent, HasDigest
    <3>5. new.id = Append(v.id, Service.ip)
      <4>1. PICK x : x = Append(v.id, v.host)
        OBVIOUS
      <4>2. Sent(v, t, x).id = x
        BY <1>1, SetHostAndId
      <4> QED BY <1>1, <3>4, <4>1, <4>2, Zenon
    <3>6. tag = new.id
      BY <1>11, <2>2, <2>5, <3>2, <3>5, ParseKeeps DEF OCITag
    <3>7. DOMAIN m.res.refs = {1} /\ m.res.refs[1] = w
      BY <1>4, OneRefOnly
    <3>8. HashedAgain(n, w) /\ w.id # <<>>
      BY <1>9, <3>2, <3>5, <3>6, Zenon DEF HashedAgain
    <3> QED BY <1>1, <1>4, <1>9, <3>7, <3>8, Zenon DEF Twice, Alike, t
  <2> QED BY <2>3, <2>4, <2>5
<1> QED BY <1>10, <1>11

\* And it stays so.
LEMMA TwiceStays ==
    ASSUME NEW z, NEW n, NEW r, IsResource(r), Twice(z, n, r), NEW op, NEW isChart,
           NEW m, m = mutateOCIRepo(z, op, r, isChart)
    PROVE  Twice(z, n, m.res)
<1> DEFINE v == r.refs[1]
           new == OCIRepoRef(z, OCIAsked(v), OCIByIP(z, op, r), isChart)
           w == OCINew(v, new, OCITag(r.semver, v, new))
<1>1. /\ r.kind = "oci" /\ IsRef(v) /\ v.host = RegistryAddress(z) /\ v.id # <<>>
      /\ DOMAIN r.refs = {1} /\ r.refs = <<v>>
  BY DEF Twice, IsResource
<1>2. Alike(r, m.res) /\ m.res.refs = IF OCIMutates(z, op, r) THEN <<w>> ELSE r.refs
  BY <1>1, OCIBecomes
<1>3. w = v
  <2>1. PICK b : b = OCIByIP(z, op, r)
    BY Zenon
  <2>2. new = OCIRepoRef(z, OCIAsked(v), b, isChart)
    BY <2>1, Zenon DEF new
  <2> HIDE DEF new
  <2>3. PICK a : a = v
    OBVIOUS
  <2>4. IsRef(a) /\ a.host = RegistryAddress(z) /\ a.id # <<>> /\ new = OCIRepoRef(z, OCIAsked(a), b, isChart)
    BY <1>1, <2>2, <2>3, Zenon
  <2>5. PICK semver : semver = r.semver
    OBVIOUS
  <2>6. OCINew(a, new, OCITag(semver, a, new)) = a
    <3> HIDE <2>1, <2>3, <2>5
    <3> QED BY <2>4, OCIStays
  <2> QED BY <2>3, <2>5, <2>6, Zenon DEF w
<1> HIDE DEF w
<1>4. m.res.refs = r.refs
  BY <1>1, <1>2, <1>3
<1> QED BY <1>2, <1>4, Zenon DEF Twice, Alike

\* A resource in the cluster: it has an origin, or an earlier version wrote it.
Known(z, n, r) ==
    \/ Origin(z, Manifest[n], r)
    \/ r = Legacy[n] /\ r # NoResource /\ IsInternal(z)
    \/ Twice(z, n, r)

\* The hook of any kind.
LEMMA MutateLed ==
    ASSUME HostsApart, AuthoredElsewhere, LegacyByIP, NEW z \in States, NEW n \in Names, NEW r, IsResource(r),
           NEW op, op \in {"create", "update"}, Known(z, n, r),
           NEW isChart, NEW m, m = Mutate(z, op, r, isChart), m.ok
    PROVE  Led(z, Manifest[n], r, m.res) \/ Twice(z, n, m.res)
<1>1. CASE Origin(z, Manifest[n], r)
  <2>1. CASE r.kind = "pod"
    BY <1>1, <2>1, PodLed DEF Mutate
  <2>2. CASE r.kind = "git"
    BY <1>1, <2>2, GitLed DEF Mutate
  <2>3. CASE r.kind = "helm"
    BY <1>1, <2>3, HelmLed DEF Mutate
  <2>4. CASE r.kind = "oci"
    BY <1>1, <2>4, OCILed DEF Mutate
  <2>5. CASE r.kind = "app"
    BY <1>1, <2>5, AppLed DEF Mutate
  <2>6. CASE r.kind = "project"
    BY <1>1, <2>6, ProjectLed DEF Mutate
  <2>7. CASE r.kind \notin {"pod", "git", "helm", "oci", "app", "project"}
    BY <1>1, <2>7, SecretLed DEF Mutate
  <2> QED BY <2>1, <2>2, <2>3, <2>4, <2>5, <2>6, <2>7
<1>2. CASE r = Legacy[n] /\ r # NoResource /\ IsInternal(z)
  <2>1. r.kind = "oci"
    BY <1>2, LegacyFacts
  <2>2. m = mutateOCIRepo(z, op, r, isChart)
    BY <2>1 DEF Mutate
  <2> QED BY <1>2, <2>2, LegacyLed, LegacyCreated
<1>3. CASE Twice(z, n, r)
  <2>1. r.kind = "oci"
    BY <1>3 DEF Twice
  <2>2. m = mutateOCIRepo(z, op, r, isChart)
    BY <2>1 DEF Mutate
  <2> QED BY <1>3, <2>2, TwiceStays
<1> QED BY <1>1, <1>2, <1>3 DEF Known

LEMMA EphemeralAlike ==
    ASSUME NEW r, IsResource(r), NEW x
    PROVE  LET s == [r EXCEPT !.ephemeral = x] IN
           /\ IsResource(s) /\ Alike(r, s) /\ s.refs = r.refs /\ s.patched = r.patched /\ s.ephemeral = x
<1> DEFINE s == [r EXCEPT !.ephemeral = x]
<1>1. IsRecord(r)
  BY ResourceFacts
<1>2. Alike(r, s) /\ s.refs = r.refs /\ s.patched = r.patched /\ s.ephemeral = x
  BY <1>1, SetField, FieldNames DEF Alike
<1>3. IsResource(s)
  BY EphemeralFacts
<1> QED BY <1>2, <1>3

\* Other ephemeral containers make no difference to where a resource is from.
LEMMA EphemeralOrigin ==
    ASSUME NEW z, NEW m, NEW r, IsResource(r), Origin(z, m, r), NEW S, NEW x \in Seq(S)
    PROVE  Origin(z, m, [r EXCEPT !.ephemeral = x])
<1> DEFINE s == [r EXCEPT !.ephemeral = x]
<1>1. Alike(r, s) /\ s.refs = r.refs /\ s.patched = r.patched /\ s.ephemeral = x
  BY EphemeralAlike
<1> HIDE DEF s
<1>2. PodStands(m, r) => PodStands(m, s)
  <2>1. \E Q : s.ephemeral \in Seq(Q)
    BY <1>1, Zenon
  <2> QED BY <1>1, <2>1, Zenon DEF PodStands
<1>3. Origin(z, m, s)
  BY <1>1, <1>2, Zenon DEF Origin, Alike
<1> QED BY <1>3, Zenon DEF s

LEMMA AuthoredOrigin ==
    ASSUME HostsApart, AuthoredElsewhere, NEW z, NEW n \in Names
    PROVE  Origin(z, Manifest[n], Manifest[n])
<1> DEFINE m == Manifest[n]
<1>1. CASE m.kind = "pod"
  <2>1. ~m.patched /\ m.ephemeral = <<>>
    BY <1>1, Zenon DEF AuthoredElsewhere
  <2>2. <<>> \in Seq({})
    OBVIOUS
  <2>3. PodStands(m, m)
    BY <2>1, <2>2, Zenon DEF PodStands
  <2> QED BY <1>1, <2>3 DEF Origin
<1>2. CASE m.kind # "pod"
  BY <1>2 DEF Origin, OCIStands, URLStands
<1> QED BY <1>1, <1>2

\* The author's manifest applied over a resource that is no pod.
LEMMA AppliedOrigin ==
    ASSUME HostsApart, AuthoredElsewhere, LegacyByIP, NEW z, NEW n \in Names, NEW r, IsResource(r),
           r.kind # "pod", Known(z, n, r)
    PROVE  Origin(z, Manifest[n], [r EXCEPT !.refs = Manifest[n].refs, !.creds = Manifest[n].creds])
<1> DEFINE m == Manifest[n]
<1>0. IsRecord(r)
  BY ResourceFacts
<1>1. r.kind = m.kind /\ r.semver = m.semver /\ r.type = m.type
  BY LegacyFacts DEF Known, Origin, Twice
<1> DEFINE s1 == [r EXCEPT !.refs = m.refs]
<1>2. IsRecord(s1) /\ Alike(r, s1) /\ s1.refs = m.refs
  BY <1>0, RefsSet
<1> HIDE DEF s1
<1> DEFINE s2 == [s1 EXCEPT !.creds = m.creds]
<1>3. Alike(r, s2) /\ s2.refs = m.refs
  BY <1>2, SetField, FieldNames DEF Alike
<1> HIDE DEF s2
<1>4. [r EXCEPT !.refs = m.refs, !.creds = m.creds] = s2
  BY Zenon DEF s1, s2
<1>5. Origin(z, m, s2)
  BY <1>1, <1>3 DEF Origin, OCIStands, URLStands, Alike
<1> QED BY <1>4, <1>5, Zenon

\* The list of ephemeral containers with one more, and after the hook.
Moved(t, a) == [i \in DOMAIN a |-> ImageTransformHost(t, a[i])]

LEMMA OneMore ==
    ASSUME NEW S, NEW e \in Seq(S), NEW u, NEW t
    PROVE  /\ \E Q : Append(e, u) \in Seq(Q)
           /\ \E Q : Moved(t, Append(e, u)) \in Seq(Q)
           /\ Moved(t, Append(e, u))[Len(Moved(t, Append(e, u)))] = ImageTransformHost(t, u)
<1> DEFINE a == Append(e, u)
           f == Moved(t, a)
<1> DEFINE Q == S \cup {u}
<1>1. e \in Seq(Q) /\ u \in Q
  OBVIOUS
<1> HIDE DEF Q
<1>2. a \in Seq(Q) /\ Len(a) = Len(e) + 1 /\ Len(e) \in Nat /\ a[Len(e) + 1] = u
  BY <1>1
<1>3. DOMAIN a = 1 .. Len(a)
  BY <1>2
<1> DEFINE F == {ImageTransformHost(t, a[i]) : i \in DOMAIN a}
<1>4. \A i \in DOMAIN a : ImageTransformHost(t, a[i]) \in F
  OBVIOUS
<1> HIDE DEF F
<1>5. f = [i \in 1 .. Len(a) |-> ImageTransformHost(t, a[i])] /\ Len(a) \in Nat
  BY <1>2, <1>3 DEF Moved
<1>6. \A i \in 1 .. Len(a) : f[i] \in F
  BY <1>3, <1>4, <1>5
<1>7. f \in Seq(F) /\ Len(f) = Len(a)
  BY <1>5, <1>6
<1>8. f[Len(f)] = ImageTransformHost(t, a[Len(a)])
  BY <1>2, <1>5, <1>7
<1> HIDE DEF f
<1>9. (\E X : a \in Seq(X)) /\ (\E X : f \in Seq(X)) /\ f[Len(f)] = ImageTransformHost(t, u)
  BY <1>2, <1>7, <1>8
<1> QED BY <1>9, Zenon DEF f

\* kubectl debug.
Debugged(r, u) == [r EXCEPT !.ephemeral = Append(r.ephemeral, u)]

LEMMA DebugLed ==
    ASSUME HostsApart, AuthoredElsewhere, NEW z \in States, NEW n \in Names, NEW r, IsResource(r),
           r.kind = "pod", Origin(z, Manifest[n], r),
           NEW s, s = Debugged(r, Manifest[n].refs[1]),
           NEW isChart, NEW m, m = Mutate(z, "debug", s, isChart)
    PROVE  /\ IsResource(s) /\ s.kind = "pod" /\ Origin(z, Manifest[n], s)
           /\ Origin(z, Manifest[n], m.res) /\ LastFound(z, Manifest[n], m.res)
<1> DEFINE M == Manifest[n]
           u == M.refs[1]
           a == Append(r.ephemeral, u)
           f == [i \in DOMAIN a |-> ImageTransformHost(z.address, a[i])]
           q == [s EXCEPT !.ephemeral = f]
<1>1. PodStands(M, r) /\ M.kind = "pod"
  BY DEF Origin
<1>2. PICK S : r.ephemeral \in Seq(S)
  BY <1>1, Zenon DEF PodStands
<1>3. (\E Q : a \in Seq(Q)) /\ (\E Q : f \in Seq(Q)) /\ f[Len(f)] = ImageTransformHost(z.address, u)
  <2>1. f = Moved(z.address, a)
    BY Zenon DEF Moved
  <2> HIDE DEF f
  <2> QED BY <1>2, <2>1, OneMore, Zenon
<1> HIDE DEF f, a
<1>4. s = [r EXCEPT !.ephemeral = a]
  BY Zenon DEF a, Debugged
<1>5. IsResource(s) /\ s.kind = "pod" /\ s.ephemeral = a /\ Origin(z, M, s)
  <2>0. LET x == [r EXCEPT !.ephemeral = a] IN IsResource(x) /\ Alike(r, x) /\ x.ephemeral = a
    BY EphemeralAlike, Zenon
  <2>1. IsResource(s) /\ Alike(r, s) /\ s.ephemeral = a
    BY <1>4, <2>0, Zenon
  <2>2. Origin(z, M, s)
    BY <1>3, <1>4, EphemeralOrigin
  <2> QED BY <2>1, <2>2 DEF Alike
<1>6. m = Result(q)
  BY <1>5, Zenon DEF Mutate, mutateEphemeralContainers, f
<1>7. m.res = q
  BY <1>6, ResultFacts, Zenon
<1>8. q.ephemeral = f /\ Origin(z, M, q) /\ q.kind = "pod"
  <2>1. Alike(s, q) /\ q.ephemeral = f
    BY <1>5, EphemeralAlike
  <2>2. Origin(z, M, q)
    BY <1>3, <1>5, EphemeralOrigin
  <2> QED BY <1>5, <2>1, <2>2 DEF Alike
<1>9. ImageIsThere(z.address, u, f[Len(f)])
  <2>1. 1 \in DOMAIN M.refs
    BY <1>1, WrittenFacts DEF AuthoredElsewhere, IsResource
  <2>2. IsRef(u) /\ u.id \in Seq(Word) /\ Elsewhere(u)
    BY <1>1, <2>1, AuthoredFacts
  <2>3. ~DoHostnamesMatch(z.address, u.host)
    BY <2>2, Zenon DEF Elsewhere
  <2> QED BY <1>3, <2>2, <2>3, ImagesAreThere
<1> HIDE DEF q
<1>10. LastFound(z, M, q)
  BY <1>8, <1>9, Zenon DEF LastFound, Found
<1> QED BY <1>5, <1>7, <1>8, <1>10, Zenon

-----------------------------------------------------------------------------
(* What is asked for is what was pushed.                                   *)

\* The hook's work on r leads where it should, for request op.
Leads(z, n, op, r) == \A isChart : LET m == Mutate(z, op, r, isChart) IN m.ok =>
    \/ /\ Origin(z, Manifest[n], m.res)
       /\ op # "debug" /\ ~(r.kind = "pod" /\ r.patched) => AllFound(z, Manifest[n], m.res)
       /\ op = "debug" => LastFound(z, Manifest[n], m.res)
    \/ op # "debug" /\ Twice(z, n, m.res)

LEMMA AdmitLeads ==
    ASSUME ShapeInv, OriginInv, zarf' = zarf, NEW n \in Names, NEW op, NEW r,
           r.kind = Manifest[n].kind, Known(zarf, n, r), Leads(zarf, n, op, r), Admit(n, op, r)
    PROVE  OriginInv' /\ AskedInv'
<1>0. resources = [k \in Names |-> resources[k]]
  BY DEF ShapeInv
<1>1. ASSUME NEW s, Known(zarf, n, s), resources' = [resources EXCEPT ![n] = s]
      PROVE  OriginInv' /\ resources'[n] = s
  <2>1. resources' = [k \in Names |-> IF k = n THEN s ELSE resources[k]]
    BY <1>0, <1>1
  <2>2. resources'[n] = s /\ \A k \in Names \ {n} : resources'[k] = resources[k]
    BY <2>1
  <2> QED BY <1>1, <2>2 DEF OriginInv, Known
<1>2. CASE resources' = [resources EXCEPT ![n] = r] /\ last'.by = "nobody"
  BY <1>1, <1>2 DEF AskedInv
<1>3. CASE last'.by = "denied" /\ resources' = resources
  BY <1>3 DEF OriginInv, AskedInv
<1>4. ASSUME NEW isChart,
             LET m == Mutate(zarf, op, r, isChart) IN
             /\ m.ok /\ resources' = [resources EXCEPT ![n] = m.res]
             /\ last' = [name |-> n, op |-> op, was |-> r.patched, by |-> "agent"]
      PROVE  OriginInv' /\ AskedInv'
  <2> DEFINE m == Mutate(zarf, op, r, isChart)
             s == m.res
  <2>1. m.ok /\ resources' = [resources EXCEPT ![n] = s]
    BY <1>4, Zenon
  <2>2. \/ /\ Origin(zarf, Manifest[n], s)
           /\ op # "debug" /\ ~(r.kind = "pod" /\ r.patched) => AllFound(zarf, Manifest[n], s)
           /\ op = "debug" => LastFound(zarf, Manifest[n], s)
        \/ op # "debug" /\ Twice(zarf, n, s)
    BY <2>1, Zenon DEF Leads
  <2>3. last'.name = n /\ last'.op = op /\ last'.was = r.patched
    <3>1. last' = [name |-> n, op |-> op, was |-> r.patched, by |-> "agent"]
      BY <1>4, Zenon
    <3> QED BY <3>1
  <2> HIDE DEF s
  <2>4. OriginInv' /\ resources'[n] = s
    BY <1>1, <2>1, <2>2 DEF Known
  <2>5. s.kind = r.kind
    BY <2>2, Zenon DEF Origin, Twice
  <2>6. AskedInv'
    BY <2>2, <2>3, <2>4, <2>5, Zenon DEF AskedInv
  <2> QED BY <2>4, <2>6
<1> QED BY <1>2, <1>3, <1>4, AdmitCases, Zenon

\* Creates and updates.
LEMMA RequestLeads ==
    ASSUME HostsApart, AuthoredElsewhere, LegacyByIP, NEW z \in States, NEW n \in Names,
           NEW r, IsResource(r), NEW op, op \in {"create", "update"}, Known(z, n, r)
    PROVE  Leads(z, n, op, r)
<1>1. ASSUME NEW isChart, NEW m, m = Mutate(z, op, r, isChart), m.ok
      PROVE  Led(z, Manifest[n], r, m.res) \/ Twice(z, n, m.res)
  BY <1>1, MutateLed
<1>2. op # "debug"
  OBVIOUS
<1> QED BY <1>1, <1>2, Zenon DEF Led, Leads

LEMMA KnownResource ==
    ASSUME OriginInv, NEW n \in Names, Exists(n)
    PROVE  Known(zarf, n, resources[n])
BY DEF OriginInv, Known, Exists

\* An update of the state.
LEMMA StatesAgree ==
    ASSUME SameServices, NEW y \in States, NEW z \in States, <<y, z>> \in Changes, NEW n, NEW r, Known(y, n, r)
    PROVE  Known(z, n, r)
<1>1. /\ RegistryAddress(z) = RegistryAddress(y) /\ (IsInternal(z) <=> IsInternal(y))
      /\ y.git # NoHost => z.git = y.git /\ z.gitUser = y.gitUser
  <2>1. PICK c \in Changes : c = <<y, z>>
    OBVIOUS
  <2>2. c[1] = y /\ c[2] = z
    BY <2>1
  <2> QED BY <2>2, Zenon DEF SameServices
<1>2. \A u, v : ChartAt(y, v) => ChartAt(z, v)
  BY <1>1, Zenon DEF ChartAt
<1>3. \A u, v : URLStands(y, u, v) => URLStands(z, u, v)
  BY <1>1, <1>2, Zenon DEF URLStands, RepoAt
<1>4. \A b, u, v : OCIStands(y, b, u, v) => OCIStands(z, b, u, v)
  BY <1>1, <1>2, Zenon DEF OCIStands
<1>5. Origin(y, Manifest[n], r) => Origin(z, Manifest[n], r)
  BY <1>3, <1>4, Zenon DEF Origin
<1>6. Twice(y, n, r) => Twice(z, n, r)
  BY <1>1, Zenon DEF Twice
<1> QED BY <1>1, <1>5, <1>6, Zenon DEF Known

Hypotheses == HostsApart /\ AuthoredElsewhere /\ LegacyByIP /\ SameServices

LEMMA AskedInitially ==
    ASSUME Hypotheses, Init
    PROVE  OriginInv /\ AskedInv
<1>1. /\ last.by = "nobody"
      /\ resources = [n \in Names |->
            IF n \in names /\ IsInternal(zarf) THEN Legacy[n] ELSE NoResource]
  BY DEF Init, NoRequestYet
<1>2. OriginInv
  BY <1>1 DEF OriginInv
<1> QED BY <1>1, <1>2 DEF AskedInv

LEMMA AskedStep ==
    ASSUME Hypotheses, ShapeInv, OriginInv, AskedInv, [Next]_vars
    PROVE  OriginInv' /\ AskedInv'
<1> USE DEF Hypotheses
<1>0. /\ zarf \in States /\ names \subseteq Names
      /\ resources = [k \in Names |-> resources[k]]
  BY DEF ShapeInv
<1>1. ASSUME NEW n \in names, Create(n) PROVE OriginInv' /\ AskedInv'
  <2>1. n \in Names /\ Admit(n, "create", Manifest[n]) /\ zarf' = zarf
    BY <1>0, <1>1 DEF Create, Idle
  <2>2. PICK r : r = Manifest[n]
    OBVIOUS
  <2>3. IsResource(r) /\ Origin(zarf, Manifest[n], r)
    BY <2>1, <2>2, WrittenFacts, AuthoredOrigin
  <2>4. Leads(zarf, n, "create", r)
    BY <1>0, <2>1, <2>3, RequestLeads DEF Known
  <2> QED BY <2>1, <2>2, <2>3, <2>4, AdmitLeads DEF Known
<1>2. ASSUME NEW n \in names, Apply(n) PROVE OriginInv' /\ AskedInv'
  <2>1. PICK x : x = resources[n]
    OBVIOUS
  <2>2. n \in Names /\ IsResource(x) /\ x.kind = Manifest[n].kind /\ x.kind # "pod" /\ Known(zarf, n, x)
    BY <1>0, <1>2, <2>1, ExistingFacts, KnownResource DEF Apply
  <2> DEFINE s == [x EXCEPT !.refs = Manifest[n].refs, !.creds = Manifest[n].creds]
  <2>3. IsResource(s) /\ s.kind = Manifest[n].kind
    BY <2>2, AppliedFacts
  <2>4. Origin(zarf, Manifest[n], s)
    BY <2>2, AppliedOrigin, Zenon
  <2>5. Admit(n, "update", s) /\ zarf' = zarf
    BY <1>2, <2>1, Zenon DEF Apply, Idle
  <2> HIDE DEF s
  <2>6. Leads(zarf, n, "update", s)
    BY <1>0, <2>2, <2>3, <2>4, RequestLeads DEF Known
  <2> QED BY <2>2, <2>3, <2>4, <2>5, <2>6, AdmitLeads DEF Known
<1>3. ASSUME NEW n \in names, Touch(n) PROVE OriginInv' /\ AskedInv'
  <2>1. PICK x : x = resources[n]
    OBVIOUS
  <2>2. n \in Names /\ IsResource(x) /\ x.kind = Manifest[n].kind /\ Known(zarf, n, x)
    BY <1>0, <1>3, <2>1, ExistingFacts, KnownResource DEF Touch
  <2>3. Admit(n, "update", x) /\ zarf' = zarf
    BY <1>3, <2>1, Zenon DEF Touch, Idle
  <2>4. Leads(zarf, n, "update", x)
    BY <1>0, <2>2, RequestLeads
  <2> QED BY <2>2, <2>3, <2>4, AdmitLeads
<1>4. ASSUME NEW n \in names, Recreate(n) PROVE OriginInv' /\ AskedInv'
  <2>1. PICK x : x = resources[n]
    OBVIOUS
  <2>2. n \in Names /\ IsResource(x) /\ x.kind = Manifest[n].kind /\ Known(zarf, n, x)
    BY <1>0, <1>4, <2>1, ExistingFacts, KnownResource DEF Recreate
  <2> DEFINE s == [x EXCEPT !.ephemeral = <<>>]
  <2>3. IsResource(s) /\ s.kind = Manifest[n].kind
    BY <2>2, EphemeralFacts
  <2>4. Known(zarf, n, s)
    <3>1. <<>> \in Seq({})
      OBVIOUS
    <3>2. CASE Origin(zarf, Manifest[n], x)
      BY <2>2, <3>1, <3>2, EphemeralOrigin, Zenon DEF Known
    <3>3. CASE x = Legacy[n] /\ x # NoResource /\ IsInternal(zarf)
      <4>1. x.ephemeral = <<>> /\ IsRecord(x)
        BY <2>2, <3>3, LegacyFacts, ResourceFacts
      <4>2. s = x
        BY <4>1 DEF IsRecord
      <4> QED BY <3>3, <4>2, Zenon DEF Known
    <3>4. CASE Twice(zarf, n, x)
      <4>1. Alike(x, s) /\ s.refs = x.refs
        BY <2>2, EphemeralAlike
      <4> HIDE DEF s
      <4> QED BY <3>4, <4>1, Zenon DEF Known, Twice, Alike
    <3> QED BY <2>2, <3>2, <3>3, <3>4, Zenon DEF Known
  <2>5. Admit(n, "create", s) /\ zarf' = zarf
    BY <1>4, <2>1, Zenon DEF Recreate, Idle
  <2> HIDE DEF s
  <2>6. Leads(zarf, n, "create", s)
    BY <1>0, <2>2, <2>3, <2>4, RequestLeads
  <2> QED BY <2>2, <2>3, <2>4, <2>5, <2>6, AdmitLeads
<1>5. ASSUME NEW n \in names, Debug(n) PROVE OriginInv' /\ AskedInv'
  <2>1. PICK x : x = resources[n]
    OBVIOUS
  <2>2. n \in Names /\ IsResource(x) /\ x.kind = Manifest[n].kind /\ x.kind = "pod" /\ Known(zarf, n, x)
    BY <1>0, <1>5, <2>1, ExistingFacts, KnownResource DEF Debug
  <2>3. Origin(zarf, Manifest[n], x)
    BY <2>2, LegacyFacts DEF Known, Twice
  <2>4. PICK s : s = Debugged(x, Manifest[n].refs[1])
    OBVIOUS
  <2>5. Admit(n, "debug", s) /\ zarf' = zarf
    BY <1>5, <2>1, <2>4, Zenon DEF Debug, Idle, Debugged
  <2>6. ASSUME NEW isChart, NEW m, m = Mutate(zarf, "debug", s, isChart)
        PROVE  /\ IsResource(s) /\ s.kind = "pod" /\ Origin(zarf, Manifest[n], s)
               /\ Origin(zarf, Manifest[n], m.res) /\ LastFound(zarf, Manifest[n], m.res)
    BY <1>0, <2>2, <2>3, <2>4, <2>6, DebugLed
  <2>7. s.kind = Manifest[n].kind /\ Origin(zarf, Manifest[n], s)
    BY <2>2, <2>6, Zenon
  <2>8. Leads(zarf, n, "debug", s)
    BY <2>6, Zenon DEF Leads
  <2> HIDE <2>4
  <2> QED BY <2>2, <2>5, <2>7, <2>8, AdmitLeads DEF Known
<1>6. ASSUME NEW n \in names, Delete(n) PROVE OriginInv' /\ AskedInv'
  <2>1. /\ resources' = [k \in Names |-> IF k = n THEN NoResource ELSE resources[k]]
        /\ last'.by = "nobody" /\ zarf' = zarf
    BY <1>0, <1>6 DEF Delete, NoRequestYet
  <2>2. \A k \in Names : resources'[k] \in {NoResource, resources[k]}
    BY <2>1
  <2> QED BY <2>1, <2>2 DEF OriginInv, AskedInv
<1>7. CASE LabelNamespace
  <2>1. UNCHANGED <<resources, zarf>> /\ last'.by = "nobody"
    BY <1>7 DEF LabelNamespace, NoRequestYet
  <2> QED BY <2>1 DEF OriginInv, AskedInv
<1>8. CASE ChangeState
  <2>1. /\ UNCHANGED resources /\ last'.by = "nobody"
        /\ zarf' \in States /\ <<zarf, zarf'>> \in Changes
    BY <1>8 DEF ChangeState, NoRequestYet
  <2>2. \A n \in Names : Known(zarf, n, resources[n]) => Known(zarf', n, resources[n])
    BY <1>0, <2>1, StatesAgree
  <2>3. \A n \in Names : resources[n] = NoResource \/ Known(zarf, n, resources[n])
    BY DEF OriginInv, Known
  <2>4. \A n \in Names : resources'[n] = NoResource \/ Known(zarf', n, resources'[n])
    BY <2>1, <2>2, <2>3
  <2>5. OriginInv'
    BY <2>4 DEF OriginInv, Known
  <2> QED BY <2>1, <2>5 DEF AskedInv
<1>9. CASE UNCHANGED <<zarf, webhookVars>>
  BY <1>9 DEF OriginInv, AskedInv, webhookVars
<1> QED
  BY <1>1, <1>2, <1>3, <1>4, <1>5, <1>6, <1>7, <1>8, <1>9 DEF Next, vars

\* The image of a pod tells which image its author wrote.
LEMMA ImagesApart ==
    ASSUME NEW y, NEW z, NEW u, IsRef(u), u.id \in Seq(Word), ~DoHostnamesMatch(y, u.host),
           NEW v, IsRef(v), v.id \in Seq(Word), ~DoHostnamesMatch(z, v.host),
           ImageTransformHost(y, u) = ImageTransformHost(z, v), ~HasDigest(u)
    PROVE  ParseImageRef(u) = ParseImageRef(v)
<1> DEFINE a == ImageTransformHost(y, u)
           b == ImageTransformHost(z, v)
<1>1. /\ a.digest = u.digest /\ a.scheme = u.scheme /\ a.user = u.user
      /\ ~HasDigest(u) => a.id = Tag(u) \o <<u.host>>
  BY ImageLeads
<1>2. /\ b.digest = v.digest /\ b.scheme = v.scheme /\ b.user = v.user
      /\ ~HasDigest(v) => b.id = Tag(v) \o <<v.host>>
  BY ImageLeads
<1>3. a = b
  OBVIOUS
<1> HIDE DEF a, b
<1>4. u.digest = v.digest /\ u.scheme = v.scheme /\ u.user = v.user
  BY <1>1, <1>2, <1>3
<1>5. ~HasDigest(v)
  BY <1>4, Zenon DEF HasDigest
<1>6. Tag(u) = Tag(v) /\ u.host = v.host
  <2>1. Tag(u) \o <<u.host>> = Tag(v) \o <<v.host>>
    BY <1>1, <1>2, <1>3, <1>5
  <2>2. Tag(u) \in Seq(Word) /\ Tag(v) \in Seq(Word)
    BY TagFacts
  <2> QED BY <2>1, <2>2, HashedApart, SMTT(30)
<1>7. ASSUME NEW x, IsRef(x), ~HasDigest(x)
      PROVE  LET p == ParseImageRef(x) IN
             /\ IsRef(p) /\ p.scheme = x.scheme /\ p.host = x.host /\ p.digest = x.digest /\ p.user = x.user
             /\ p.id = Tag(x)
  <2>1. LET p == ParseImageRef(x) IN
        IsRef(p) /\ p.scheme = x.scheme /\ p.host = x.host /\ p.digest = x.digest /\ p.user = x.user
    BY <1>7, ParseFacts
  <2>2. ParseImageRef(x).id = Tag(x)
    <3>1. CASE x.id # <<>>
      BY <3>1, ParseKeeps, Zenon DEF Tag
    <3>2. CASE x.id = <<>>
      <4>1. ParseImageRef(x) = [x EXCEPT !.id = <<"latest">>]
        BY <1>7, <3>2, Zenon DEF ParseImageRef, HasDigest
      <4>2. [x EXCEPT !.id = <<"latest">>].id = <<"latest">>
        BY <1>7, RefId
      <4> QED BY <3>2, <4>1, <4>2, Zenon DEF Tag
    <3> QED BY <3>1, <3>2
  <2> QED BY <2>1, <2>2
<1> DEFINE p == ParseImageRef(u)
           q == ParseImageRef(v)
<1>8. /\ IsRef(p) /\ p.scheme = u.scheme /\ p.host = u.host /\ p.digest = u.digest /\ p.user = u.user
      /\ p.id = Tag(u)
  BY <1>7
<1>9. /\ IsRef(q) /\ q.scheme = v.scheme /\ q.host = v.host /\ q.digest = v.digest /\ q.user = v.user
      /\ q.id = Tag(v)
  BY <1>5, <1>7
<1> HIDE DEF p, q
<1>10. p = q
  BY <1>4, <1>6, <1>8, <1>9, RefSame
<1> QED BY <1>10, Zenon DEF p, q

\* An image of a pod, and the reference of its author.
PodRef(u, v) == v = u \/ \E z \in States : v = ImageTransformHost(z.address, u)

LEMMA TransformedIsThere ==
    ASSUME NEW t, NEW u, IsRef(u), u.id \in Seq(Word), ~DoHostnamesMatch(t, u.host)
    PROVE  ImageTransformHost(t, u).host = t /\ ImageTransformHost(t, u).digest = u.digest
BY ImageLeads

LEMMA PodRefsApart ==
    ASSUME NEW u, IsRef(u), u.id \in Seq(Word), Elsewhere(u),
           NEW v, IsRef(v), v.id \in Seq(Word), Elsewhere(v), NEW w, PodRef(u, w), PodRef(v, w)
    PROVE  ParseImageRef(u) = ParseImageRef(v) \/ HasDigest(w)
<1>0. \A z \in States : ~DoHostnamesMatch(z.address, u.host) /\ ~DoHostnamesMatch(z.address, v.host)
  BY Zenon DEF Elsewhere
<1>1. CASE w = u /\ w = v
  BY <1>1, Zenon
<1>2. ASSUME NEW z \in States, NEW a, IsRef(a), a.id \in Seq(Word), ~DoHostnamesMatch(z.address, a.host),
             w = ImageTransformHost(z.address, a)
      PROVE  DoHostnamesMatch(z.address, w.host) /\ w.digest = a.digest
  <2>1. w.host = z.address /\ w.digest = a.digest
    BY <1>2, TransformedIsThere, Zenon
  <2> QED BY <2>1 DEF DoHostnamesMatch
<1>3. CASE w = u /\ w # v
  <2>1. PICK z \in States : w = ImageTransformHost(z.address, v)
    BY <1>3, Zenon DEF PodRef
  <2> QED BY <1>0, <1>2, <1>3, <2>1, Zenon
<1>4. CASE w = v /\ w # u
  <2>1. PICK z \in States : w = ImageTransformHost(z.address, u)
    BY <1>4, Zenon DEF PodRef
  <2> QED BY <1>0, <1>2, <1>4, <2>1, Zenon
<1>5. CASE w # u /\ w # v
  <2>1. PICK y \in States : w = ImageTransformHost(y.address, u)
    BY <1>5, Zenon DEF PodRef
  <2>2. PICK z \in States : w = ImageTransformHost(z.address, v)
    BY <1>5, Zenon DEF PodRef
  <2>3. w.digest = u.digest
    BY <1>0, <1>2, <2>1, Zenon
  <2>4. CASE HasDigest(u)
    BY <2>3, <2>4, Zenon DEF HasDigest
  <2>5. CASE ~HasDigest(u)
    <3>1. ~DoHostnamesMatch(y.address, u.host) /\ ~DoHostnamesMatch(z.address, v.host)
      BY <1>0
    <3>2. ImageTransformHost(y.address, u) = ImageTransformHost(z.address, v)
      BY <2>1, <2>2
    <3> QED BY <2>5, <3>1, <3>2, ImagesApart
  <2> QED BY <2>4, <2>5
<1> QED BY <1>1, <1>3, <1>4, <1>5, Zenon

LEMMA PodsHaveOrigins ==
    ASSUME Hypotheses, OriginInv, NEW n \in Names, resources[n].kind = "pod", NEW i \in DOMAIN resources[n].refs
    PROVE  LET u == Manifest[n].refs[i] IN
           IsRef(u) /\ u.id \in Seq(Word) /\ Elsewhere(u) /\ PodRef(u, resources[n].refs[i])
<1> DEFINE r == resources[n]
           m == Manifest[n]
<1>1. Origin(zarf, m, r)
  BY NothingThere, LegacyFacts DEF OriginInv, Hypotheses, Twice
<1>2. m.kind = "pod" /\ i \in DOMAIN m.refs /\ PodStands(m, r)
  BY <1>1 DEF Origin
<1>3. PodRef(m.refs[i], r.refs[i])
  BY <1>2, Zenon DEF PodStands, PodRef
<1>4. IsRef(m.refs[i]) /\ m.refs[i].id \in Seq(Word) /\ Elsewhere(m.refs[i])
  BY <1>2, AuthoredFacts DEF Hypotheses
<1> QED BY <1>3, <1>4

LEMMA PodsAreUnmistakable ==
    ASSUME Hypotheses, ShapeInv, OriginInv, NEW n \in Names, resources[n].kind = "pod"
    PROVE  Unmistakable(n)
<1>1. ASSUME NEW k \in names, resources[k].kind = "pod",
             NEW i \in DOMAIN resources[n].refs, NEW j \in DOMAIN resources[k].refs,
             resources[n].refs[i] = resources[k].refs[j]
      PROVE  \/ ParseImageRef(Manifest[n].refs[i]) = ParseImageRef(Manifest[k].refs[j])
             \/ HasDigest(resources[n].refs[i])
  <2>1. k \in Names
    BY DEF ShapeInv
  <2> DEFINE u == Manifest[n].refs[i]
             v == Manifest[k].refs[j]
             w == resources[n].refs[i]
  <2>2. IsRef(u) /\ u.id \in Seq(Word) /\ Elsewhere(u) /\ PodRef(u, w)
    BY PodsHaveOrigins
  <2>3. IsRef(v) /\ v.id \in Seq(Word) /\ Elsewhere(v) /\ PodRef(v, w)
    BY <1>1, <2>1, PodsHaveOrigins
  <2> HIDE DEF u, v, w
  <2>4. ParseImageRef(u) = ParseImageRef(v) \/ HasDigest(w)
    BY <2>2, <2>3, PodRefsApart
  <2> QED BY <2>4, Zenon DEF u, v, w
<1> QED BY <1>1, Zenon DEF Unmistakable, HasDigest

LEMMA FoundIsThere ==
    ASSUME NEW r, NEW u, NEW v, Found(zarf, r, u, v)
    PROVE  IsThere(r, u, v)
BY Zenon DEF Found, IsThere, ChartAt, RepoAt, ChartIsThere, RepoIsThere

LEMMA AskedFollows ==
    ASSUME Hypotheses, ShapeInv, SettledInv, OriginInv, AskedInv
    PROVE  AskedIsPushed
<1> SUFFICES ASSUME last.by = "agent" PROVE AskedIsPushed
  BY Zenon DEF AskedIsPushed
<1> DEFINE r == resources[last.name]
           m == Manifest[last.name]
<1>1. /\ last.name \in Names
      /\ ~(r.kind = "pod" /\ last.was) /\ last.op # "debug" =>
            AllFound(zarf, m, r) \/ Twice(zarf, last.name, r)
      /\ last.op = "debug" => LastFound(zarf, m, r)
  BY Zenon DEF AskedInv
<1>2. AllFound(zarf, m, r) => \A i \in DOMAIN r.refs : IsThere(r, m.refs[i], r.refs[i])
  BY FoundIsThere, Zenon DEF AllFound
<1>3. LastFound(zarf, m, r) => IsThere(r, m.refs[1], r.ephemeral[Len(r.ephemeral)])
  BY FoundIsThere, Zenon DEF LastFound
<1>4. r.kind = "pod" => Unmistakable(last.name)
  BY <1>1, PodsAreUnmistakable
<1>5. Twice(zarf, last.name, r) =>
        r.kind = "oci" /\ \A i \in DOMAIN r.refs : HashedAgain(last.name, r.refs[i])
  BY DEF Twice
<1>6. ASSUME last.op # "debug", r.kind = "secret", r.refs # <<>>, ServiceUsable(zarf, r.refs)
      PROVE  r.creds = getCreds(zarf, r.refs[1])
  <2>1. Settled(zarf, r)
    BY <1>6, Zenon DEF SettledInv
  <2> QED BY <1>6, <2>1 DEF Settled
<1> HIDE DEF r, m
<1> QED BY <1>1, <1>2, <1>3, <1>4, <1>5, <1>6, Zenon DEF AskedIsPushed, r, m

\* Whatever the webhook admits asks for what the push has put there, in any
\* cluster whose authors write for the world outside and whose services stay
\* where they are: after any number of updates, rollbacks, restores and changes
\* of the mode, every image, chart and repository is at the name that the
\* transformations of pkg/transform gave it when it was pushed, and no two
\* different images of pods have become the same one.  The exception is an
\* OCIRepository at the service's IP that was created anew (HashedAgain).
THEOREM AdmittedIsPushed ==
    ASSUME HostsApart, AuthoredElsewhere, LegacyByIP, SameServices
    PROVE  Spec => []AskedIsPushed
<1> DEFINE Inv == ShapeInv /\ SettledInv /\ OriginInv /\ AskedInv
<1>0. Hypotheses
  BY DEF Hypotheses
<1>1. Init => Inv
  BY <1>0, ResourcesInit, AskedInitially
<1>2. Inv /\ [Next]_vars => Inv'
  BY <1>0, ResourcesStep, AskedStep
<1>3. Inv => AskedIsPushed
  BY <1>0, AskedFollows
<1> QED
  BY <1>1, <1>2, <1>3, PTL DEF Spec

-----------------------------------------------------------------------------
(* The proxy.                                                              *)

LEMMA GitUserIsNoToken ==
    ASSUME zarf \in States, NEW x, x = Credentials
    PROVE  (x \in {z.gitUser : z \in States}) = IsGit
<1>1. CASE IsGit
  BY <1>1 DEF Credentials
<1>2. CASE ~IsGit
  <2>1. x \in {"token", "basic"}
    BY <1>2 DEF Credentials
  <2>2. x \notin {z.gitUser : z \in States}
    BY <2>1, AgentAssumption
  <2> QED
    BY <1>2, <2>2 DEF IsGit
<1> QED
  BY <1>1, <1>2

LEMMA ProxyInitially ==
    ASSUME Init
    PROVE  zarf \in States /\ ProxyInv
BY DEF Init, ProxyInit, ProxyInv, FollowedIsServed, NoAnswer

LEMMA ProxyStep ==
    ASSUME zarf \in States, ProxyInv, [Next]_vars
    PROVE  zarf' \in States /\ ProxyInv'
<1>0. /\ client = [f \in {"agent", "asks", "follows", "hops"} |-> client[f]]
      /\ server = [f \in DOMAIN NoAnswer |-> server[f]]
      /\ client.follows # "" => client.asks.marked = TRUE /\ client.asks.at = client.follows
  BY DEF ProxyInv
<1>1. ASSUME UNCHANGED proxyVars, zarf' \in States PROVE zarf' \in States /\ ProxyInv'
  BY <1>1 DEF ProxyInv, FollowedIsServed, IsGit, proxyVars
<1>2. ASSUME NEW a \in UserAgents, ClientAsks(a), UNCHANGED zarf PROVE zarf' \in States /\ ProxyInv'
  <2>0. PICK x : client' = [agent |-> a, follows |-> "", hops |-> 0, asks |-> x]
    BY <1>2, Zenon DEF ClientAsks
  <2>1. client'.follows = "" /\ client' = [f \in {"agent", "asks", "follows", "hops"} |-> client'[f]]
    BY <2>0
  <2> QED
    BY <1>0, <1>2, <2>1 DEF ClientAsks, ProxyInv, FollowedIsServed
<1>3. CASE ProxyRequest /\ UNCHANGED zarf
  <2>1. PICK x : x = Credentials
    OBVIOUS
  <2>2. /\ server' = [f \in DOMAIN NoAnswer |-> server'[f]]
        /\ server'.as = Credentials
        /\ client.asks.marked = TRUE => server'.at = client.asks.at
    BY <1>3 DEF ProxyRequest, NoAnswer, NoTransformTarget
  <2>3. (server'.as \in {z.gitUser : z \in States}) = IsGit
    BY <2>1, <2>2, GitUserIsNoToken
  <2>4. client' = client
    BY <1>3 DEF ProxyRequest
  <2> QED
    BY <1>0, <1>3, <2>2, <2>3, <2>4 DEF ProxyInv, FollowedIsServed, IsGit
<1>4. CASE ServerAnswers /\ UNCHANGED zarf
  <2>1. /\ server' = [f \in DOMAIN NoAnswer |-> server'[f]]
        /\ server'.to = server.to /\ server'.as = server.as /\ server'.at = server.at
    BY <1>0, <1>4 DEF ServerAnswers, NoAnswer
  <2>2. client' = client
    BY <1>4 DEF ServerAnswers
  <2> QED
    BY <1>0, <1>4, <2>1, <2>2 DEF ProxyInv, FollowedIsServed, IsGit
<1>5. CASE ProxyResponse /\ UNCHANGED zarf
  <2>1. /\ server' = [f \in DOMAIN NoAnswer |-> server'[f]]
        /\ server'.to = NoHost
    BY <1>5 DEF ProxyResponse, NoAnswer
  <2>2. /\ client' = [f \in {"agent", "asks", "follows", "hops"} |-> client'[f]]
        /\ client'.follows # "" => client'.asks.marked = TRUE /\ client'.asks.at = client'.follows
    <3>1. CASE client' = [agent |-> "none", asks |-> NoRequest, follows |-> "", hops |-> 0]
      BY <3>1
    <3>2. ASSUME NEW x, NEW h, x.marked = TRUE, x.at = server.link,
                 client' = [client EXCEPT !.asks = x, !.follows = server.link, !.hops = h]
          PROVE  /\ client' = [f \in {"agent", "asks", "follows", "hops"} |-> client'[f]]
                 /\ client'.asks = x /\ client'.follows = server.link
      BY <1>0, <3>2
    <3>3. LET x == MarkedLink(server.link, server.linkQuery) IN x.marked = TRUE /\ x.at = server.link
      BY DEF MarkedLink
    <3>4. \/ client' = [agent |-> "none", asks |-> NoRequest, follows |-> "", hops |-> 0]
          \/ client' = [client EXCEPT !.asks = MarkedLink(server.link, server.linkQuery),
                                      !.follows = server.link, !.hops = client.hops + 1]
      BY <1>5, Zenon DEF ProxyResponse
    <3>5. PICK x : x = MarkedLink(server.link, server.linkQuery)
      OBVIOUS
    <3> QED
      BY <3>1, <3>2, <3>3, <3>4, <3>5
  <2> QED
    BY <1>5, <2>1, <2>2 DEF ProxyInv, FollowedIsServed
<1>6. ASSUME NEW n \in names,
             Create(n) \/ Apply(n) \/ Touch(n) \/ Recreate(n) \/ Debug(n) \/ Delete(n)
      PROVE  UNCHANGED <<zarf, proxyVars>>
  BY <1>6, Zenon DEF Create, Apply, Touch, Recreate, Debug, Delete, Idle
<1>7. CASE LabelNamespace
  BY <1>1, <1>7 DEF LabelNamespace
<1>8. CASE ChangeState
  <2>1. zarf' \in States /\ UNCHANGED proxyVars
    BY <1>8, Zenon DEF ChangeState
  <2> QED
    BY <1>1, <2>1
<1>9. CASE ProxyNext /\ UNCHANGED zarf
  BY <1>2, <1>3, <1>4, <1>5, <1>9 DEF ProxyNext
<1>10. CASE UNCHANGED vars
  BY <1>1, <1>10 DEF vars, proxyVars
<1> QED
  BY <1>1, <1>6, <1>7, <1>8, <1>9, <1>10 DEF Next

\* A client of the agent's proxy that follows a redirect or a link is served the
\* path that it was sent to, with the credentials of its own user agent, for any
\* paths, states and changes of the state on the way (NoTransform's mark).
THEOREM FollowedIsAlwaysServed == Spec => []FollowedIsServed
<1>1. Init => zarf \in States /\ ProxyInv
  BY ProxyInitially
<1>2. (zarf \in States /\ ProxyInv) /\ [Next]_vars => (zarf \in States /\ ProxyInv)'
  BY ProxyStep
<1>3. ProxyInv => FollowedIsServed
  BY DEF ProxyInv
<1> QED
  BY <1>1, <1>2, <1>3, PTL DEF Spec
=============================================================================
