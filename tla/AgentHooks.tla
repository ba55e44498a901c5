----------------------------- MODULE AgentHooks -----------------------------
(***************************************************************************)
(* internal/agent/hooks: what the agent's webhook makes of a resource.     *)
(* A resource is a record: its kind, its zarf.dev/agent label, whether it  *)
(* has the label zarf-agent: patched, its references (the images of a pod, *)
(* the URLs of the others), a pod's ephemeral containers, the annotations  *)
(* with its original images, and what the hooks set on it: the secret with *)
(* the credentials to use, or the credentials themselves, insecure and the *)
(* client certificate.  The Zarf state is [mode, address, mtls, pull, git, *)
(* gitUser], where git is NoHost when there is no git server.              *)
(***************************************************************************)
EXTENDS Naturals, Sequences

CONSTANTS Service  \* the registry's service: [dns, ip]

-----------------------------------------------------------------------------
(***************************************************************************)
(* pkg/transform: where an image, a chart or a repository is found in the  *)
(* air gap.  A reference is [scheme, host, id, digest, user]: the scheme   *)
(* "oci", "git" or "other" (what is no URL), a host [name, port], the tag  *)
(* of an image or the name of a repository, and a digest if there is one.  *)
(* Paths are the same everywhere: references that differ only in the host  *)
(* are the ones that can collide.  A tag or a name is the sequence of its  *)
(* first word and of the hosts in the names it was hashed with; no tag is  *)
(* the empty sequence.  That no two hashes are the same is assumed.        *)
(***************************************************************************)

NoHost == [name |-> "", port |-> 0]

\* strings.HasPrefix on a host name and its port.
HasPrefix(target, host) == host.name = target.name /\ host.port \in {0, target.port}

\* helpers.DoHostnamesMatch looks at the names only.
DoHostnamesMatch(a, b) == a.name = b.name

ParseImageRef(u) == IF u.id = <<>> /\ u.digest = "" THEN [u EXCEPT !.id = <<"latest">>] ELSE u

\* Mutated: the hash is made from the path alone.
CRCTagOfPath(u) == Append(u.id, NoHost)

CRCTag(u) == Append(u.id, u.host)

\* What has a digest needs no hash, and loses its tag.
ImageTransformHost(target, src) ==
    LET u == ParseImageRef(src)
    IN  IF HasPrefix(target, u.host) THEN src
        ELSE IF u.digest # "" THEN [u EXCEPT !.host = target, !.id = <<>>]
        ELSE [u EXCEPT !.host = target, !.id = CRCTag(u)]

ImageTransformHostWithoutChecksum(target, src) ==
    LET u == ParseImageRef(src)
    IN  IF HasPrefix(target, u.host) THEN src
        ELSE [u EXCEPT !.host = target, !.id = IF u.digest # "" THEN <<>> ELSE @]

\* ParseImageRef(patched).Name, as a URL again.
NameOnly(u) == [u EXCEPT !.id = <<>>, !.digest = ""]

\* GitURL, of what gitURLRegex matches.
IsGitURL(u) == u.scheme = "git"
GitURL(base, u, user) == [u EXCEPT !.host = base, !.id = Append(@, u.host), !.user = user]

-----------------------------------------------------------------------------
Result(r) == [ok |-> TRUE, res |-> r]
Denied == [ok |-> FALSE, res |-> <<>>]

\* getLabelPatch.
Label(r) == [r EXCEPT !.patched = TRUE]

IsInternal(z) == z.mode # "external"

\* GetServiceInfoFromRegistryAddress: the service of an internal registry.
RegistryAddress(z) == IF IsInternal(z) THEN Service.dns ELSE z.address
ClusterIP(z) == IF IsInternal(z) THEN Service.ip ELSE NoHost
IsPatched(z, u) == DoHostnamesMatch(RegistryAddress(z), u.host)
\* Mutated: the service's IP is a host like any other.
NeverPatchedClusterIP(z, u) == FALSE

IsPatchedClusterIP(z, u) == ClusterIP(z) # NoHost /\ DoHostnamesMatch(ClusterIP(z), u.host)

\* ShouldMutate: the resource's own label, then that of its namespace.
ShouldMutate(label, nsLabel, policy) ==
    \/ label = "mutate"
    \/ label = "none" /\ nsLabel = "mutate"
    \/ label = "none" /\ nsLabel = "none" /\ policy = "all"

-----------------------------------------------------------------------------

\* mutatePod: init containers, containers and image volumes alike.
mutatePod(z, r) ==
    IF r.patched THEN Result(r) ELSE
    Result(Label([r EXCEPT !.secret = "registry", !.orig = r.refs,
        !.refs = [i \in DOMAIN @ |-> ImageTransformHost(z.address, @[i])]]))

mutateEphemeralContainers(z, r) ==
    Result([r EXCEPT !.ephemeral = [i \in DOMAIN @ |-> ImageTransformHost(z.address, @[i])]])

-----------------------------------------------------------------------------
\* Mutated: a URL that already leads to the git server is hashed again.
MutateGitRepoAgain(z, r) ==
    IF z.git = NoHost THEN Result(r) ELSE
    IF ~IsGitURL(r.refs[1]) THEN Denied ELSE
    Result(Label([r EXCEPT !.refs = <<GitURL(z.git, @[1], z.gitUser)>>, !.secret = "git"]))

mutateGitRepo(z, r) ==
    LET u == r.refs[1]
        same == DoHostnamesMatch(z.git, u.host)
    IN  IF z.git = NoHost THEN Result(r)
        ELSE IF ~same /\ ~IsGitURL(u) THEN Denied
        ELSE Result(Label([r EXCEPT !.refs = <<IF same THEN u ELSE GitURL(z.git, u, z.gitUser)>>,
                                    !.secret = "git"]))

\* The URL of a chart repository: the tag that the hash needs is not kept.
PatchedOCIName(z, u) ==
    IF IsPatched(z, u) THEN u
    ELSE IF IsPatchedClusterIP(z, u)
         THEN NameOnly(ImageTransformHostWithoutChecksum(RegistryAddress(z), u))
         ELSE NameOnly(ImageTransformHost(RegistryAddress(z), u))

\* The secret and the certificate that go with the registry.
Access(z, mtls, r) ==
    [r EXCEPT !.secret = "registry", !.insecure = @ \/ (IsInternal(z) /\ ~mtls),
              !.cert = @ \/ mtls]

mutateHelmRepo(z, r) ==
    IF r.type # "oci" THEN Result(r) ELSE
    Result(Label(Access(z, z.mtls, [r EXCEPT !.refs = <<PatchedOCIName(z, @[1])>>])))

\* getManifestConfigMediaType: what the registry says of a chart; an error there
\* counts as no.
MaybeChart(r) == {FALSE, r.chart}

\* The reference that mutateOCIRepo asks the registry for; a chart loses the hash.
OCIRepoRef(z, u, byIP, isChart) ==
    IF byIP \/ isChart THEN ImageTransformHostWithoutChecksum(RegistryAddress(z), u)
    ELSE ImageTransformHost(RegistryAddress(z), u)

\* mutateOCIRepo: the URL is looked at on an update only, and a tag is patched
\* only without a version range.  mTLS is looked up where the URL is mutated,
\* and nowhere else.
mutateOCIRepo(z, op, r, isChart) ==
    LET u == r.refs[1]
        mutate == op = "create" \/ ~IsPatched(z, u)
        byIP == op = "update" /\ IsPatchedClusterIP(z, u)
        new == OCIRepoRef(z, IF u.digest # "" THEN [u EXCEPT !.id = <<>>] ELSE u, byIP, isChart)
        tag == IF r.semver \/ u.digest # "" THEN u.id ELSE ParseImageRef(new).id
    IN  Result(Label(Access(z, mutate /\ z.mtls,
            IF mutate THEN [r EXCEPT !.refs = <<[new EXCEPT !.id = tag, !.digest = u.digest]>>]
            ELSE r)))

-----------------------------------------------------------------------------
\* classifyURLSchemes and anyZarfServiceUsable.
ServiceUsable(z, urls) ==
    \E i \in DOMAIN urls : IF urls[i].scheme = "oci" THEN z.address # NoHost ELSE z.git # NoHost

\* The git transformation is the one that can fail.
CanBePatched(z, u) ==
    \/ u.scheme = "oci" \/ z.git = NoHost \/ DoHostnamesMatch(z.git, u.host) \/ IsGitURL(u)

getPatchedRepoURL(z, u) ==
    IF u.scheme = "oci" THEN IF z.address = NoHost THEN u ELSE PatchedOCIName(z, u)
    ELSE IF z.git = NoHost \/ DoHostnamesMatch(z.git, u.host) THEN u
    ELSE GitURL(z.git, u, z.gitUser)

\* mutateApplicationSet: a generator without a repository is left out.
GeneratorURLs(r) == [i \in {j \in DOMAIN r.refs : r.refs[j].scheme # "none"} |-> r.refs[i]]

\* mutateApplication and mutateApplicationSet.
mutateApplication(z, r) ==
    LET urls == GeneratorURLs(r)
    IN  IF ~ServiceUsable(z, urls) THEN Result(r)
        ELSE IF \E i \in DOMAIN urls : ~CanBePatched(z, urls[i]) THEN Denied
        ELSE Result(Label([r EXCEPT !.refs = [i \in DOMAIN @ |->
                IF @[i].scheme = "none" THEN @[i] ELSE getPatchedRepoURL(z, @[i])]]))

\* mutateAppProject leaves patterns such as * as they are.
mutateAppProject(z, r) ==
    IF ~ServiceUsable(z, r.refs) THEN Result(r)
    ELSE Result(Label([r EXCEPT !.refs = [i \in DOMAIN @ |->
            IF CanBePatched(z, @[i]) THEN getPatchedRepoURL(z, @[i]) ELSE @[i]]]))

getCreds(z, u) == IF u.scheme = "oci" THEN z.pull ELSE z.gitUser

\* mutateRepositorySecret; url may be missing.
mutateRepositorySecret(z, r) ==
    IF r.refs = <<>> THEN Denied ELSE
    LET u == r.refs[1]
        oci == u.scheme = "oci"
    IN  IF ~ServiceUsable(z, r.refs) THEN Result(r)
        ELSE IF ~CanBePatched(z, u) THEN Denied
        ELSE Result(Label([r EXCEPT
                !.refs = <<getPatchedRepoURL(z, u)>>, !.creds = getCreds(z, u),
                !.insecure = @ \/ (oci /\ IsInternal(z) /\ ~z.mtls),
                !.cert = @ \/ (oci /\ z.mtls)]))

\* StartWebhook's routes, by kind.
Mutate(z, op, r, isChart) ==
    IF r.kind = "pod" THEN IF op = "debug" THEN mutateEphemeralContainers(z, r) ELSE mutatePod(z, r)
    ELSE IF r.kind = "git" THEN mutateGitRepo(z, r)
    ELSE IF r.kind = "helm" THEN mutateHelmRepo(z, r)
    ELSE IF r.kind = "oci" THEN mutateOCIRepo(z, op, r, isChart)
    ELSE IF r.kind = "app" THEN mutateApplication(z, r)
    ELSE IF r.kind = "project" THEN mutateAppProject(z, r)
    ELSE mutateRepositorySecret(z, r)
=============================================================================
