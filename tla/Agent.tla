-------------------------------- MODULE Agent -------------------------------
(***************************************************************************)
(* The agent in a cluster.  Users, GitOps tools and controllers create,    *)
(* update and delete resources in a namespace; the API server calls the    *)
(* webhook, which looks at the labels and at the Zarf state of that moment *)
(* and mutates the resource or denies the request.  The state changes      *)
(* between requests: an init with another registry mode, new credentials,  *)
(* a git server added.  The proxy serves clients meanwhile.                *)
(***************************************************************************)
EXTENDS AgentHooks, AgentProxy

CONSTANTS
    Names,      \* the resources
    Manifest,   \* name -> the resource as its author wrote it
    States,     \* the Zarf states
    Changes,    \* the pairs of states that the state goes through
    Legacy,     \* name -> what an earlier version made of it with an internal registry
    Watched,    \* bound: the sets of resources that come together in a behaviour
    MaxDebugs,  \* bound: the ephemeral containers of a pod
    MaxFaults   \* bound: the requests that fail for want of a call

VARIABLES
    policy,     \* the mutation policy that the agent was installed with
    names,      \* the resources of this behaviour
    nsLabel,    \* the namespace's zarf.dev/agent label
    resources,  \* name -> the resource in the cluster, or NoResource
    last,       \* the last request: its name, its kind and what became of it
    faults

webhookVars == <<policy, names, nsLabel, resources, last, faults>>
vars == <<zarf, client, server, webhookVars>>

NoResource ==
    [kind |-> "none", label |-> "none", patched |-> FALSE, refs |-> <<>>, orig |-> <<>>,
     ephemeral |-> <<>>, secret |-> "none", creds |-> "own", insecure |-> FALSE, cert |-> FALSE,
     semver |-> FALSE, type |-> "oci", chart |-> FALSE]

\* The shape of a resource; a Flux source has one URL.
IsRef(u) == u = [f \in {"scheme", "host", "id", "digest", "user"} |-> u[f]]
IsResource(r) ==
    /\ r = [f \in DOMAIN NoResource |-> r[f]]
    /\ r.patched \in BOOLEAN
    /\ r.refs = [i \in DOMAIN r.refs |-> r.refs[i]]
    /\ \A i \in DOMAIN r.refs : IsRef(r.refs[i])
    /\ r.refs = <<>> \/ 1 \in DOMAIN r.refs
    /\ r.kind \in {"git", "helm", "oci"} => r.refs = <<r.refs[1]>>

\* An earlier version wrote resources of the same kind.
ASSUME AgentAssumption ==
    /\ Changes \subseteq States \X States
    /\ MaxDebugs \in Nat /\ MaxFaults \in Nat
    /\ Watched \subseteq SUBSET Names
    /\ \A n \in Names : /\ IsResource(Manifest[n]) /\ IsResource(Legacy[n])
                        /\ Legacy[n] = NoResource \/ Legacy[n].kind = Manifest[n].kind
    /\ \A z \in States : z.gitUser \notin {"token", "basic"}
    /\ "" \notin ServerPaths

NoRequestYet == [name |-> "none", op |-> "none", by |-> "nobody", was |-> FALSE]

Init ==
    /\ zarf \in States /\ policy \in {"all", "labeled"} /\ nsLabel \in {"none", "mutate"}
    /\ names \in Watched
    /\ resources = [n \in Names |->
          IF n \in names /\ IsInternal(zarf) THEN Legacy[n] ELSE NoResource]
    /\ last = NoRequestYet /\ faults = 0
    /\ ProxyInit

\* The webhook's selectors: an ignored resource never comes to the agent, nor
\* does any resource of an ignored namespace when the policy is "all".
Selected(r) == r.label # "ignore" /\ (policy = "all" => nsLabel # "ignore")

\* The API server keeps the ephemeral containers of a pod as they were created.
Valid(op, old, new) ==
    op = "debug" => \A i \in DOMAIN old.ephemeral : new.ephemeral[i] = old.ephemeral[i]

\* withMutationGuard and Serve: an error of the hook refuses the request, as does
\* a call for the namespace, the state, the service or the certificate that fails.
Admit(n, op, r) ==
    IF ~(Selected(r) /\ ShouldMutate(r.label, nsLabel, policy))
    THEN /\ resources' = [resources EXCEPT ![n] = r]
         /\ last' = [name |-> n, op |-> op, by |-> "nobody", was |-> r.patched]
         /\ UNCHANGED faults
    ELSE \/ \E isChart \in MaybeChart(r) :
              LET m == Mutate(zarf, op, r, isChart)
                  ok == m.ok /\ Valid(op, resources[n], m.res)
              IN  /\ resources' = IF ok THEN [resources EXCEPT ![n] = m.res] ELSE resources
                  /\ last' = [name |-> n, op |-> op, was |-> r.patched,
                              by |-> IF ok THEN "agent" ELSE "denied"]
                  /\ UNCHANGED faults
         \/ /\ faults < MaxFaults /\ faults' = faults + 1
            /\ last' = [name |-> n, op |-> op, by |-> "denied", was |-> r.patched]
            /\ UNCHANGED resources

Exists(n) == resources[n] # NoResource
Idle == UNCHANGED <<zarf, proxyVars, policy, names, nsLabel>>

Create(n) ==
    /\ ~Exists(n)
    /\ Admit(n, "create", Manifest[n])
    /\ Idle

\* The author's manifest is applied over a resource: the fields that it sets
\* are its own again.  The images of a pod stay.
Apply(n) ==
    /\ Exists(n) /\ resources[n].kind # "pod"
    /\ Admit(n, "update", [resources[n] EXCEPT !.refs = Manifest[n].refs, !.creds = Manifest[n].creds])
    /\ Idle

\* A controller updates a resource as it finds it.
Touch(n) ==
    /\ Exists(n)
    /\ Admit(n, "update", resources[n])
    /\ Idle

\* A rollback or a restore: the resource is created from a copy of itself,
\* without what belonged to the running pod.
Recreate(n) ==
    /\ Exists(n)
    /\ Admit(n, "create", [resources[n] EXCEPT !.ephemeral = <<>>])
    /\ Idle

\* kubectl debug: one more ephemeral container, through the subresource.
Debug(n) ==
    /\ Exists(n) /\ resources[n].kind = "pod" /\ Len(resources[n].ephemeral) < MaxDebugs
    /\ Admit(n, "debug", [resources[n] EXCEPT !.ephemeral = Append(@, Manifest[n].refs[1])])
    /\ Idle

Delete(n) ==
    /\ Exists(n)
    /\ resources' = [resources EXCEPT ![n] = NoResource]
    /\ last' = NoRequestYet
    /\ UNCHANGED <<faults, zarf, proxyVars, policy, names, nsLabel>>

\* Somebody labels the namespace.
LabelNamespace ==
    /\ nsLabel' \in {"none", "mutate", "ignore"} \ {nsLabel}
    /\ last' = NoRequestYet
    /\ UNCHANGED <<zarf, proxyVars, policy, names, resources, faults>>

\* An init or an update of the credentials saves another state.
ChangeState ==
    /\ \E z \in States : <<zarf, z>> \in Changes /\ zarf' = z
    /\ last' = NoRequestYet
    /\ UNCHANGED <<proxyVars, policy, names, nsLabel, resources, faults>>

\* The webhook and the proxy only read the state, so what they do does not
\* depend on each other: the proxy is looked at where there are no resources.
Next ==
    \/ \E n \in names : Create(n) \/ Apply(n) \/ Touch(n) \/ Recreate(n) \/ Debug(n) \/ Delete(n)
    \/ LabelNamespace \/ ChangeState
    \/ names = {} /\ ProxyNext /\ UNCHANGED <<zarf, webhookVars>>

Spec == Init /\ [][Next]_vars
-----------------------------------------------------------------------------
\* Resources, states and requests stay within their shapes, and the hashes of a
\* reference are never more than two.
TypeOK ==
    /\ zarf \in States /\ policy \in {"all", "labeled"} /\ nsLabel \in {"none", "mutate", "ignore"}
    /\ last.by \in {"nobody", "agent", "denied"} /\ faults \in 0 .. MaxFaults
    /\ client.hops \in 0 .. MaxHops
    /\ \A n \in Names : \A i \in DOMAIN resources[n].refs : Len(resources[n].refs[i].id) <= 3

\* Where a push has put what the author's reference u names: under the tag and
\* under the tag with the hash of the name, or under its digest; a repository
\* under its name with the hash.
ImageIsThere(host, u, v) ==
    /\ v.host = host /\ v.digest = u.digest
    /\ u.digest = "" => LET tag == IF u.id = <<>> THEN <<"latest">> ELSE u.id
                         IN  v.id \in {tag, tag \o <<u.host>>}
ChartIsThere(u, v) == v.host = RegistryAddress(zarf) /\ v.id = <<>>
RepoIsThere(u, v) == v.host = zarf.git /\ v.id = u.id \o <<u.host>> /\ v.user = zarf.gitUser

IsThere(r, u, v) ==
    IF r.kind = "pod" THEN ImageIsThere(zarf.address, u, v)
    ELSE IF r.kind = "oci" THEN
         IF r.semver THEN ChartIsThere(u, v) ELSE ImageIsThere(RegistryAddress(zarf), u, v)
    ELSE IF u.scheme = "oci" THEN r.type # "oci" \/ zarf.address = NoHost \/ ChartIsThere(u, v)
    ELSE IF u.scheme = "git" THEN zarf.git = NoHost \/ RepoIsThere(u, v)
    ELSE v = u

\* No other pod that was written for something else has been given the same
\* image, as images of one path and tag from two registries could be.
Unmistakable(n) ==
    \A k \in names : Exists(k) /\ resources[k].kind = "pod" =>
        \A i \in DOMAIN resources[n].refs, j \in DOMAIN resources[k].refs :
            resources[n].refs[i] = resources[k].refs[j] =>
                \/ ParseImageRef(Manifest[n].refs[i]) = ParseImageRef(Manifest[k].refs[j])
                \/ resources[n].refs[i].digest # ""

\* The tag of what an earlier version had sent to the service's IP, hashed once
\* more: mutateOCIRepo knows that IP on an update, and not on a create.
HashedAgain(n, v) ==
    Legacy[n] # NoResource /\ v.id = Append(Legacy[n].refs[1].id, Service.ip)

\* Whatever the agent admits asks Zarf's services for a name under which the
\* push has put the very thing that the author named and nothing else, after
\* any number of updates, rollbacks and changes of the mode and the credentials,
\* and a repository secret has the credentials of that moment.  A pod that is
\* labelled as patched keeps what it has.  The exception is the code's: an
\* OCIRepository at the service's IP that is created anew (flux-ocirepo.go:86-99)
\* asks for a tag that nobody pushed, until its author's manifest is applied.
AskedIsPushed ==
    last.by = "agent" =>
        LET r == resources[last.name]
            m == Manifest[last.name]
        IN  /\ ~(r.kind = "pod" /\ last.was) /\ last.op # "debug" =>
                  \A i \in DOMAIN r.refs :
                      \/ IsThere(r, m.refs[i], r.refs[i])
                      \/ r.kind = "oci" /\ HashedAgain(last.name, r.refs[i])
            /\ last.op # "debug" /\ r.kind = "secret" /\ r.refs # <<>> /\ ServiceUsable(zarf, r.refs) =>
                  r.creds = getCreds(zarf, r.refs[1])
            /\ last.op = "debug" => IsThere(r, m.refs[1], r.ephemeral[Len(r.ephemeral)])
            /\ r.kind = "pod" => Unmistakable(last.name)

\* The agent leaves what it has admitted alone: neither a controller's update
\* nor a restore makes it change the resource again, so that no two of them
\* ever undo each other's work.  mutateOCIRepo with mTLS is the exception.
NothingLeftToDo ==
    [][\A n \in names :
         (last.name = n /\ last.by = "agent" /\ last.op # "debug" /\ (Touch(n) \/ Recreate(n)))
             => \/ resources'[n] = [resources[n] EXCEPT !.ephemeral = resources'[n].ephemeral]
                \/ zarf.mtls /\ resources[n].kind = "oci"]_vars

\* A redirect or a link of a server leads the client back to that path of the
\* server which its user agent belongs to, with the credentials for it (a Git
\* user, and only for a Git client), also when the state changes on the way.
FollowedIsServed ==
    server.to # NoHost /\ client.follows # "" =>
        /\ server.at = client.follows
        /\ (server.as \in {z.gitUser : z \in States}) = IsGit

=============================================================================
