------------------------------ MODULE MCAgent -------------------------------
(* Resources of every kind whose references differ in the host only, and    *)
(* the states of an internal and of an external registry.                   *)
EXTENDS Agent

Up1 == [name |-> "docker.io", port |-> 0]
Up2 == [name |-> "ghcr.io", port |-> 0]
MCService == [dns |-> [name |-> "registry.zarf.svc", port |-> 5000],
              ip |-> [name |-> "10.43.1.1", port |-> 5000]]

State(mode, port, mtls, git, user) ==
    [mode |-> mode, mtls |-> mtls, pull |-> "pull", gitUser |-> user,
     address |-> [name |-> IF mode = "external" THEN "harbor" ELSE "127.0.0.1", port |-> port],
     git |-> IF git THEN [name |-> "gitea", port |-> 3000] ELSE NoHost,
     artifact |-> [name |-> "gitea", port |-> 3000]]

NodePort == State("nodeport", 31999, FALSE, FALSE, "git1")
WithGit  == State("nodeport", 31999, FALSE, TRUE, "git1")
NewCreds == [WithGit EXCEPT !.pull = "pull2"]
ProxyTLS == State("proxy", 5000, TRUE, TRUE, "git1")
External == State("external", 443, FALSE, TRUE, "git1")
MCStates == {NodePort, WithGit, NewCreds, ProxyTLS, External}
MCChanges == {<<NodePort, WithGit>>, <<WithGit, ProxyTLS>>, <<ProxyTLS, WithGit>>, <<WithGit, NewCreds>>}

Ref(scheme, host, id, digest) ==
    [scheme |-> scheme, host |-> host, id |-> id, digest |-> digest, user |-> "author"]
Image(host) == Ref("oci", host, <<"1.0">>, "")
Digest(host) == Ref("oci", host, <<"1.0">>, "sha")
Latest(host) == Ref("oci", host, <<"latest">>, "")
Chart(host) == Ref("oci", host, <<>>, "")
Repo(host) == Ref("git", host, <<"repo">>, "")
Star == Ref("other", NoHost, <<>>, "")
Absent == Ref("none", NoHost, <<>>, "")

Resource(kind, refs) == [NoResource EXCEPT !.kind = kind, !.refs = refs]

MCNames == {"pod1", "pod2", "git", "helm", "helm-http", "oci", "oci-chart", "oci-digest", "oci-semver",
            "oci-legacy", "app", "appset", "bad", "project", "secret", "secret-git", "nourl", "adopted"}
MCManifest == [n \in MCNames |->
    IF n = "pod1" THEN Resource("pod", <<Image(Up1), Digest(Up1), Chart(Up1)>>)
    ELSE IF n = "pod2" THEN Resource("pod", <<Image(Up2), Digest(Up2), Latest(Up1)>>)
    ELSE IF n = "git" THEN Resource("git", <<Repo(Up1)>>)
    ELSE IF n = "helm" THEN Resource("helm", <<Chart(Up1)>>)
    ELSE IF n = "helm-http" THEN [Resource("helm", <<Chart(Up1)>>) EXCEPT !.type = "default"]
    ELSE IF n = "oci" THEN Resource("oci", <<Image(Up1)>>)
    ELSE IF n = "oci-chart" THEN [Resource("oci", <<Image(Up1)>>) EXCEPT !.chart = TRUE]
    ELSE IF n = "oci-digest" THEN Resource("oci", <<Digest(Up1)>>)
    ELSE IF n = "oci-semver" THEN [Resource("oci", <<Chart(Up1)>>) EXCEPT !.semver = TRUE]
    ELSE IF n = "oci-legacy" THEN Resource("oci", <<Image(Up1)>>)
    ELSE IF n = "app" THEN Resource("app", <<Repo(Up1), Chart(Up2)>>)
    ELSE IF n = "appset" THEN Resource("app", <<Absent, Repo(Up2)>>)
    ELSE IF n = "bad" THEN Resource("app", <<Star>>)
    ELSE IF n = "project" THEN Resource("project", <<Star, Repo(Up1), Chart(Up1)>>)
    ELSE IF n = "secret" THEN Resource("secret", <<Chart(Up1)>>)
    ELSE IF n = "secret-git" THEN Resource("secret", <<Repo(Up1)>>)
    ELSE IF n = "nourl" THEN Resource("secret", <<>>)
    ELSE [Resource("pod", <<Image(Up1)>>) EXCEPT !.label = "mutate"]]

\* An OCIRepository that an earlier version has sent to the service's IP.
MCLegacy == [n \in MCNames |->
    IF n # "oci-legacy" THEN NoResource
    ELSE [Resource("oci", <<Ref("oci", MCService.ip, <<"1.0", Up1>>, "")>>) EXCEPT
             !.patched = TRUE, !.secret = "registry", !.insecure = TRUE]]

MCWatched == {{}, {"pod1", "pod2"}} \cup {{n} : n \in MCNames}
=============================================================================
