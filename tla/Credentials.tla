----------------------------- MODULE Credentials ----------------------------
(***************************************************************************)
(* `zarf tools update-creds registry | git | agent`: new credentials are   *)
(* given to the service, then to the secrets of the namespaces, then to    *)
(* the Zarf state, and a failure on the way starts a rollback that runs    *)
(* the same three steps with the previous credentials.                     *)
(*                                                                         *)
(* Credentials are tokens: all that matters is which store holds which.    *)
(* A fresh token stands for the random passwords or keys of state.Merge,   *)
(* or for the ones the user gives.                                         *)
(***************************************************************************)
EXTENDS Naturals

CONSTANTS
    Namespace,   \* the namespaces with secrets that Zarf manages
    Listed,      \* those labelled as managed by Zarf and not skipped or ignored by the agent
    Cred,        \* credentials
    Proxy,       \* whether an internal registry is in proxy mode, with mTLS
    Faults,      \* which kinds of step may fail
    MaxFaults    \* bound: how many steps may fail in a behaviour

Service       == {"registry", "git", "agent"}
SecretService == {"registry", "git"}
Account       == {"registry", "gitPull", "gitPush", "agent"}
AccountsOf(s) == IF s = "git" THEN {"gitPull", "gitPush"} ELSE {s}
FaultKinds    == {"helm", "gitea", "read", "write", "cancel", "crash"}

\* internal: the service is the one Zarf deploys, not an external address.
ServiceInfo == [internal : BOOLEAN, cred : Cred]

ASSUME CredentialsAssumption ==
    /\ Cred # {}
    /\ "client" \notin Namespace /\ Listed \subseteq Namespace
    /\ Proxy \in BOOLEAN
    /\ Faults \subseteq FaultKinds
    /\ MaxFaults \in Nat

VARIABLES
    zarfState,  \* [Service -> ServiceInfo], the zarf-state secret
    live,       \* [Account -> Cred], what the deployed services accept
    secrets,    \* [SecretService -> [Namespace -> Cred]], pull and git secrets
    pending,    \* services whose newest Helm revision is left as pending
    trusted,    \* who holds a client certificate of the registry server's CA
    pc,         \* where the command is; "idle" between invocations
    cancelled,  \* a signal cancelled the command's context
    faults,     \* how many steps have failed so far
    last,       \* how the last command ended
    svc,        \* the service being updated
    old, new,   \* its entries in oldState and newState
    rollback,   \* running the rollback of runWithRollback
    todo,       \* namespaces not yet visited by the current loop
    agreed,     \* history: did all stores agree when the command began
    unlucky     \* history: did a call of the rollback itself fail, or the record of
                \* a failed upgrade get lost, so that Helm refuses to upgrade back

clusterVars == <<zarfState, live, secrets, pending, trusted>>
commandVars == <<svc, old, new, agreed>>
vars == <<zarfState, live, secrets, pending, trusted, pc, cancelled, faults, last, svc, old, new,
          rollback, todo, agreed, unlucky>>

\* The service itself, when it is internal, and the secrets hold the
\* credentials that the Zarf state has for it.
Agree(s) ==
    /\ zarfState[s].internal => \A a \in AccountsOf(s) : live[a] = zarfState[s].cred
    /\ s \in SecretService => \A n \in Namespace : secrets[s][n] = zarfState[s].cred

InUse(s) == {zarfState[s].cred} \cup {live[a] : a \in AccountsOf(s)} \cup
            IF s \in SecretService THEN {secrets[s][n] : n \in Namespace} ELSE {}

Init ==
    \E c \in Cred :
      /\ zarfState = [s \in Service |-> [internal |-> TRUE, cred |-> c]]
      /\ live = [a \in Account |-> c]
      /\ secrets = [s \in SecretService |-> [n \in Namespace |-> c]]
      /\ pending = {} /\ trusted = Namespace \cup {"client"}
      /\ pc = "idle" /\ cancelled = FALSE /\ faults = 0 /\ last = "none"
      /\ svc \in Service
      /\ old = zarfState[svc] /\ new = old
      /\ rollback = FALSE /\ todo = {} /\ agreed = TRUE /\ unlucky = FALSE

-----------------------------------------------------------------------------
Fault(kind) == kind \in Faults /\ faults < MaxFaults /\ faults' = faults + 1

\* A call fails because the world does, or because the context is cancelled.
CallFails(kind) ==
    /\ Fault(kind) \/ (cancelled /\ UNCHANGED faults)
    /\ unlucky' = (unlucky \/ rollback)

target == IF rollback THEN old ELSE new
from   == IF rollback THEN new ELSE old

End(ending) ==
    /\ pc' = "idle"
    /\ last' = ending
    /\ cancelled' = FALSE
    /\ todo' = {}

\* state.Merge: passwords the user does not give are generated when the
\* registry will be, or the git server was, internal; otherwise they stay.
Merge(s, oldInfo, internal) ==
    LET fresh == CHOOSE c \in Cred : c \notin InUse(s)
        keep  == \/ s = "registry" /\ ~internal /\ ~oldInfo.internal
                 \/ s = "git" /\ ~oldInfo.internal
    IN [internal : {internal}, cred : {fresh} \cup IF keep THEN {oldInfo.cred} ELSE {}]

\* The command loads the state, merges the options into it and is confirmed.
\* Zarf-managed mTLS certificates come first and are not rolled back.
UpdateCreds(s, internal) ==
    /\ pc = "idle"
    /\ s = "agent" => internal
    /\ Cred \ InUse(s) # {}
    /\ svc' = s
    /\ old' = zarfState[s]
    /\ new' \in Merge(s, zarfState[s], internal)
    /\ rollback' = FALSE
    /\ agreed' = Agree(s)
    /\ unlucky' = FALSE
    /\ last' = "none"
    /\ pc' = IF s = "registry" /\ Proxy /\ internal THEN "clientCert" ELSE "service"
    /\ UNCHANGED <<clusterVars, cancelled, faults, todo>>

-----------------------------------------------------------------------------
(* ApplyZarfManagedMTLSSecrets, under a new CA.                            *)

CertPhases == {"clientCert", "serverCert", "namespaceCerts"}

ApplyClientCert ==
    /\ pc = "clientCert"
    /\ ~cancelled
    /\ trusted' = trusted \ {"client"}
    /\ pc' = "serverCert"
    /\ UNCHANGED <<zarfState, live, secrets, pending, cancelled, faults, last, commandVars,
                   rollback, todo, unlucky>>

\* Mutated: the namespaces with a client certificate are not listed.
ApplyServerCertOnly ==
    /\ pc = "serverCert"
    /\ ~cancelled
    /\ trusted' = {"client"}
    /\ todo' = {}
    /\ pc' = "namespaceCerts"
    /\ UNCHANGED <<zarfState, live, secrets, pending, cancelled, faults, last, commandVars,
                   rollback, unlucky>>

\* From here on only the client certificates of the new CA are trusted.  The
\* namespaces that get one are listed by their label, not by the secret: one
\* that existed before Zarf has the secret from the post-renderer but no label.
ApplyServerCert ==
    /\ pc = "serverCert"
    /\ ~cancelled
    /\ trusted' = {"client"}
    /\ todo' = Listed
    /\ pc' = "namespaceCerts"
    /\ UNCHANGED <<zarfState, live, secrets, pending, cancelled, faults, last, commandVars,
                   rollback, unlucky>>

ApplyNamespaceCert ==
    /\ pc = "namespaceCerts"
    /\ ~cancelled
    /\ \E n \in todo : trusted' = trusted \cup {n} /\ todo' = todo \ {n}
    /\ UNCHANGED <<zarfState, live, secrets, pending, pc, cancelled, faults, last, commandVars,
                   rollback, unlucky>>

CertsDone ==
    /\ pc = "namespaceCerts"
    /\ todo = {}
    /\ pc' = "service"
    /\ UNCHANGED <<clusterVars, cancelled, faults, last, commandVars, rollback, todo, unlucky>>

\* A failure among the certificates ends the command without a rollback.
CertsFail ==
    /\ pc \in CertPhases
    /\ CallFails("write")
    /\ End("failed")
    /\ UNCHANGED <<clusterVars, commandVars, rollback>>

-----------------------------------------------------------------------------
(* applyState of the three commands, forward and as rollback.              *)

\* Mutated: the rollback is tried again until it succeeds.
StepFailsUntilRestored ==
    /\ rollback' = TRUE
    /\ pc' = "service"
    /\ todo' = {}
    /\ UNCHANGED <<cancelled, last>>

\* Mutated: the rollback begins with the step that failed.
StepFailsRollbackFromHere ==
    IF rollback
      THEN End("inconsistent") /\ UNCHANGED rollback
      ELSE /\ rollback' = TRUE
           /\ UNCHANGED <<pc, todo, cancelled, last>>

\* runWithRollback: the first failure starts the rollback, with the same
\* context; a failure of the rollback is reported as inconsistent.
StepFails ==
    IF rollback
      THEN End("inconsistent") /\ UNCHANGED rollback
      ELSE /\ rollback' = TRUE
           /\ pc' = "service"
           /\ todo' = {}
           /\ UNCHANGED <<cancelled, last>>

\* Mutated: the rollback leaves the registry's release as it is.
UpdatesServiceForward ==
    \/ svc = "registry" /\ new.internal /\ ~rollback
    \/ svc = "git" /\ target.internal
    \/ svc = "agent"

\* Whether applyState touches the service: the rollback of a registry only
\* when both entries are internal, of a git server when the restored one is.
UpdatesService ==
    \/ svc = "registry" /\ new.internal /\ (rollback => old.internal)
    \/ svc = "git" /\ target.internal
    \/ svc = "agent"

AfterService ==
    /\ pc' = IF svc = "agent" THEN "save" ELSE "secrets"
    /\ todo' = IF svc = "agent" THEN {} ELSE Namespace

SkipService ==
    /\ pc = "service"
    /\ ~UpdatesService
    /\ AfterService
    /\ UNCHANGED <<clusterVars, cancelled, faults, last, commandVars, rollback, unlucky>>

\* The call is one that Helm upgrades the service's release for.
CallsHelm == pc = "service" /\ svc # "git" /\ UpdatesService

\* UpdateZarfRegistryValues or UpdateZarfAgentValues.  The registry's
\* certificates are new when it looks at them, so InitRegistryCerts changes none.
UpdateRelease ==
    /\ CallsHelm /\ svc \notin pending
    /\ ~cancelled
    /\ live' = [live EXCEPT ![svc] = target.cred]
    /\ AfterService
    /\ UNCHANGED <<zarfState, secrets, pending, trusted, cancelled, faults, last, commandVars,
                   rollback, unlucky>>

\* The release may have been upgraded although waiting for it failed, and the
\* record of the failure may be lost, so that the revision stays pending.
UpdateReleaseFails ==
    /\ CallsHelm /\ svc \notin pending
    /\ Fault("helm") \/ (cancelled /\ UNCHANGED faults)
    /\ live' \in {live, [live EXCEPT ![svc] = target.cred]}
    /\ pending' \in {pending, pending \cup {svc}}
    /\ unlucky' = (unlucky \/ rollback \/ svc \in pending')
    /\ StepFails
    /\ UNCHANGED <<zarfState, secrets, trusted, commandVars>>

\* "another operation is in progress": Helm refuses to upgrade a release whose
\* newest revision is pending, and update-creds does not roll it back.
UpdateReleaseRefused ==
    /\ CallsHelm /\ svc \in pending
    /\ StepFails
    /\ UNCHANGED <<clusterVars, faults, commandVars, unlucky>>

\* UpdateInternalGitServerSecret logs in with the push credentials it changes
\* FROM, and changes the read-only user first.
LoggedIn == live["gitPush"] = from.cred
gitUser  == IF pc = "service" THEN "gitPull" ELSE "gitPush"

UpdateGitUser ==
    /\ pc = "service" \/ pc = "gitPush"
    /\ svc = "git"
    /\ UpdatesService
    /\ ~cancelled
    /\ LoggedIn
    /\ live' = [live EXCEPT ![gitUser] = target.cred]
    /\ IF pc = "service" THEN pc' = "gitPush" /\ UNCHANGED todo ELSE AfterService
    /\ UNCHANGED <<zarfState, secrets, pending, trusted, cancelled, faults, last, commandVars,
                   rollback, unlucky>>

\* Gitea refuses the login, or the call fails, before or after it took effect.
UpdateGitUserFails ==
    /\ pc = "service" \/ pc = "gitPush"
    /\ svc = "git"
    /\ UpdatesService
    /\ \/ ~LoggedIn /\ UNCHANGED <<live, faults, unlucky>>
       \/ /\ CallFails("gitea")
          /\ \/ UNCHANGED live
             \/ LoggedIn /\ live' = [live EXCEPT ![gitUser] = target.cred]
    /\ StepFails
    /\ UNCHANGED <<zarfState, secrets, pending, trusted, commandVars>>

\* UpdateZarfManagedImageSecrets and UpdateZarfManagedGitSecrets; the latter
\* passes over a namespace whose secret it cannot read.
UpdateSecret ==
    /\ pc = "secrets"
    /\ \E n \in todo :
         /\ todo' = todo \ {n}
         /\ \/ /\ ~cancelled
               /\ secrets' = [secrets EXCEPT ![svc][n] = target.cred]
               /\ UNCHANGED <<faults, unlucky>>
            \/ svc = "git" /\ CallFails("read") /\ UNCHANGED secrets
    /\ UNCHANGED <<zarfState, live, pending, trusted, pc, cancelled, last, commandVars, rollback>>

\* Mutated: a secret that cannot be written is passed over.
UpdateSecretPassesOver ==
    /\ pc = "secrets"
    /\ CallFails("write")
    /\ \E n \in todo : todo' = todo \ {n}
    /\ UNCHANGED <<clusterVars, pc, cancelled, last, commandVars, rollback>>

\* A write that fails may have taken effect all the same.
UpdateSecretFails ==
    /\ pc = "secrets"
    /\ CallFails("write")
    /\ \E n \in todo : secrets' \in {secrets, [secrets EXCEPT ![svc][n] = target.cred]}
    /\ StepFails
    /\ UNCHANGED <<zarfState, live, pending, trusted, commandVars>>

SecretsDone ==
    /\ pc = "secrets"
    /\ todo = {}
    /\ pc' = "save"
    /\ UNCHANGED <<clusterVars, cancelled, faults, last, commandVars, rollback, todo, unlucky>>

\* The state is saved as the final commit.
SaveState ==
    /\ pc = "save"
    /\ ~cancelled
    /\ zarfState' = [zarfState EXCEPT ![svc] = target]
    /\ End(IF rollback THEN "rolledBack" ELSE "updated")
    /\ UNCHANGED <<live, secrets, pending, trusted, faults, commandVars, rollback, unlucky>>

SaveStateFails ==
    /\ pc = "save"
    /\ CallFails("write")
    /\ zarfState' \in {zarfState, [zarfState EXCEPT ![svc] = target]}
    /\ StepFails
    /\ UNCHANGED <<live, secrets, pending, trusted, commandVars>>

Cancel ==
    /\ pc # "idle"
    /\ ~cancelled
    /\ Fault("cancel")
    /\ cancelled' = TRUE
    /\ UNCHANGED <<clusterVars, pc, last, commandVars, rollback, todo, unlucky>>

\* A kill within an upgrade leaves the pending revision, applied or not.
Killed ==
    /\ pc # "idle"
    /\ Fault("crash")
    /\ End("killed")
    /\ \/ UNCHANGED <<live, pending>>
       \/ /\ CallsHelm /\ svc \notin pending
          /\ live' \in {live, [live EXCEPT ![svc] = target.cred]}
          /\ pending' = pending \cup {svc}
    /\ UNCHANGED <<zarfState, secrets, trusted, commandVars, rollback, unlucky>>

CommandStep ==
    \/ ApplyClientCert \/ ApplyServerCert \/ ApplyNamespaceCert \/ CertsDone \/ CertsFail
    \/ SkipService \/ UpdateRelease \/ UpdateReleaseFails \/ UpdateReleaseRefused
    \/ UpdateGitUser \/ UpdateGitUserFails
    \/ UpdateSecret \/ UpdateSecretFails \/ SecretsDone
    \/ SaveState \/ SaveStateFails

Next ==
    \/ \E s \in Service, internal \in BOOLEAN : UpdateCreds(s, internal)
    \/ CommandStep
    \/ Cancel
    \/ Killed

\* A running command goes on until it ends.
Spec == Init /\ [][Next]_vars /\ WF_vars(CommandStep)

-----------------------------------------------------------------------------
TypeOK ==
    /\ zarfState \in [Service -> ServiceInfo]
    /\ live \in [Account -> Cred]
    /\ secrets \in [SecretService -> [Namespace -> Cred]]
    /\ pending \subseteq {"registry", "agent"}
    /\ trusted \subseteq Namespace \cup {"client"}
    /\ pc \in CertPhases \cup {"idle", "service", "gitPush", "secrets", "save"}
    /\ last \in {"none", "updated", "rolledBack", "inconsistent", "failed", "killed"}
    /\ cancelled \in BOOLEAN /\ faults \in Nat
    /\ svc \in Service /\ old \in ServiceInfo /\ new \in ServiceInfo
    /\ rollback \in BOOLEAN /\ todo \subseteq Namespace
    /\ agreed \in BOOLEAN /\ unlucky \in BOOLEAN

\* A command that reports success has changed the service, every namespace
\* and the state to the new credentials, whatever earlier commands left.
UpdateTakesEffect == last = "updated" => zarfState[svc] = new /\ Agree(svc)

\* A command that reports "was rolled back to the previous credentials" has
\* left the service, every namespace and the state with them.
RollbackRestores == last = "rolledBack" /\ agreed => zarfState[svc] = old /\ Agree(svc)

\* Whichever way applyState ends, and although the certificates are not rolled
\* back, the client certificates of the new CA of a proxy registry are with the
\* registry's own client and in every namespace that Zarf lists.  A namespace
\* that is not listed is left with a certificate of the old CA.
ClientsTrusted ==
    /\ last \in {"updated", "rolledBack", "inconsistent"}
    /\ svc = "registry" /\ Proxy /\ new.internal
    => trusted = Listed \cup {"client"}

\* "runs forward and, if it fails, attempts rollback to restore the previous
\* credentials": an update of the registry or the agent that fails at any step,
\* with or without effect, leaves the previous credentials everywhere, unless a
\* call of the rollback itself fails or Helm refuses the rollback because its
\* record of the failed upgrade was lost (runWithRollback).  An update that
\* Helm refuses from the start changes nothing.
FailedUpdateRestores ==
    last \in {"rolledBack", "inconsistent"} /\ svc # "git" /\ agreed /\ ~unlucky
        => zarfState[svc] = old /\ Agree(svc)

\* Whatever failed or interrupted updates leave behind, repeating the update
\* brings the registry and the agent back to agreement with the state.  The
\* exception is a revision that Helm left pending, by a kill or a lost record:
\* it refuses every update after that until the service is deployed anew.
RepeatedUpdateRepairs ==
    \A s \in {"registry", "agent"} : ~Agree(s) ~> Agree(s) \/ s \in pending
=============================================================================
