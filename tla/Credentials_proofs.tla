------------------------- MODULE Credentials_proofs -------------------------
(***************************************************************************)
(* What `zarf tools update-creds` reports is true of the cluster, for any  *)
(* number of namespaces, credentials and failures.                         *)
(***************************************************************************)
EXTENDS Credentials, TLAPS

ApplyPhases == {"service", "gitPush", "secrets", "save"}

\* What applyState has done so far to the service: it holds the target's
\* credentials once the secrets' turn has come.  A rollback that does not
\* touch the registry finds it as it was before the command.
ServiceDone ==
    /\ pc \in {"secrets", "save"} /\ (rollback => agreed) /\ target.internal
         => \A a \in AccountsOf(svc) : live[a] = target.cred
    /\ pc = "gitPush" => svc = "git" /\ live["gitPull"] = target.cred
    /\ pc # "idle" /\ agreed /\ svc = "registry" /\ old.internal /\ ~new.internal
         => live["registry"] = old.cred

\* Only the git secrets that cannot be read are passed over.
SecretsRead == svc = "git" => "read" \notin Faults

\* What applyState has done so far to the secrets.  When secrets can be read,
\* only a cancelled command passes over a namespace, and it never saves the state.
SecretsDoneSoFar ==
    /\ pc \in {"secrets", "save"} /\ svc \in SecretService /\ ~cancelled /\ SecretsRead
         => \A n \in Namespace \ todo : secrets[svc][n] = target.cred
    /\ pc = "save" => todo = {}

CertsDoneSoFar ==
    /\ pc = "namespaceCerts" => todo \subseteq Listed /\ trusted = {"client"} \cup (Listed \ todo)
    /\ pc \in ApplyPhases /\ svc = "registry" /\ Proxy /\ new.internal
         => trusted = Listed \cup {"client"}

\* The inductive invariant behind the first three theorems below.
UpdateProgress ==
    /\ pc # "idle" => last = "none"
    /\ ServiceDone
    /\ SecretsDoneSoFar
    /\ CertsDoneSoFar
    /\ SecretsRead => UpdateTakesEffect /\ RollbackRestores
    /\ ClientsTrusted

-----------------------------------------------------------------------------
\* state.Merge yields an entry for the requested kind of service.
LEMMA MergeType ==
    ASSUME NEW s \in Service, NEW oldInfo \in ServiceInfo, NEW internal \in BOOLEAN,
           Cred \ InUse(s) # {}, NEW info \in Merge(s, oldInfo, internal)
    PROVE  info \in ServiceInfo /\ info.internal = internal
<1> DEFINE fresh == CHOOSE c \in Cred : c \notin InUse(s)
<1>1. fresh \in Cred
    BY DEF InUse
<1>2. info \in [internal : {internal}, cred : {fresh} \cup {oldInfo.cred}]
    BY DEF Merge
<1> HIDE DEF fresh
<1> QED
    BY <1>1, <1>2 DEF ServiceInfo

\* A failing call counts as a fault, or the context is cancelled.
LEMMA CallFailsType ==
    ASSUME TypeOK, NEW kind, CallFails(kind)
    PROVE  faults' \in Nat /\ unlucky' \in BOOLEAN
<1>1. faults' \in Nat
    BY DEF TypeOK, CallFails, Fault
<1>2. unlucky' = (unlucky \/ rollback)
    BY DEF CallFails
<1>3. unlucky' \in BOOLEAN
    BY <1>2, Zenon DEF TypeOK
<1> QED
    BY <1>1, <1>3

\* A call that fails in a rollback is remembered.
LEMMA RollbackCallFails ==
    ASSUME NEW kind, CallFails(kind), rollback
    PROVE  unlucky'
<1>1. unlucky' = (unlucky \/ rollback)
    BY DEF CallFails
<1> QED
    BY <1>1, Zenon

\* runWithRollback either starts the rollback or ends the command.
LEMMA StepFailsType ==
    ASSUME TypeOK, StepFails
    PROVE  /\ pc' \in {"idle", "service"}
           /\ last' \in {last, "inconsistent"}
           /\ cancelled' \in BOOLEAN /\ rollback' \in BOOLEAN
           /\ todo' = {}
BY DEF TypeOK, StepFails, End

\* The credentials being applied.
LEMMA TargetType == TypeOK => target \in ServiceInfo /\ target.cred \in Cred
BY DEF TypeOK, target, ServiceInfo

\* Every step of update-creds keeps the stores and the command well typed.
THEOREM CredentialsTypeCorrect == Spec => []TypeOK
<1> USE CredentialsAssumption
<1>1. Init => TypeOK
  <2> SUFFICES ASSUME Init PROVE TypeOK
    OBVIOUS
  <2>1. PICK c \in Cred :
          /\ zarfState = [s \in Service |-> [internal |-> TRUE, cred |-> c]]
          /\ live = [a \in Account |-> c]
          /\ secrets = [s \in SecretService |-> [n \in Namespace |-> c]]
    BY DEF Init
  <2>2. [internal |-> TRUE, cred |-> c] \in ServiceInfo
    BY DEF ServiceInfo
  <2>3. zarfState \in [Service -> ServiceInfo]
    BY <2>1, <2>2
  <2>4. svc \in Service /\ old = zarfState[svc] /\ new = old
    BY Zenon DEF Init
  <2>5. /\ pending = {} /\ trusted = Namespace \cup {"client"}
        /\ pc = "idle" /\ cancelled = FALSE /\ faults = 0 /\ last = "none"
        /\ rollback = FALSE /\ todo = {} /\ agreed = TRUE /\ unlucky = FALSE
    BY Zenon DEF Init
  <2> QED
    BY <2>1, <2>3, <2>4, <2>5 DEF TypeOK
<1>2. TypeOK /\ [Next]_vars => TypeOK'
  <2> SUFFICES ASSUME TypeOK, [Next]_vars PROVE TypeOK'
    OBVIOUS
  <2>0. target \in ServiceInfo /\ target.cred \in Cred
    BY TargetType
  <2>a. ASSUME NEW kind, CallFails(kind)
        PROVE  faults' \in Nat /\ unlucky' \in BOOLEAN
    BY <2>a, CallFailsType
  <2>b. ASSUME StepFails
        PROVE  /\ pc' \in {"idle", "service"} /\ last' \in {last, "inconsistent"}
               /\ cancelled' \in BOOLEAN /\ rollback' \in BOOLEAN /\ todo' = {}
    BY <2>b, StepFailsType
  <2> USE DEF TypeOK
  <2>1. ASSUME NEW s \in Service, NEW internal \in BOOLEAN, UpdateCreds(s, internal)
        PROVE  TypeOK'
    <3>1. new' \in ServiceInfo
        BY <2>1, MergeType DEF UpdateCreds
    <3>2. Agree(s) \in BOOLEAN
        BY DEF Agree
    <3> QED
        BY <2>1, <3>1, <3>2 DEF UpdateCreds, clusterVars, CertPhases
  <2>2. CASE ApplyClientCert \/ ApplyServerCert \/ ApplyNamespaceCert \/ CertsDone
    BY <2>2 DEF ApplyClientCert, ApplyServerCert, ApplyNamespaceCert, CertsDone,
                commandVars, clusterVars, CertPhases
  <2>3. CASE CertsFail
    BY <2>3, <2>a DEF CertsFail, End, commandVars, clusterVars
  <2>4. CASE SkipService
    BY <2>4 DEF SkipService, AfterService, commandVars, clusterVars, CertPhases
  <2>5. CASE UpdateRelease
    BY <2>5, <2>0 DEF UpdateRelease, CallsHelm, AfterService, commandVars, Account, CertPhases
  <2>6. CASE UpdateReleaseFails
    <3>1. faults' \in Nat /\ live' \in [Account -> Cred] /\ pending' \subseteq {"registry", "agent"}
        BY <2>6, <2>0 DEF UpdateReleaseFails, CallsHelm, Fault, Service, Account
    <3>2. unlucky' \in BOOLEAN
        BY <2>6, Zenon DEF UpdateReleaseFails
    <3> QED
        BY <2>6, <2>b, <3>1, <3>2 DEF UpdateReleaseFails, commandVars
  <2>6a. CASE UpdateReleaseRefused
    BY <2>6a, <2>b DEF UpdateReleaseRefused, commandVars, clusterVars
  <2>7. CASE UpdateGitUser
    BY <2>7, <2>0 DEF UpdateGitUser, AfterService, commandVars
  <2>8. CASE UpdateGitUserFails
    BY <2>8, <2>0, <2>a, <2>b DEF UpdateGitUserFails, commandVars
  <2>9. CASE UpdateSecret
    BY <2>9, <2>0, <2>a DEF UpdateSecret, commandVars
  <2>10. CASE UpdateSecretFails
    <3>1. secrets' \in [SecretService -> [Namespace -> Cred]]
        BY <2>10, <2>0 DEF UpdateSecretFails
    <3> QED
        BY <2>10, <3>1, <2>a, <2>b DEF UpdateSecretFails, commandVars
  <2>11. CASE SecretsDone
    BY <2>11 DEF SecretsDone, commandVars, clusterVars
  <2>12. CASE SaveState
    BY <2>12, <2>0 DEF SaveState, End, commandVars
  <2>13. CASE SaveStateFails
    BY <2>13, <2>0, <2>a, <2>b DEF SaveStateFails, commandVars
  <2>14. CASE Cancel
    BY <2>14 DEF Cancel, Fault, commandVars, clusterVars
  <2>15. CASE Killed
    <3>1. faults' \in Nat
        BY <2>15 DEF Killed, Fault
    <3>2. live' \in [Account -> Cred]
        BY <2>15, <2>0 DEF Killed
    <3>3. pending' \subseteq {"registry", "agent"}
        BY <2>15 DEF Killed, CallsHelm, Service
    <3> QED
        BY <2>15, <3>1, <3>2, <3>3 DEF Killed, End, commandVars, clusterVars
  <2>16. CASE UNCHANGED vars
    BY <2>16 DEF vars
  <2> QED
    BY <2>1, <2>2, <2>3, <2>4, <2>5, <2>6, <2>6a, <2>7, <2>8, <2>9, <2>10, <2>11, <2>12,
       <2>13, <2>14, <2>15, <2>16 DEF Next, CommandStep
<1> QED
    BY <1>1, <1>2, PTL DEF Spec

-----------------------------------------------------------------------------
\* A registry that both entries do not have in common is left alone.
RegistryUntouched ==
    agreed /\ svc = "registry" /\ old.internal /\ ~new.internal
      => live["registry"] = old.cred

\* A failure within applyState starts the rollback from its first step, or ends
\* the command without a claim about the credentials.
LEMMA StepFailsProgress ==
    ASSUME UpdateProgress, StepFails, pc \in ApplyPhases, RegistryUntouched',
           UNCHANGED <<trusted, commandVars>>
    PROVE  UpdateProgress'
<1>1. CASE rollback
  <2>1. pc' = "idle" /\ last' = "inconsistent"
    BY <1>1 DEF StepFails, End
  <2>2. ClientsTrusted'
    BY DEF UpdateProgress, CertsDoneSoFar, ClientsTrusted, commandVars
  <2> QED
    BY <1>1, <2>1, <2>2 DEF UpdateProgress, ServiceDone, SecretsDoneSoFar, CertsDoneSoFar,
       UpdateTakesEffect, RollbackRestores, ApplyPhases, commandVars
<1>2. CASE ~rollback
  <2>1. pc' = "service" /\ last' = last /\ last = "none"
    BY <1>2 DEF StepFails, UpdateProgress, ApplyPhases
  <2>2. CertsDoneSoFar'
    BY <2>1 DEF UpdateProgress, CertsDoneSoFar, commandVars, ApplyPhases
  <2> QED
    BY <2>1, <2>2 DEF UpdateProgress, ServiceDone, SecretsDoneSoFar, RegistryUntouched,
       UpdateTakesEffect, RollbackRestores, ClientsTrusted
<1> QED
    BY <1>1, <1>2

\* Every step keeps UpdateProgress.
LEMMA UpdateProgressStep ==
    ASSUME TypeOK, UpdateProgress, [Next]_vars
    PROVE  UpdateProgress'
<1>0. target \in ServiceInfo /\ target.cred \in Cred
    BY TargetType
<1>a. pc # "idle" => RegistryUntouched /\ last = "none"
    BY DEF UpdateProgress, ServiceDone, RegistryUntouched
<1>1. ASSUME NEW s \in Service, NEW internal \in BOOLEAN, UpdateCreds(s, internal)
      PROVE  UpdateProgress'
  <2>1. new'.internal = internal
    BY <1>1, MergeType DEF UpdateCreds, TypeOK
  <2>2. CertsDoneSoFar'
    BY <1>1, <2>1, CredentialsAssumption
    DEF UpdateCreds, clusterVars, CertsDoneSoFar, UpdateProgress, ApplyPhases
  <2>3. ServiceDone'
    BY <1>1 DEF UpdateCreds, clusterVars, ServiceDone, Agree, AccountsOf
  <2> QED
    BY <1>1, <2>2, <2>3 DEF UpdateCreds, UpdateProgress, SecretsDoneSoFar,
       UpdateTakesEffect, RollbackRestores, ClientsTrusted
<1>2. CASE ApplyClientCert \/ ApplyServerCert \/ ApplyNamespaceCert \/ CertsDone
  <2> USE <1>2, <1>a DEF ApplyClientCert, ApplyServerCert, ApplyNamespaceCert, CertsDone,
          commandVars, clusterVars
  <2>1. CertsDoneSoFar'
    BY DEF UpdateProgress, CertsDoneSoFar, ApplyPhases, TypeOK
  <2>2. ServiceDone' /\ SecretsDoneSoFar'
    BY DEF ServiceDone, SecretsDoneSoFar, RegistryUntouched
  <2> QED
    BY <2>1, <2>2 DEF UpdateProgress, UpdateTakesEffect, RollbackRestores, ClientsTrusted
<1>3. CASE CertsFail \/ Killed
  <2>1. pc' = "idle" /\ last' \in {"failed", "killed"}
    BY <1>3 DEF CertsFail, Killed, End
  <2> QED
    BY <2>1 DEF UpdateProgress, ServiceDone, SecretsDoneSoFar, CertsDoneSoFar,
       UpdateTakesEffect, RollbackRestores, ClientsTrusted, ApplyPhases
<1> USE DEF CallsHelm
<1>4. CASE SkipService \/ UpdateRelease \/ (UpdateGitUser /\ pc = "gitPush")
  <2>1. /\ pc \in {"service", "gitPush"} /\ AfterService
        /\ UNCHANGED <<secrets, trusted, cancelled, last, commandVars, rollback>>
    BY <1>4 DEF SkipService, UpdateRelease, UpdateGitUser, clusterVars
  <2>2. RegistryUntouched'
    BY <1>4, <1>a DEF SkipService, UpdateRelease, UpdateGitUser, UpdatesService,
       RegistryUntouched, commandVars, clusterVars
  <2>3. (rollback => agreed) /\ target.internal
          => \A a \in AccountsOf(svc) : live'[a] = target.cred
    <3>1. CASE SkipService
      <4> SUFFICES ASSUME rollback => agreed, target.internal
                   PROVE  \A a \in AccountsOf(svc) : live'[a] = target.cred
        OBVIOUS
      <4>1. rollback /\ svc = "registry" /\ ~new.internal
        BY <3>1 DEF SkipService, UpdatesService, target, TypeOK, Service
      <4> QED
        BY <4>1, <3>1, <1>a DEF SkipService, clusterVars, RegistryUntouched, target, AccountsOf
    <3>2. CASE UpdateRelease
        BY <3>2 DEF UpdateRelease, AccountsOf, TypeOK, Account, Service
    <3>3. CASE UpdateGitUser /\ pc = "gitPush"
        BY <3>3 DEF UpdateGitUser, gitUser, AccountsOf, TypeOK, Account, UpdateProgress,
           ServiceDone
    <3> QED
        BY <1>4, <3>1, <3>2, <3>3
  <2>4. pc' \in {"secrets", "save"} /\ target' = target
    BY <2>1 DEF AfterService, target, commandVars
  <2>5. ServiceDone'
    BY <2>1, <2>2, <2>3, <2>4 DEF ServiceDone, RegistryUntouched, commandVars
  <2>6. SecretsDoneSoFar'
    BY <2>1 DEF SecretsDoneSoFar, AfterService, commandVars, SecretService
  <2>7. CertsDoneSoFar'
    BY <2>1, <2>4 DEF CertsDoneSoFar, UpdateProgress, ApplyPhases, commandVars
  <2> QED
    BY <2>1, <2>4, <2>5, <2>6, <2>7, <1>a DEF UpdateProgress, UpdateTakesEffect,
       RollbackRestores, ClientsTrusted
<1>5. CASE UpdateGitUser /\ pc = "service"
  <2> USE <1>5, <1>a DEF UpdateGitUser, commandVars
  <2>1. ServiceDone'
    BY DEF ServiceDone, gitUser, target, TypeOK, Account
  <2>2. SecretsDoneSoFar' /\ CertsDoneSoFar'
    BY DEF SecretsDoneSoFar, CertsDoneSoFar, UpdateProgress, ApplyPhases
  <2> QED
    BY <2>1, <2>2 DEF UpdateProgress, UpdateTakesEffect, RollbackRestores, ClientsTrusted
<1>6. CASE UpdateReleaseFails \/ UpdateReleaseRefused \/ UpdateGitUserFails
  <2>1. /\ pc \in {"service", "gitPush"} /\ StepFails /\ UNCHANGED <<trusted, commandVars>>
    BY <1>6 DEF UpdateReleaseFails, UpdateReleaseRefused, UpdateGitUserFails, clusterVars
  <2>2. RegistryUntouched'
    BY <1>6, <1>a DEF UpdateReleaseFails, UpdateReleaseRefused, UpdateGitUserFails, UpdatesService,
       RegistryUntouched, commandVars, clusterVars
  <2> QED
    BY <2>1, <2>2, StepFailsProgress DEF ApplyPhases
<1>7. CASE UpdateSecretFails \/ SaveStateFails
  <2>1. /\ pc \in {"secrets", "save"} /\ StepFails /\ UNCHANGED <<live, trusted, commandVars>>
    BY <1>7 DEF UpdateSecretFails, SaveStateFails
  <2>2. RegistryUntouched'
    BY <2>1, <1>a DEF RegistryUntouched, commandVars
  <2> QED
    BY <2>1, <2>2, StepFailsProgress DEF ApplyPhases
<1>8. CASE UpdateSecret
  <2>1. PICK n \in todo :
          /\ todo' = todo \ {n}
          /\ \/ secrets' = [secrets EXCEPT ![svc][n] = target.cred]
             \/ cancelled \/ (svc = "git" /\ "read" \in Faults)
    BY <1>8 DEF UpdateSecret, CallFails, Fault
  <2>2. SecretsDoneSoFar'
    BY <1>8, <2>1 DEF SecretsRead, UpdateSecret, SecretsDoneSoFar, UpdateProgress, TypeOK, target,
       commandVars
  <2>3. ServiceDone' /\ CertsDoneSoFar'
    BY <1>8 DEF UpdateSecret, ServiceDone, CertsDoneSoFar, UpdateProgress, target, commandVars
  <2> QED
    BY <1>8, <1>a, <2>2, <2>3 DEF UpdateSecret, UpdateProgress, UpdateTakesEffect,
       RollbackRestores, ClientsTrusted, commandVars
<1>9. CASE SecretsDone
  <2> USE <1>9, <1>a DEF SecretsDone, commandVars, clusterVars
  <2>1. ServiceDone' /\ SecretsDoneSoFar' /\ CertsDoneSoFar'
    BY DEF SecretsRead, ServiceDone, SecretsDoneSoFar, CertsDoneSoFar, UpdateProgress, target,
       ApplyPhases
  <2> QED
    BY <2>1 DEF UpdateProgress, UpdateTakesEffect, RollbackRestores, ClientsTrusted
<1>10. CASE SaveState
  <2> USE <1>10 DEF SaveState, commandVars
  <2>1. zarfState'[svc] = target
    BY DEF TypeOK
  <2>2. svc \in SecretService /\ SecretsRead =>
          \A n \in Namespace : secrets[svc][n] = target.cred
    BY DEF UpdateProgress, SecretsDoneSoFar
  <2>3. (rollback => agreed) /\ SecretsRead => Agree(svc)'
    BY <2>1, <2>2 DEF Agree, UpdateProgress, ServiceDone
  <2>4. SecretsRead => UpdateTakesEffect' /\ RollbackRestores'
    BY <2>1, <2>3 DEF UpdateTakesEffect, RollbackRestores, End, target
  <2>5. ClientsTrusted'
    BY DEF ClientsTrusted, UpdateProgress, CertsDoneSoFar, ApplyPhases
  <2> QED
    BY <2>4, <2>5 DEF SecretsRead, UpdateProgress, ServiceDone, SecretsDoneSoFar, CertsDoneSoFar,
       End,
       ApplyPhases
<1>11. CASE Cancel
  <2> USE <1>11, <1>a DEF Cancel, commandVars, clusterVars
  <2>1. ServiceDone' /\ SecretsDoneSoFar' /\ CertsDoneSoFar'
    BY DEF ServiceDone, SecretsDoneSoFar, CertsDoneSoFar, UpdateProgress, target
  <2> QED
    BY <2>1 DEF UpdateProgress, UpdateTakesEffect, RollbackRestores, ClientsTrusted
<1>12. CASE UNCHANGED vars
    BY <1>12 DEF SecretsRead, vars, UpdateProgress, ServiceDone, SecretsDoneSoFar, CertsDoneSoFar,
       UpdateTakesEffect, RollbackRestores, ClientsTrusted, Agree, target
<1>13. UpdateGitUser => pc \in {"service", "gitPush"}
    BY DEF UpdateGitUser
<1> QED
    BY <1>1, <1>2, <1>3, <1>4, <1>5, <1>6, <1>7, <1>8, <1>9, <1>10, <1>11, <1>12, <1>13
    DEF Next, CommandStep

\* UpdateProgress is an invariant of every update of credentials.
LEMMA UpdateProgressInvariant == Spec => []UpdateProgress
<1>1. Init => UpdateProgress
    BY Zenon DEF Init, UpdateProgress, ServiceDone, SecretsDoneSoFar, CertsDoneSoFar,
       UpdateTakesEffect, RollbackRestores, ClientsTrusted, ApplyPhases
<1>2. TypeOK /\ UpdateProgress /\ [Next]_vars => UpdateProgress'
    BY UpdateProgressStep
<1> QED
    BY <1>1, <1>2, CredentialsTypeCorrect, PTL DEF Spec

\* When every namespace's secret can be read, an update-creds that reports
\* success has changed the service, every namespace and the Zarf state, for
\* any number of namespaces and whatever earlier commands left behind.
THEOREM SuccessfulUpdateTakesEffect ==
    ASSUME "read" \notin Faults
    PROVE  Spec => []UpdateTakesEffect
<1>1. UpdateProgress => UpdateTakesEffect
    BY DEF UpdateProgress, SecretsRead
<1> QED
    BY <1>1, UpdateProgressInvariant, PTL

\* When it reports that the update was rolled back, and all stores agreed
\* before, they hold the previous credentials again.
THEOREM ReportedRollbackRestores ==
    ASSUME "read" \notin Faults
    PROVE  Spec => []RollbackRestores
<1>1. UpdateProgress => RollbackRestores
    BY DEF UpdateProgress, SecretsRead
<1> QED
    BY <1>1, UpdateProgressInvariant, PTL

\* However applyState ends, the client certificates of a proxy registry's own
\* client and of every namespace that Zarf lists by its label are of the CA of
\* the server certificate; those of other namespaces are not.
THEOREM CertificatesAgree == Spec => []ClientsTrusted
BY UpdateProgressInvariant, PTL DEF UpdateProgress

-----------------------------------------------------------------------------
(* Updates that Helm refuses.                                              *)

\* Forward and back, applyState goes through Helm.
ByHelm == svc # "git" /\ (svc = "registry" => new.internal)

Restored == zarfState[svc] = old /\ Agree(svc)

\* Helm refuses a pending release before anything is changed, and only a fault
\* of this command makes it pending later.
RefusedInTime ==
    /\ pc \in {"secrets", "save"} /\ ByHelm /\ svc \in pending => rollback
    /\ pc # "idle" /\ ByHelm /\ svc \in pending /\ agreed /\ ~unlucky => Restored

\* What makes a rollback of the registry or the agent fail with no call failing
\* is only Helm's refusal.
RefusalInv ==
    /\ RefusedInTime
    /\ last = "inconsistent" /\ svc # "git" /\ agreed /\ ~unlucky => Restored

\* Every step keeps RefusalInv.
LEMMA RefusalStep ==
    ASSUME TypeOK, UpdateProgress, RefusalInv, [Next]_vars
    PROVE  RefusalInv'
<1> USE DEF RefusalInv, RefusedInTime
<1>a. pc # "idle" => last = "none"
    BY DEF UpdateProgress
<1>b. UNCHANGED <<zarfState, live, secrets, commandVars>> => Restored' = Restored /\ ByHelm' = ByHelm
    BY DEF Restored, Agree, ByHelm, commandVars
<1>1. ASSUME NEW s \in Service, NEW internal \in BOOLEAN, UpdateCreds(s, internal)
      PROVE  RefusalInv'
  <2>1. agreed' => Restored'
    BY <1>1 DEF UpdateCreds, clusterVars, Restored, Agree
  <2> QED
    BY <1>1, <2>1 DEF UpdateCreds
<1>2. CASE ApplyClientCert \/ ApplyServerCert \/ ApplyNamespaceCert \/ CertsDone \/ SecretsDone \/ Cancel
  <2>1. /\ UNCHANGED <<zarfState, live, secrets, pending, last, unlucky, rollback, commandVars>>
        /\ pc # "idle" /\ (pc' \in {"secrets", "save"} => pc \in {"secrets", "save"})
    BY <1>2 DEF ApplyClientCert, ApplyServerCert, ApplyNamespaceCert, CertsDone, SecretsDone, Cancel,
       clusterVars
  <2> QED
    BY <2>1, <1>a, <1>b DEF commandVars
<1>3. CASE CertsFail \/ Killed \/ SaveState
    BY <1>3 DEF CertsFail, Killed, SaveState, End
<1>4. CASE SkipService
  <2>1. UNCHANGED <<zarfState, live, secrets, pending, last, unlucky, rollback, commandVars>> /\ pc # "idle"
    BY <1>4 DEF SkipService, clusterVars
  <2>2. ByHelm => rollback
    BY <1>4 DEF SkipService, UpdatesService, ByHelm, TypeOK, Service
  <2> QED
    BY <2>1, <2>2, <1>a, <1>b DEF commandVars
<1>5. CASE UpdateRelease
    BY <1>5, <1>a DEF UpdateRelease, CallsHelm, commandVars
<1>6. CASE UpdateReleaseFails
  <2>1. /\ UNCHANGED commandVars /\ pc # "idle" /\ pc' \notin {"secrets", "save"}
        /\ last' = "inconsistent" => rollback
    BY <1>6, <1>a DEF UpdateReleaseFails, CallsHelm, StepFails, End
  <2>2. unlucky' = (unlucky \/ rollback \/ svc \in pending')
    BY <1>6 DEF UpdateReleaseFails
  <2>3. rollback \/ svc \in pending' => unlucky'
    BY <2>2, Zenon
  <2> QED
    BY <2>1, <2>3 DEF commandVars
<1>7. CASE UpdateReleaseRefused
  <2>1. /\ UNCHANGED <<zarfState, live, secrets, pending, unlucky, commandVars>>
        /\ pc # "idle" /\ pc' \notin {"secrets", "save"} /\ svc \in pending
    BY <1>7 DEF UpdateReleaseRefused, CallsHelm, StepFails, End, clusterVars
  <2>2. ByHelm
    BY <1>7 DEF UpdateReleaseRefused, CallsHelm, UpdatesService, ByHelm
  <2> QED
    BY <2>1, <2>2, <1>b DEF commandVars
<1>8. CASE UpdateGitUser \/ UpdateGitUserFails
  <2>1. svc = "git" /\ svc' = "git"
    BY <1>8 DEF UpdateGitUser, UpdateGitUserFails, commandVars
  <2> QED
    BY <2>1 DEF ByHelm
<1>9. CASE UpdateSecret
  <2>1. /\ UNCHANGED <<zarfState, live, pending, pc, last, rollback, commandVars>> /\ pc = "secrets"
        /\ unlucky => unlucky'
    <3>1. unlucky' = unlucky \/ unlucky' = (unlucky \/ rollback)
      BY <1>9 DEF UpdateSecret, CallFails
    <3>2. unlucky => unlucky'
      BY <3>1, Zenon
    <3> QED
      BY <1>9, <3>2 DEF UpdateSecret
  <2>2. ASSUME ByHelm, svc \in pending, agreed, ~unlucky'  PROVE Restored'
    <3>1. Restored /\ target = old
      BY <2>1, <2>2 DEF target
    <3>2. svc \in SecretService => \A n \in Namespace : secrets[svc][n] = target.cred
      BY <3>1 DEF Restored, Agree
    <3>3. svc \in SecretService => secrets' = secrets
      BY <1>9, <3>2 DEF UpdateSecret, TypeOK
    <3> QED
      BY <2>1, <3>1, <3>3 DEF Restored, Agree, commandVars
  <2> QED
    BY <2>1, <2>2, <1>a DEF ByHelm, commandVars
<1>10. CASE UpdateSecretFails \/ SaveStateFails
  <2>1. /\ UNCHANGED <<pending, commandVars>> /\ pc \in {"secrets", "save"}
        /\ pc' \notin {"secrets", "save"} /\ (last' = "inconsistent" => rollback)
    BY <1>10, <1>a DEF UpdateSecretFails, SaveStateFails, StepFails, End
  <2>2. rollback => unlucky'
    BY <1>10, RollbackCallFails DEF UpdateSecretFails, SaveStateFails
  <2> QED
    BY <2>1, <2>2 DEF ByHelm, commandVars
<1>11. CASE UNCHANGED vars
    BY <1>11, <1>b DEF vars, commandVars
<1> QED
    BY <1>1, <1>2, <1>3, <1>4, <1>5, <1>6, <1>7, <1>8, <1>9, <1>10, <1>11 DEF Next, CommandStep

\* An update of the registry or the agent that fails leaves the previous
\* credentials everywhere, unless a call of the rollback itself fails or Helm's
\* record of the failed upgrade is lost: for any number of namespaces, with any
\* calls failing before or after they took effect, and with releases that
\* earlier commands left pending.
THEOREM FailedUpdateIsUndone == Spec => []FailedUpdateRestores
<1>1. Init => RefusalInv
    BY Zenon DEF Init, RefusalInv, RefusedInTime
<1>2. TypeOK /\ UpdateProgress /\ RefusalInv /\ [Next]_vars => RefusalInv'
    BY RefusalStep
<1>3. UpdateProgress /\ RefusalInv => FailedUpdateRestores
    BY DEF UpdateProgress, RefusalInv, SecretsRead, RollbackRestores, FailedUpdateRestores, Restored
<1> QED
    BY <1>1, <1>2, <1>3, CredentialsTypeCorrect, UpdateProgressInvariant, PTL DEF Spec
=============================================================================
