------------------------------ MODULE ZarfInit ------------------------------
(***************************************************************************)
(* `zarf init`, repeated with other flags, failing and being killed at any *)
(* point: InitState merges the flags with the saved state, the seed        *)
(* registry is deployed with the help of the injector, then the registry,  *)
(* the agent and the git server.  Credentials and certificates are numbers *)
(* that name the init which generated them; 0 is "not set".                *)
(***************************************************************************)
EXTENDS Injector

CONSTANTS
    Flags,      \* the flag combinations an init may be given
    Namespace,  \* namespaces users create
    MaxInits,   \* bound: init invocations in a behaviour
    Faults,     \* which kinds of step may fail
    MaxFaults   \* bound: how many steps may fail in a behaviour

External == MaxInits + 1        \* the credentials of an external server
DefaultNodePort == 31999        \* ZarfInClusterContainerRegistryNodePort
DefaultHostPort == 5000         \* ZarfRegistryHostPort

Mode == {"", "nodeport", "proxy", "external"}
Cred == 0 .. MaxInits + 1

\* mode, port and inj are the registry and injector flags, ext and extGit say
\* that an address was given, git that the git-server component is deployed,
\* payload which init package it is.
InitFlags ==
    [mode : Mode, port : Nat, inj : Nat, ext : BOOLEAN, extGit : BOOLEAN,
     git : BOOLEAN, payload : Payload]

ASSUME InitAssumption ==
    /\ Flags \subseteq InitFlags /\ Flags # {}
    /\ MaxInits \in Nat /\ MaxFaults \in Nat
    /\ Faults \subseteq {"api", "chart", "crash", "age"}

\* state.State.
State ==
    [exists : BOOLEAN, mode : Mode, port : Nat, mtls : BOOLEAN,
     reg : Cred, git : Cred, artifact : Cred, agent : Cred,
     inj : Nat, amount : Nat, sum : Payload \cup {NoPayload}]
NoState ==
    [exists |-> FALSE, mode |-> "", port |-> 0, mtls |-> FALSE,
     reg |-> 0, git |-> 0, artifact |-> 0, agent |-> 0,
     inj |-> 0, amount |-> 0, sum |-> NoPayload]

Cert == [ca : Cred, fresh : BOOLEAN]
NoCert == [ca |-> 0, fresh |-> FALSE]

VARIABLES
    state,      \* the secret zarf-state
    server,     \* the registry's server certificate
    client,     \* the registry's client certificate
    running,    \* what the deployed services were configured with
    namespaces, \* the namespaces there are
    ignored,    \* those labelled as ignored by the agent
    pc, flags, mem,   \* the CLI: where it is, its flags, d.s
    after,      \* where StopInjection returns to
    inits, faults, last

clusterVars == <<state, server, client, running, namespaces, ignored>>
cliVars     == <<pc, flags, mem, after, inits, faults, last>>
vars        == <<injectorVars, clusterVars, cliVars>>

NoFlags == CHOOSE f \in Flags : TRUE

Init ==
    /\ InjectorInit
    /\ state = NoState /\ server = NoCert /\ client = NoCert
    /\ running = [reg |-> 0, git |-> 0, agent |-> 0, port |-> 0]
    /\ namespaces = {} /\ ignored = {}
    /\ pc = "idle" /\ flags = NoFlags /\ mem = NoState /\ after = "idle"
    /\ inits = 0 /\ faults = 0 /\ last = "none"

Goto(l) == pc' = l /\ UNCHANGED <<flags, mem, after, inits, faults, last>>
End(how) ==
    /\ pc' = "idle" /\ last' = how /\ mem' = NoState
    /\ UNCHANGED <<flags, after, inits>>
Fault(kind) == kind \in Faults /\ faults < MaxFaults /\ faults' = faults + 1

-----------------------------------------------------------------------------
(* cmd/initialize.go.                                                      *)

ValidateInitFlags(f) ==
    /\ f.mode = "external" => f.ext
    /\ f.mode \in {"nodeport", "proxy"} => ~f.ext

\* An existing state must agree with the services that are given.
ValidateExistingStateMatchesInput(f) ==
    state.exists =>
        /\ f.ext => state.reg = External /\ state.mode = "external"
        /\ f.extGit => state.git = External

\* initOptions.run, up to the deployment of the first component.  A registry
\* address without a mode means an external registry.
Run(f) ==
    /\ pc = "idle" /\ inits < MaxInits
    /\ inits' = inits + 1
    /\ flags' = IF f.mode = "" /\ f.ext THEN [f EXCEPT !.mode = "external"] ELSE f
    /\ IF ValidateInitFlags(f) /\ ValidateExistingStateMatchesInput(f)
         THEN pc' = "initState" /\ last' = "none"
         ELSE pc' = "idle" /\ last' = "refused"
    /\ UNCHANGED <<injectorVars, clusterVars, mem, after, faults>>

-----------------------------------------------------------------------------
(* InitState.                                                              *)

\* internalServicesFor: the services this run deploys itself.
InternalServices(f) ==
    {"agent"} \cup (IF f.ext THEN {} ELSE {"registry"})
              \cup (IF f.git THEN {"git", "artifact"} ELSE {})

DefaultPort(mode) ==
    IF mode = "proxy" THEN DefaultHostPort
    ELSE IF mode = "nodeport" THEN DefaultNodePort ELSE 0

\* RegistryInfo.FillInEmptyValues.
FillRegistry(mode, port, ext) ==
    LET m == IF mode # "" THEN mode ELSE IF ext THEN "external" ELSE "nodeport" IN
    [mode |-> m, port |-> IF port = 0 /\ ~ext THEN DefaultPort(m) ELSE port,
     reg |-> IF ext THEN External ELSE inits]

\* A new cluster: every service that is deployed or pointed at.
NewState(f) ==
    LET svcs == InternalServices(f)
        r    == FillRegistry(f.mode, f.port, f.ext)
    IN [NoState EXCEPT
          !.exists = TRUE, !.mode = r.mode, !.port = r.port, !.reg = r.reg,
          !.git = IF f.extGit THEN External ELSE IF "git" \in svcs THEN inits ELSE 0,
          !.artifact = IF "artifact" \in svcs THEN inits ELSE 0,
          !.agent = inits]

\* Mutated: a re-init generates credentials for services that have some.
RefillState(f) ==
    [state EXCEPT
       !.git = IF "git" \in InternalServices(f) THEN inits ELSE @,
       !.artifact = IF "artifact" \in InternalServices(f) THEN inits ELSE @,
       !.agent = IF @ = 0 THEN inits ELSE @]

\* A re-init: only internal services that were not configured before.
ReinitState(f) ==
    LET svcs == InternalServices(f)
        fill == "registry" \in svcs /\ state.reg = 0
        r == IF fill THEN FillRegistry(state.mode, state.port, FALSE) ELSE state
    IN [state EXCEPT
          !.mode = r.mode, !.port = r.port, !.reg = r.reg,
          !.git = IF "git" \in svcs /\ @ = 0 THEN inits ELSE @,
          !.artifact = IF "artifact" \in svcs /\ @ = 0 THEN inits ELSE @,
          !.agent = IF @ = 0 THEN inits ELSE @]

\* The mode and port switches at the end of InitState.
SetMode(s, f) ==
    LET changed == f.mode # "" /\ f.mode # s.mode
        mode    == IF f.mode # "" THEN f.mode ELSE s.mode
    IN [s EXCEPT
          !.mode = mode,
          !.port = IF mode \notin {"nodeport", "proxy"} THEN @
                   ELSE IF f.port # 0 THEN f.port
                   ELSE IF changed THEN DefaultPort(mode) ELSE @,
          !.mtls = IF f.mode = "proxy" THEN TRUE ELSE IF mode = "nodeport" THEN FALSE ELSE @,
          !.inj = IF f.inj # 0 THEN f.inj ELSE IF changed THEN 0 ELSE @]

\* Mutated: only the client's certificate is looked at.
ShouldRenewByClient == ~client.fresh

\* ShouldRenewRegistryCerts: a missing certificate has no life left.
ShouldRenewRegistryCerts == ~server.fresh \/ ~client.fresh

\* initAgent marks the namespaces there are, when the state has no agent yet.
IgnoreExistingNamespaces == IF state.agent = 0 THEN namespaces ELSE ignored

\* InitState up to its first write after the namespace labels of initAgent.
InitState ==
    LET merged == SetMode(IF state.exists THEN ReinitState(flags) ELSE NewState(flags), flags) IN
    /\ pc = "initState"
    /\ mem' = merged
    /\ ignored' = IgnoreExistingNamespaces
    /\ pc' = IF flags.mode = "proxy" /\ ShouldRenewRegistryCerts THEN "clientCert" ELSE "saveState"
    /\ UNCHANGED <<injectorVars, state, server, client, running, namespaces,
                   flags, after, inits, faults, last>>

\* ApplyZarfRegistryCertSecrets writes the client's secret, then the server's.
\* The copies of the client's in packages' namespaces, which follow, belong to
\* Credentials; one that fails ends InitState as a failing SaveState does.
ApplyClientCert ==
    /\ pc = "clientCert"
    /\ client' = [ca |-> inits, fresh |-> TRUE]
    /\ Goto("serverCert")
    /\ UNCHANGED <<injectorVars, state, server, running, namespaces, ignored>>
ApplyServerCert ==
    /\ pc = "serverCert"
    /\ server' = [ca |-> inits, fresh |-> TRUE]
    /\ Goto("saveState")
    /\ UNCHANGED <<injectorVars, state, client, running, namespaces, ignored>>

\* SaveState at the end of InitState; then the seed registry, unless the
\* registry is not Zarf's.
SaveState ==
    /\ pc = "saveState"
    /\ state' = mem
    /\ pc' = IF mem.mode = "nodeport" THEN "deletePod"
             ELSE IF mem.mode = "proxy" THEN "payload" ELSE "services"
    /\ after' = "service"
    /\ IF mem.mode = "proxy" THEN tries' = 0 /\ next' = 0 ELSE UNCHANGED <<tries, next>>
    /\ UNCHANGED <<pod, svc, binary, chunks, server, client, running, namespaces, ignored,
                   flags, mem, inits, faults, last>>

-----------------------------------------------------------------------------
(* deployInitComponent of the seed registry.                               *)

\* StopInjection, before and after the injection.
StopInjection ==
    /\ \/ pc = "deletePod"     /\ DeletePod     /\ Goto("deleteService")
       \/ pc = "deleteService" /\ DeleteService /\ Goto("deleteBinary")
       \/ pc = "deleteBinary"  /\ DeleteBinary  /\ Goto("deletePayload")
       \/ pc = "deletePayload" /\ DeletePayload /\ Goto("waitPod")
       \/ pc = "waitPod"       /\ WaitPodGone   /\ Goto(after)
    /\ UNCHANGED clusterVars

Taken == {running.port} \ {0}

CreateService ==
    /\ \/ pc = "service" /\ ApplyService(mem.inj, Taken) /\ Goto("checkService")
       \/ pc = "checkService" /\ ~Conflicts(mem.port) /\ Goto("payload") /\ UNCHANGED injectorVars
       \/ pc = "checkService" /\ Conflicts(mem.port) /\ ConflictDelete /\ Goto("service")
    /\ UNCHANGED clusterVars

\* Mutated: running out of attempts is not noticed.
CreateServiceFailsNever ==
    /\ pc = "service"
    /\ Drawn(mem.inj, Taken) = {}
    /\ End("failed")
    /\ UNCHANGED <<injectorVars, clusterVars, faults>>

\* All attempts are used up, or the saved port belongs to another service.
CreateServiceFails ==
    /\ pc = "service"
    /\ tries >= Attempts \/ Drawn(mem.inj, Taken) = {}
    /\ End("failed")
    /\ UNCHANGED <<injectorVars, clusterVars, faults>>

CreateInjectorConfigMaps ==
    /\ pc = "payload"
    /\ \/ WriteChunk(flags.payload) /\ Goto("payload")
       \/ /\ WriteBinary(flags.payload)
          /\ Goto(IF mem.mode = "proxy" THEN "saveInjector" ELSE "pod")
    /\ UNCHANGED clusterVars

StartPod ==
    /\ pc = "pod"
    /\ ApplyPod(flags.payload)
    /\ Goto("saveInjector")
    /\ UNCHANGED clusterVars

\* The injector's port, or what the injector daemon set needs, is saved.
SaveInjector ==
    /\ pc = "saveInjector"
    /\ mem' = IF mem.mode = "proxy"
                THEN [mem EXCEPT !.amount = next, !.sum = flags.payload]
                ELSE [mem EXCEPT !.inj = svc]
    /\ state' = mem'
    /\ pc' = "seed"
    /\ UNCHANGED <<injectorVars, server, client, running, namespaces, ignored,
                   flags, after, inits, faults, last>>

WithSeed == [running EXCEPT !.reg = mem.reg,
                            !.port = IF mem.mode = "nodeport" THEN mem.port ELSE 0]
WithAgent == [running EXCEPT !.agent = mem.agent]
WithServices == [WithAgent EXCEPT !.git = IF flags.git THEN mem.git ELSE @]

\* The charts of the seed registry, whose pod pulls its image from the injector.
DeploySeed ==
    /\ pc = "seed"
    /\ running' = WithSeed
    /\ pc' = IF mem.mode = "nodeport" THEN "deletePod" ELSE "services"
    /\ after' = "services"
    /\ UNCHANGED <<injectorVars, state, server, client, namespaces, ignored,
                   flags, mem, inits, faults, last>>

\* The permanent registry, the agent and the git server, with the same state.
DeployServices ==
    /\ pc = "services"
    /\ running' = WithServices
    /\ End("ok")
    /\ UNCHANGED <<injectorVars, state, server, client, namespaces, ignored, faults>>

-----------------------------------------------------------------------------
\* An API call or a chart fails, or the process is killed; nothing is undone.
\* A chart that fails has already been given its values.
Fails ==
    /\ pc # "idle"
    /\ \/ Fault("api") /\ End("failed")
       \/ pc \in {"seed", "services"} /\ Fault("chart") /\ End("failed")
       \/ Fault("crash") /\ End("killed")
    /\ \/ UNCHANGED running
       \/ pc = "seed" /\ running' = WithSeed
       \/ pc = "services" /\ running' \in {WithAgent, WithServices}
    /\ UNCHANGED <<injectorVars, state, server, client, namespaces, ignored>>

\* Between two inits time passes: the certificates have less than half of their
\* life left, which is months, far longer than an init takes.
CertsAge ==
    /\ pc = "idle"
    /\ server.fresh \/ client.fresh
    /\ Fault("age")
    /\ server' = [server EXCEPT !.fresh = FALSE]
    /\ client' = [client EXCEPT !.fresh = FALSE]
    /\ UNCHANGED <<injectorVars, state, running, namespaces, ignored,
                   pc, flags, mem, after, inits, last>>

CreateNamespace(n) ==
    /\ n \notin namespaces
    /\ namespaces' = namespaces \cup {n}
    /\ UNCHANGED <<injectorVars, state, server, client, running, ignored, cliVars>>

CLIStep ==
    \/ InitState \/ ApplyClientCert \/ ApplyServerCert \/ SaveState
    \/ StopInjection \/ CreateService \/ CreateServiceFails
    \/ CreateInjectorConfigMaps \/ StartPod \/ SaveInjector
    \/ DeploySeed \/ DeployServices

Kubelet == PodGone /\ UNCHANGED <<clusterVars, cliVars>>

Next ==
    \/ \E f \in Flags : Run(f)
    \/ CLIStep \/ Kubelet \/ Fails \/ CertsAge
    \/ \E n \in Namespace : CreateNamespace(n)

\* The CLI keeps going until it ends, and the kubelet ends deleted pods.
Spec == Init /\ [][Next]_vars /\ WF_vars(CLIStep) /\ WF_vars(Kubelet)

-----------------------------------------------------------------------------
TypeOK ==
    /\ pod \in Pods /\ svc \in Nat /\ binary \in BOOLEAN
    /\ chunks \in [Chunk -> Payload \cup {NoPayload}]
    /\ tries \in 0..Attempts /\ next \in 0..MaxChunks
    /\ state \in State /\ mem \in State /\ server \in Cert /\ client \in Cert
    /\ ignored \subseteq namespaces
    /\ flags \in InitFlags /\ inits \in 0..MaxInits /\ faults \in 0..MaxFaults

\* When the seed registry's chart is installed, the state says where its image
\* is to be pulled from and it is there: in node port mode a service on the
\* saved port, which is not the registry's, and a pod that rebuilds exactly the
\* archive of this package; in proxy mode as many config maps as the state says,
\* all of this package, whatever earlier inits left behind (StartInjection,
\* CreateInjectorConfigMaps).
InjectorServesPayload ==
    pc = "seed" =>
        IF state.mode = "proxy"
          THEN state.sum = flags.payload /\ Reassembles(state.sum, state.amount)
          ELSE /\ svc # 0 /\ svc = state.inj /\ svc # state.port
               /\ pod.status = "running" /\ pod.sum = flags.payload
               /\ Reassembles(pod.sum, pod.amount)

\* A node port init that reports success leaves nothing of the injector, its
\* own or of an earlier init, behind (StopInjection).
InjectorRemoved ==
    last = "ok" /\ state.mode = "nodeport" =>
        pod = NoPod /\ svc = 0 /\ ~binary /\ chunks = NoChunks

\* The credentials and the agent certificate that a deployed service runs with
\* are the ones in the saved state at every moment, also between the steps of a
\* re-init and after one that was killed (InitState).
ServicesMatchState ==
    /\ running.reg # 0 => state.reg = running.reg
    /\ running.git # 0 => state.git = running.git
    /\ running.agent # 0 => state.agent = running.agent

\* After a successful init in proxy mode both certificates come from one CA and
\* have most of their life left when they are looked at, although the two
\* secrets are written one after the other (InitRegistryCerts).
ProxyCertsAgree ==
    last = "ok" /\ flags.mode = "proxy" => client.ca = server.ca /\ server.ca # 0

\* Every init ends, also while pods of an earlier injection terminate and the
\* API server keeps drawing the registry's port.
InitEnds == pc # "idle" ~> pc = "idle"
=============================================================================
