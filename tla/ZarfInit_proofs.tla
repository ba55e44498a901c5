--------------------------- MODULE ZarfInit_proofs --------------------------
(***************************************************************************)
(* Proofs about ZarfInit: for any number of inits with any flags, failing  *)
(* or killed at any API call, whatever the payloads and node ports.        *)
(***************************************************************************)
EXTENDS ZarfInit, TLAPS

Services == [reg : Cred, git : Cred, agent : Cred, port : Nat]

\* The types that the steps rely on: those of TypeOK and that of running.
InjectorTypes ==
    /\ pod \in Pods /\ svc \in Nat /\ binary \in BOOLEAN
    /\ chunks \in [Chunk -> Payload \cup {NoPayload}]
    /\ tries \in 0..Attempts /\ next \in 0..MaxChunks
CliTypes ==
    /\ state \in State /\ mem \in State /\ server \in Cert /\ client \in Cert
    /\ running \in Services /\ ignored \subseteq namespaces
    /\ flags \in InitFlags /\ inits \in 0..MaxInits /\ faults \in 0..MaxFaults
Types == InjectorTypes /\ CliTypes

\* The largest archive fits the config maps there are.
LEMMA ChunksFit ==
    MaxChunks \in Nat \ {0} /\ \A p \in Payload : Chunks[p] \in 1..MaxChunks
  <1>1. \E n \in {Chunks[p] : p \in Payload} : \A p \in Payload : Chunks[p] <= n
    BY InjectorAssumption
  <1>2. MaxChunks \in {Chunks[p] : p \in Payload} /\ \A p \in Payload : Chunks[p] <= MaxChunks
    BY <1>1 DEF MaxChunks
  <1> QED
    BY <1>2, InjectorAssumption

-----------------------------------------------------------------------------
(* The state that InitState makes from the flags and the saved state.      *)

\* A service that has credentials in t, with those of s if s has any.
Keeps(s, t) ==
    /\ s.reg # 0 => t.reg = s.reg
    /\ s.git # 0 => t.git = s.git
    /\ s.agent # 0 => t.agent = s.agent

LEMMA CredTypes ==
    ASSUME Types PROVE inits \in Cred /\ External \in Cred /\ 0 \in Cred
  BY InitAssumption DEF Types, CliTypes, Cred, External

LEMMA NoStateType == NoState \in State
  BY InitAssumption DEF NoState, State, Mode, Cred

LEMMA PortTypes ==
    DefaultNodePort \in Nat /\ DefaultHostPort \in Nat /\ \A m : DefaultPort(m) \in Nat
  BY DEF DefaultNodePort, DefaultHostPort, DefaultPort

LEMMA NewStateType ==
    ASSUME Types, NEW f \in InitFlags
    PROVE  NewState(f) \in State /\ NewState(f).exists
  <1> DEFINE r == FillRegistry(f.mode, f.port, f.ext)
  <1>1. r.mode \in Mode /\ r.port \in Nat /\ r.reg \in Cred
    BY CredTypes, PortTypes DEF FillRegistry, InitFlags, Mode
  <1> QED
    BY <1>1, CredTypes DEF NewState, State, NoState, Mode

LEMMA ReinitStateType ==
    ASSUME Types, NEW f \in InitFlags
    PROVE  /\ ReinitState(f) \in State /\ Keeps(state, ReinitState(f))
           /\ ReinitState(f).exists = state.exists
  <1> DEFINE fill == "registry" \in InternalServices(f) /\ state.reg = 0
             r == IF fill THEN FillRegistry(state.mode, state.port, FALSE) ELSE state
  <1>0. state \in State
    BY DEF Types, CliTypes
  <1>1. r.mode \in Mode /\ r.port \in Nat /\ r.reg \in Cred /\ (state.reg # 0 => r.reg = state.reg)
    BY <1>0, CredTypes, PortTypes DEF FillRegistry, State, Mode
  <1> HIDE DEF r
  <1>2. ReinitState(f) = [state EXCEPT
          !.mode = r.mode, !.port = r.port, !.reg = r.reg,
          !.git = IF "git" \in InternalServices(f) /\ @ = 0 THEN inits ELSE @,
          !.artifact = IF "artifact" \in InternalServices(f) /\ @ = 0 THEN inits ELSE @,
          !.agent = IF @ = 0 THEN inits ELSE @]
    BY DEF ReinitState, r
  <1> QED
    BY <1>0, <1>1, <1>2, CredTypes DEF State, Keeps

LEMMA SetModeType ==
    ASSUME NEW s \in State, NEW f \in InitFlags
    PROVE  /\ SetMode(s, f) \in State /\ Keeps(s, SetMode(s, f))
           /\ SetMode(s, f).exists = s.exists
  <1> DEFINE changed == f.mode # "" /\ f.mode # s.mode
             mode == IF f.mode # "" THEN f.mode ELSE s.mode
             port == IF mode \notin {"nodeport", "proxy"} THEN s.port
                     ELSE IF f.port # 0 THEN f.port
                     ELSE IF changed THEN DefaultPort(mode) ELSE s.port
             mtls == IF f.mode = "proxy" THEN TRUE ELSE IF mode = "nodeport" THEN FALSE ELSE s.mtls
             saved == IF f.inj # 0 THEN f.inj ELSE IF changed THEN 0 ELSE s.inj
  <1>1. mode \in Mode /\ port \in Nat /\ mtls \in BOOLEAN /\ saved \in Nat
    BY PortTypes DEF State, InitFlags
  <1>2. SetMode(s, f) = [s EXCEPT !.mode = mode, !.port = port, !.mtls = mtls, !.inj = saved]
    BY DEF SetMode, State
  <1> HIDE DEF mode, port, mtls, saved
  <1> QED
    BY <1>1, <1>2 DEF State, Keeps
-----------------------------------------------------------------------------
(* The inductive invariants.                                               *)

Merging  == {"clientCert", "serverCert", "saveState"}
Stopping == {"deletePod", "deleteService", "deleteBinary", "deletePayload", "waitPod"}
Drawing  == {"service", "checkService"}
Filling  == {"payload", "pod", "saveInjector", "seed"}
Saved    == Stopping \cup Drawing \cup Filling \cup {"services"}

\* Where the CLI may be, and that a success is reported by an init that ended.
ControlInv ==
    /\ pc \in {"idle", "initState"} \cup Merging \cup Saved
    /\ after \in {"idle", "service", "services"}
    /\ pc # "idle" => inits > 0
    /\ last = "ok" => pc = "idle"

\* What the CLI holds in memory is what it saved, once it has saved it, and it
\* keeps the credentials of everything that runs.
CredentialInv ==
    /\ pc \in Saved => state = mem
    /\ pc \in Merging \cup Saved => mem.exists
    /\ pc \in Merging => Keeps(running, mem) /\ Keeps(state, mem)
    /\ Keeps(running, state)
    /\ ~state.exists => /\ running.reg = 0 /\ running.git = 0 /\ running.agent = 0
                        /\ state = NoState

\* The server's certificate is the second one written: while it is fresh, so is
\* the client's, of the same CA.
CertInv ==
    /\ server.fresh => client.fresh /\ client.ca = server.ca /\ server.ca # 0
    /\ pc \in {"clientCert", "serverCert"} => ~server.fresh
    /\ pc = "serverCert" => client = [ca |-> inits, fresh |-> TRUE]
    /\ pc \in {"saveState"} \cup Saved /\ flags.mode = "proxy" => server.fresh
    /\ ProxyCertsAgree

Clean == pod = NoPod /\ svc = 0 /\ ~binary /\ chunks = NoChunks

\* How far StopInjection is.
StopInv ==
    /\ pod.status = "none" => pod = NoPod
    /\ pc \in Stopping => mem.mode = "nodeport" /\ after \in {"service", "services"}
    /\ pc \in Stopping \ {"deletePod"} => pod.status # "running"
    /\ pc \in {"deleteBinary", "deletePayload", "waitPod"} => svc = 0
    /\ pc \in {"deletePayload", "waitPod"} => ~binary
    /\ pc = "waitPod" => chunks = NoChunks
    /\ pc = "services" /\ mem.mode = "nodeport" => Clean
    /\ last = "ok" /\ state.mode = "nodeport" => Clean

\* How far StartInjection is: the config maps below next are of this package.
StartInv ==
    /\ pc \in Drawing \cup {"pod"} => mem.mode = "nodeport"
    /\ pc \in Drawing => pod = NoPod /\ next = 0
    /\ pc = "checkService" => svc # 0
    /\ pc \in Filling =>
          /\ mem.mode \in {"nodeport", "proxy"}
          /\ next <= Chunks[flags.payload] /\ \A n \in 0 .. next - 1 : chunks[n] = flags.payload
    /\ pc \in Filling \ {"payload"} => next = Chunks[flags.payload]
    /\ pc \in Filling /\ mem.mode = "nodeport" => svc # 0 /\ svc # mem.port
    /\ pc \in {"payload", "pod"} /\ mem.mode = "nodeport" => pod = NoPod
    /\ pc \in {"saveInjector", "seed"} /\ mem.mode = "nodeport" =>
          pod = [status |-> "running", sum |-> flags.payload, amount |-> next]
    /\ pc = "seed" => IF mem.mode = "proxy" THEN mem.amount = next /\ mem.sum = flags.payload
                                            ELSE mem.inj = svc

InitInv == Types /\ ControlInv /\ CredentialInv /\ CertInv /\ StopInv /\ StartInv

\* What InitState puts in memory: a state, with the credentials of the services
\* that run.
LEMMA MergedState ==
    ASSUME Types, Keeps(running, state), InitState,
           ~state.exists => running.reg = 0 /\ running.git = 0 /\ running.agent = 0
    PROVE  mem' \in State /\ mem'.exists /\ Keeps(running, mem') /\ (state.exists => Keeps(state, mem'))
  <1> DEFINE s == IF state.exists THEN ReinitState(flags) ELSE NewState(flags)
  <1>0. mem' = SetMode(s, flags) /\ flags \in InitFlags
    BY DEF InitState, Types, CliTypes
  <1>1. s \in State /\ s.exists /\ Keeps(running, s) /\ (state.exists => Keeps(state, s))
    BY <1>0, NewStateType, ReinitStateType DEF Keeps
  <1> QED
    BY <1>0, <1>1, SetModeType DEF Keeps

LEMMA WithTypes ==
    ASSUME Types
    PROVE  WithSeed \in Services /\ WithAgent \in Services /\ WithServices \in Services
  <1>1. mem \in State /\ running \in Services
    BY DEF Types, CliTypes
  <1>2. WithSeed \in Services
    BY <1>1 DEF WithSeed, Services, State
  <1>3. WithAgent \in Services
    BY <1>1 DEF WithAgent, Services, State
  <1>4. WithServices \in Services
    BY <1>1, <1>3 DEF WithServices, Services, State
  <1> QED
    BY <1>2, <1>3, <1>4

\* The CLI goes from step to step of one init.
LEMMA ControlStep ==
    ASSUME Types, ControlInv, [Next]_vars
    PROVE  ControlInv'
  <1> USE DEF ControlInv, Merging, Stopping, Drawing, Filling, Saved, injectorVars, clusterVars,
     cliVars
  <1>1. CASE \E f \in Flags : Run(f)
    <2>0. inits' = inits + 1 /\ inits \in 0..MaxInits
      BY <1>1 DEF Run, Types, CliTypes
    <2>1. inits' > 0
      BY <2>0, InitAssumption
    <2> QED
      BY <1>1, <2>1 DEF Run
  <1>2. CASE InitState
    BY <1>2 DEF InitState, IgnoreExistingNamespaces
  <1>3. CASE ApplyClientCert
    BY <1>3 DEF ApplyClientCert, Goto
  <1>4. CASE ApplyServerCert
    BY <1>4 DEF ApplyServerCert, Goto
  <1>5. CASE SaveState
    BY <1>5 DEF SaveState
  <1>6. CASE StopInjection
    BY <1>6 DEF StopInjection, Goto, DeletePod, DeleteService, DeleteBinary,
       DeletePayload, WaitPodGone
  <1>7. CASE CreateService
    BY <1>7 DEF CreateService, Goto, ApplyService, ConflictDelete
  <1>8. CASE CreateServiceFails
    BY <1>8 DEF CreateServiceFails, End
  <1>9. CASE CreateInjectorConfigMaps
    BY <1>9 DEF CreateInjectorConfigMaps, Goto, WriteChunk, WriteBinary
  <1>10. CASE StartPod
    BY <1>10 DEF StartPod, ApplyPod, Goto
  <1>11. CASE SaveInjector
    BY <1>11 DEF SaveInjector
  <1>12. CASE DeploySeed
    BY <1>12 DEF DeploySeed
  <1>13. CASE DeployServices
    BY <1>13 DEF DeployServices, End
  <1>14. CASE Kubelet
    BY <1>14 DEF Kubelet, PodGone
  <1>15. CASE Fails
    BY <1>15 DEF Fails, End, Fault
  <1>16. CASE CertsAge
    BY <1>16 DEF CertsAge, Fault
  <1>17. CASE \E n \in Namespace : CreateNamespace(n)
    BY <1>17 DEF CreateNamespace
  <1>18. CASE UNCHANGED vars
    BY <1>18 DEF vars
  <1> QED
    BY <1>1, <1>2, <1>3, <1>4, <1>5, <1>6, <1>7, <1>8, <1>9, <1>10, <1>11, <1>12, <1>13, <1>14,
       <1>15, <1>16, <1>17, <1>18
       DEF Next, CLIStep

\* Ports, config maps and the pod: what the injector's variables hold.
LEMMA InjectorTypesStep ==
    ASSUME Types, [Next]_vars
    PROVE  InjectorTypes'
  <1> USE DEF InjectorTypes, Types, injectorVars, clusterVars, cliVars
  <1>1. CASE \E f \in Flags : Run(f)
    BY <1>1 DEF Run
  <1>2. CASE InitState
    BY <1>2 DEF InitState, IgnoreExistingNamespaces
  <1>3. CASE ApplyClientCert
    BY <1>3 DEF ApplyClientCert, Goto
  <1>4. CASE ApplyServerCert
    BY <1>4 DEF ApplyServerCert, Goto
  <1>5. CASE SaveState
    BY <1>5, ChunksFit, InjectorAssumption DEF SaveState
  <1>6. CASE StopInjection
    <2>1. 0 \in 0..Attempts /\ 0 \in 0..MaxChunks /\ NoChunks \in [Chunk -> Payload \cup {NoPayload}]
      BY ChunksFit, InjectorAssumption DEF NoChunks
    <2>2. CASE DeletePod
      BY <2>2 DEF DeletePod, Pods
    <2>3. CASE DeleteService
      BY <2>3 DEF DeleteService
    <2>4. CASE DeleteBinary
      BY <2>4 DEF DeleteBinary
    <2>5. CASE DeletePayload
      BY <2>1, <2>5 DEF DeletePayload
    <2>6. CASE WaitPodGone
      BY <2>1, <2>6 DEF WaitPodGone
    <2> QED
      BY <1>6, <2>2, <2>3, <2>4, <2>5, <2>6 DEF StopInjection
  <1>7. CASE CreateService
    <2>1. \A p \in Drawn(mem.inj, Taken) : p \in Nat
      BY InjectorAssumption DEF Drawn, CliTypes, State
    <2> QED
      BY <1>7, <2>1, InjectorAssumption DEF CreateService, Goto, ApplyService, ConflictDelete
  <1>8. CASE CreateServiceFails
    BY <1>8 DEF CreateServiceFails, End
  <1>9. CASE CreateInjectorConfigMaps
    <2>1. flags.payload \in Payload
      BY DEF CliTypes, InitFlags
    <2>2. CASE WriteChunk(flags.payload)
      <3>1. next \in Chunk /\ next + 1 \in 0..MaxChunks
        BY <2>1, <2>2, ChunksFit DEF WriteChunk, Chunk
      <3> QED
        BY <2>1, <2>2, <3>1 DEF WriteChunk
    <2> QED
      BY <1>9, <2>2 DEF CreateInjectorConfigMaps, WriteBinary
  <1>10. CASE StartPod
    <2>1. flags.payload \in Payload
      BY DEF CliTypes, InitFlags
    <2> QED
      BY <1>10, <2>1 DEF StartPod, ApplyPod, Goto, Pods
  <1>11. CASE SaveInjector
    BY <1>11 DEF SaveInjector
  <1>12. CASE DeploySeed
    BY <1>12 DEF DeploySeed
  <1>13. CASE DeployServices
    BY <1>13 DEF DeployServices, End
  <1>14. CASE Kubelet
    BY <1>14, ChunksFit DEF Kubelet, PodGone, NoPod, Pods
  <1>15. CASE Fails
    BY <1>15 DEF Fails, End, Fault
  <1>16. CASE CertsAge
    BY <1>16 DEF CertsAge, Fault
  <1>17. CASE \E n \in Namespace : CreateNamespace(n)
    BY <1>17 DEF CreateNamespace
  <1>18. CASE UNCHANGED vars
    BY <1>18 DEF vars
  <1> QED
    BY <1>1, <1>2, <1>3, <1>4, <1>5, <1>6, <1>7, <1>8, <1>9, <1>10, <1>11, <1>12, <1>13, <1>14,
       <1>15, <1>16, <1>17, <1>18
       DEF Next, CLIStep

\* The saved state, the certificates and what the CLI holds.
LEMMA CliTypesStep ==
    ASSUME Types, Keeps(running, state), ControlInv,
           ~state.exists => running.reg = 0 /\ running.git = 0 /\ running.agent = 0, [Next]_vars
    PROVE  CliTypes'
  <1> USE DEF CliTypes, Types, injectorVars, clusterVars, cliVars
  <1>1. CASE \E f \in Flags : Run(f)
    <2> PICK f \in Flags : Run(f)
      BY <1>1
    <2>1. flags' \in InitFlags
      <3>1. f \in InitFlags
        BY InitAssumption
      <3> QED
        BY <3>1 DEF Run, InitFlags, Mode
    <2>2. inits < MaxInits /\ inits' = inits + 1
      BY DEF Run
    <2>3. inits' \in 0..MaxInits
      BY <2>2, InitAssumption
    <2> QED
      BY <2>1, <2>3 DEF Run
  <1>2. CASE InitState
    BY <1>2, MergedState DEF InitState, IgnoreExistingNamespaces
  <1>3. CASE ApplyClientCert
    BY <1>3, CredTypes DEF ApplyClientCert, Goto, Cert
  <1>4. CASE ApplyServerCert
    BY <1>4, CredTypes DEF ApplyServerCert, Goto, Cert
  <1>5. CASE SaveState
    BY <1>5 DEF SaveState
  <1>6. CASE StopInjection
    BY <1>6 DEF StopInjection, Goto, DeletePod, DeleteService, DeleteBinary,
       DeletePayload, WaitPodGone
  <1>7. CASE CreateService
    BY <1>7 DEF CreateService, Goto, ApplyService, ConflictDelete
  <1>8. CASE CreateServiceFails
    BY <1>8, NoStateType DEF CreateServiceFails, End
  <1>9. CASE CreateInjectorConfigMaps
    BY <1>9 DEF CreateInjectorConfigMaps, Goto, WriteChunk, WriteBinary
  <1>10. CASE StartPod
    BY <1>10 DEF StartPod, ApplyPod, Goto
  <1>11. CASE SaveInjector
    <2>1. svc \in Nat /\ next \in Nat /\ flags.payload \in Payload
      BY ChunksFit DEF InjectorTypes, InitFlags
    <2>2. mem' \in State
      BY <1>11, <2>1 DEF SaveInjector, State
    <2> QED
      BY <1>11, <2>2 DEF SaveInjector
  <1>12. CASE DeploySeed
    BY <1>12, WithTypes DEF DeploySeed
  <1>13. CASE DeployServices
    BY <1>13, NoStateType, WithTypes DEF DeployServices, End
  <1>14. CASE Kubelet
    BY <1>14 DEF Kubelet, PodGone
  <1>15. CASE Fails
    <2>0. WithSeed \in Services /\ WithAgent \in Services /\ WithServices \in Services
      BY WithTypes
    <2>1. running' \in Services
      BY <1>15, <2>0 DEF Fails
    <2>2. mem' \in State /\ faults' \in 0..MaxFaults /\ UNCHANGED <<flags, inits>>
      BY <1>15, NoStateType, InitAssumption DEF Fails, End, Fault
    <2> QED
      BY <1>15, <2>1, <2>2 DEF Fails
  <1>16. CASE CertsAge
    <2>1. server' \in Cert /\ client' \in Cert
      BY <1>16 DEF CertsAge, Cert
    <2> QED
      BY <1>16, <2>1, InitAssumption DEF CertsAge, Fault
  <1>17. CASE \E n \in Namespace : CreateNamespace(n)
    BY <1>17 DEF CreateNamespace
  <1>18. CASE UNCHANGED vars
    BY <1>18 DEF vars
  <1> QED
    BY <1>1, <1>2, <1>3, <1>4, <1>5, <1>6, <1>7, <1>8, <1>9, <1>10, <1>11, <1>12, <1>13, <1>14,
       <1>15, <1>16, <1>17, <1>18
       DEF Next, CLIStep

\* SaveState writes what keeps every credential; what starts a service has been saved.
LEMMA CredentialStep ==
    ASSUME Types, ControlInv, CredentialInv, [Next]_vars
    PROVE  CredentialInv'
  <1> USE DEF CredentialInv, Keeps, Merging, Stopping, Drawing, Filling, Saved, injectorVars,
     clusterVars, cliVars
  <1>1. CASE \E f \in Flags : Run(f)
    BY <1>1 DEF Run
  <1>2. CASE InitState
    <2>1. mem'.exists /\ Keeps(running, mem') /\ (state.exists => Keeps(state, mem'))
      BY <1>2, MergedState
    <2>2. ~state.exists => Keeps(state, mem')
      <3>1. NoState.reg = 0 /\ NoState.git = 0 /\ NoState.agent = 0
        BY DEF NoState
      <3> QED
        BY <3>1
    <2> QED
      BY <1>2, <2>1, <2>2 DEF InitState
  <1>3. CASE ApplyClientCert
    BY <1>3 DEF ApplyClientCert, Goto
  <1>4. CASE ApplyServerCert
    BY <1>4 DEF ApplyServerCert, Goto
  <1>5. CASE SaveState
    BY <1>5 DEF SaveState
  <1>6. CASE StopInjection
    BY <1>6 DEF StopInjection, Goto, DeletePod, DeleteService, DeleteBinary,
       DeletePayload, WaitPodGone
  <1>7. CASE CreateService
    BY <1>7 DEF CreateService, Goto, ApplyService, ConflictDelete
  <1>8. CASE CreateServiceFails
    BY <1>8 DEF CreateServiceFails, End
  <1>9. CASE CreateInjectorConfigMaps
    BY <1>9 DEF CreateInjectorConfigMaps, Goto, WriteChunk, WriteBinary
  <1>10. CASE StartPod
    BY <1>10 DEF StartPod, ApplyPod, Goto
  <1>11. CASE SaveInjector
    BY <1>11 DEF SaveInjector, Types, CliTypes, State
  <1>12. CASE DeploySeed
    BY <1>12 DEF DeploySeed, WithSeed, Types, CliTypes, Services
  <1>13. CASE DeployServices
    BY <1>13 DEF DeployServices, End, WithServices, WithAgent, Types, CliTypes, Services
  <1>14. CASE Kubelet
    BY <1>14 DEF Kubelet, PodGone
  <1>15. CASE Fails
    BY <1>15 DEF Fails, End, Fault, WithSeed, WithServices, WithAgent, Types, CliTypes, Services
  <1>16. CASE CertsAge
    BY <1>16 DEF CertsAge, Fault
  <1>17. CASE \E n \in Namespace : CreateNamespace(n)
    BY <1>17 DEF CreateNamespace
  <1>18. CASE UNCHANGED vars
    BY <1>18 DEF vars
  <1> QED
    BY <1>1, <1>2, <1>3, <1>4, <1>5, <1>6, <1>7, <1>8, <1>9, <1>10, <1>11, <1>12, <1>13, <1>14,
       <1>15, <1>16, <1>17, <1>18
       DEF Next, CLIStep

\* A crash between the two secrets leaves a server certificate that is not fresh.
LEMMA CertStep ==
    ASSUME Types, ControlInv, CertInv, [Next]_vars
    PROVE  CertInv'
  <1> USE DEF CertInv, ControlInv, ProxyCertsAgree, Merging, Stopping, Drawing, Filling, Saved,
     injectorVars, clusterVars, cliVars
  <1>1. CASE \E f \in Flags : Run(f)
    BY <1>1 DEF Run
  <1>2. CASE InitState
    BY <1>2 DEF InitState, IgnoreExistingNamespaces, ShouldRenewRegistryCerts
  <1>3. CASE ApplyClientCert
    BY <1>3 DEF ApplyClientCert, Goto
  <1>4. CASE ApplyServerCert
    BY <1>4 DEF ApplyServerCert, Goto
  <1>5. CASE SaveState
    BY <1>5 DEF SaveState
  <1>6. CASE StopInjection
    BY <1>6 DEF StopInjection, Goto, DeletePod, DeleteService, DeleteBinary,
       DeletePayload, WaitPodGone
  <1>7. CASE CreateService
    BY <1>7 DEF CreateService, Goto, ApplyService, ConflictDelete
  <1>8. CASE CreateServiceFails
    BY <1>8 DEF CreateServiceFails, End
  <1>9. CASE CreateInjectorConfigMaps
    BY <1>9 DEF CreateInjectorConfigMaps, Goto, WriteChunk, WriteBinary
  <1>10. CASE StartPod
    BY <1>10 DEF StartPod, ApplyPod, Goto
  <1>11. CASE SaveInjector
    BY <1>11 DEF SaveInjector
  <1>12. CASE DeploySeed
    BY <1>12 DEF DeploySeed
  <1>13. CASE DeployServices
    BY <1>13 DEF DeployServices, End
  <1>14. CASE Kubelet
    BY <1>14 DEF Kubelet, PodGone
  <1>15. CASE Fails
    BY <1>15 DEF Fails, End, Fault
  <1>16. CASE CertsAge
    BY <1>16 DEF CertsAge, Fault, Types, CliTypes, Cert
  <1>17. CASE \E n \in Namespace : CreateNamespace(n)
    BY <1>17 DEF CreateNamespace
  <1>18. CASE UNCHANGED vars
    BY <1>18 DEF vars
  <1> QED
    BY <1>1, <1>2, <1>3, <1>4, <1>5, <1>6, <1>7, <1>8, <1>9, <1>10, <1>11, <1>12, <1>13, <1>14,
       <1>15, <1>16, <1>17, <1>18
       DEF Next, CLIStep

LEMMA PayloadChunks ==
    ASSUME Types PROVE flags.payload \in Payload /\ Chunks[flags.payload] \in Nat \ {0}
  BY InjectorAssumption DEF Types, CliTypes, InitFlags

\* Each call of StopInjection removes its object for good.
LEMMA StopStep ==
    ASSUME Types, ControlInv, CredentialInv, StopInv, StartInv, [Next]_vars
    PROVE  StopInv'
  <1> USE DEF StopInv, ControlInv, Clean, Merging, Stopping, Drawing, Filling, Saved, injectorVars,
     clusterVars, cliVars
  <1>1. CASE \E f \in Flags : Run(f)
    BY <1>1 DEF Run
  <1>2. CASE InitState
    BY <1>2 DEF InitState, IgnoreExistingNamespaces
  <1>3. CASE ApplyClientCert
    BY <1>3 DEF ApplyClientCert, Goto
  <1>4. CASE ApplyServerCert
    BY <1>4 DEF ApplyServerCert, Goto
  <1>5. CASE SaveState
    BY <1>5 DEF SaveState
  <1>6. CASE StopInjection
    <2>1. CASE DeletePod /\ Goto("deleteService")
      BY <1>6, <2>1 DEF StopInjection, DeletePod, Goto, Types, InjectorTypes, Pods
    <2>2. CASE DeleteService /\ Goto("deleteBinary")
      BY <1>6, <2>2 DEF StopInjection, DeleteService, Goto
    <2>3. CASE DeleteBinary /\ Goto("deletePayload")
      BY <1>6, <2>3 DEF StopInjection, DeleteBinary, Goto
    <2>4. CASE DeletePayload /\ Goto("waitPod")
      BY <1>6, <2>4 DEF StopInjection, DeletePayload, Goto
    <2>5. CASE pc = "waitPod" /\ WaitPodGone /\ Goto(after)
      BY <1>6, <2>5 DEF StopInjection, WaitPodGone, Goto
    <2> QED
      BY <1>6, <2>1, <2>2, <2>3, <2>4, <2>5 DEF StopInjection
  <1>7. CASE CreateService
    BY <1>7 DEF CreateService, Goto, ApplyService, ConflictDelete
  <1>8. CASE CreateServiceFails
    BY <1>8 DEF CreateServiceFails, End
  <1>9. CASE CreateInjectorConfigMaps
    BY <1>9 DEF CreateInjectorConfigMaps, Goto, WriteChunk, WriteBinary
  <1>10. CASE StartPod
    BY <1>10 DEF StartPod, ApplyPod, Goto
  <1>11. CASE SaveInjector
    BY <1>11 DEF SaveInjector
  <1>12. CASE DeploySeed
    BY <1>12 DEF DeploySeed
  <1>13. CASE DeployServices
    BY <1>13 DEF DeployServices, End, CredentialInv
  <1>14. CASE Kubelet
    BY <1>14 DEF Kubelet, PodGone, NoPod
  <1>15. CASE Fails
    BY <1>15 DEF Fails, End, Fault
  <1>16. CASE CertsAge
    BY <1>16 DEF CertsAge, Fault
  <1>17. CASE \E n \in Namespace : CreateNamespace(n)
    BY <1>17 DEF CreateNamespace
  <1>18. CASE UNCHANGED vars
    BY <1>18 DEF vars
  <1> QED
    BY <1>1, <1>2, <1>3, <1>4, <1>5, <1>6, <1>7, <1>8, <1>9, <1>10, <1>11, <1>12, <1>13, <1>14,
       <1>15, <1>16, <1>17, <1>18
       DEF Next, CLIStep

\* StartInjection starts from no pod and writes config map after config map.
LEMMA StartStep ==
    ASSUME Types, ControlInv, CredentialInv, StopInv, StartInv, [Next]_vars
    PROVE  StartInv'
  <1> USE PayloadChunks DEF StartInv, ControlInv, Merging, Stopping, Drawing, Filling, Saved,
          injectorVars, clusterVars, cliVars
  <1>1. CASE \E f \in Flags : Run(f)
    BY <1>1 DEF Run
  <1>2. CASE InitState
    BY <1>2 DEF InitState, IgnoreExistingNamespaces
  <1>3. CASE ApplyClientCert
    BY <1>3 DEF ApplyClientCert, Goto
  <1>4. CASE ApplyServerCert
    BY <1>4 DEF ApplyServerCert, Goto
  <1>5. CASE SaveState
    BY <1>5 DEF SaveState
  <1>6. CASE StopInjection
    <2>1. CASE pc = "waitPod" /\ WaitPodGone /\ Goto(after)
      BY <1>6, <2>1 DEF StopInjection, WaitPodGone, Goto, StopInv
    <2>2. CASE pc # "waitPod"
      BY <1>6, <2>2 DEF StopInjection, Goto
    <2> QED
      BY <1>6, <2>1, <2>2 DEF StopInjection
  <1>7. CASE CreateService
    <2>1. CASE pc = "service" /\ ApplyService(mem.inj, Taken) /\ Goto("checkService")
      <3>1. svc' # 0
        BY <2>1, InjectorAssumption DEF ApplyService, Drawn
      <3> QED
        BY <1>7, <2>1, <3>1 DEF CreateService, ApplyService, Goto
    <2>2. CASE pc = "checkService" /\ ~Conflicts(mem.port) /\ Goto("payload") /\ UNCHANGED injectorVars
      BY <1>7, <2>2 DEF CreateService, Conflicts, Goto
    <2>3. CASE pc = "checkService" /\ Conflicts(mem.port) /\ ConflictDelete /\ Goto("service")
      BY <1>7, <2>3 DEF CreateService, ConflictDelete, Goto
    <2> QED
      BY <1>7, <2>1, <2>2, <2>3 DEF CreateService
  <1>8. CASE CreateServiceFails
    BY <1>8 DEF CreateServiceFails, End
  <1>9. CASE CreateInjectorConfigMaps
    <2>1. CASE WriteChunk(flags.payload) /\ Goto("payload")
      <3>1. next \in Chunk /\ chunks' = [chunks EXCEPT ![next] = flags.payload] /\ next' = next + 1
        BY <2>1, ChunksFit DEF WriteChunk, Chunk, Types, InjectorTypes, CliTypes, InitFlags
      <3>2. \A n \in 0 .. next' - 1 : chunks'[n] = flags.payload
        BY <1>9, <3>1, ChunksFit DEF CreateInjectorConfigMaps, Chunk, Types, InjectorTypes
      <3>3. next' <= Chunks[flags.payload]
        BY <2>1 DEF WriteChunk, Types, InjectorTypes
      <3> QED
        BY <1>9, <2>1, <3>2, <3>3 DEF CreateInjectorConfigMaps, WriteChunk, Goto
    <2>2. CASE WriteBinary(flags.payload)
      BY <1>9, <2>2 DEF CreateInjectorConfigMaps, WriteBinary, WriteChunk, Goto
    <2> QED
      BY <1>9, <2>1, <2>2 DEF CreateInjectorConfigMaps
  <1>10. CASE StartPod
    BY <1>10 DEF StartPod, ApplyPod, Goto, NoPod
  <1>11. CASE SaveInjector
    BY <1>11 DEF SaveInjector
  <1>12. CASE DeploySeed
    BY <1>12 DEF DeploySeed
  <1>13. CASE DeployServices
    BY <1>13 DEF DeployServices, End
  <1>14. CASE Kubelet
    BY <1>14 DEF Kubelet, PodGone
  <1>15. CASE Fails
    BY <1>15 DEF Fails, End, Fault
  <1>16. CASE CertsAge
    BY <1>16 DEF CertsAge, Fault
  <1>17. CASE \E n \in Namespace : CreateNamespace(n)
    BY <1>17 DEF CreateNamespace
  <1>18. CASE UNCHANGED vars
    BY <1>18 DEF vars
  <1> QED
    BY <1>1, <1>2, <1>3, <1>4, <1>5, <1>6, <1>7, <1>8, <1>9, <1>10, <1>11, <1>12, <1>13, <1>14,
       <1>15, <1>16, <1>17, <1>18
       DEF Next, CLIStep

LEMMA InitInvInit == Init => InitInv
  <1> SUFFICES ASSUME Init PROVE InitInv
    OBVIOUS
  <1>1. InjectorTypes
    <2>1. NoPod \in Pods /\ NoChunks \in [Chunk -> Payload \cup {NoPayload}]
      BY ChunksFit DEF NoPod, Pods, NoChunks
    <2>2. 0 \in 0..Attempts /\ 0 \in 0..MaxChunks
      BY ChunksFit, InjectorAssumption
    <2> QED
      BY <2>1, <2>2 DEF Init, InjectorInit, InjectorTypes
  <1>2. CliTypes
    <2>1. NoFlags \in InitFlags
      BY InitAssumption DEF NoFlags
    <2>2. NoCert \in Cert /\ running \in Services
      BY InitAssumption DEF Init, NoCert, Cert, Cred, Services
    <2> QED
      BY <2>1, <2>2, NoStateType, InitAssumption DEF Init, CliTypes
  <1>3. ControlInv /\ StopInv /\ StartInv
    BY DEF Init, InjectorInit, ControlInv, StopInv, StartInv, Merging, Stopping, Drawing,
       Filling, Saved
  <1>4. CredentialInv /\ CertInv
    BY DEF Init, NoState, NoCert, CredentialInv, Keeps, CertInv, ProxyCertsAgree, Merging,
       Stopping, Drawing, Filling, Saved
  <1> QED
    BY <1>1, <1>2, <1>3, <1>4 DEF InitInv, Types

LEMMA InitInvStep == InitInv /\ [Next]_vars => InitInv'
  <1> SUFFICES ASSUME InitInv, [Next]_vars PROVE InitInv'
    OBVIOUS
  <1>1. Types /\ ControlInv /\ CredentialInv /\ CertInv /\ StopInv /\ StartInv
    BY DEF InitInv
  <1>2. Types'
    BY <1>1, InjectorTypesStep, CliTypesStep DEF Types, CredentialInv
  <1> QED
    BY <1>1, <1>2, ControlStep, CredentialStep, CertStep, StopStep, StartStep DEF InitInv

LEMMA InitInvariant == Spec => []InitInv
  BY InitInvInit, InitInvStep, PTL DEF Spec

-----------------------------------------------------------------------------
\* The state, the certificates, the injector's objects and the CLI's counters
\* are what the code takes them for in every reachable state.
THEOREM InitTypes == Spec => []TypeOK
  <1>1. InitInv => TypeOK
    BY DEF InitInv, Types, InjectorTypes, CliTypes, TypeOK
  <1> QED
    BY <1>1, InitInvariant, PTL

\* However many inits with whatever flags fail wherever they fail, each service
\* runs with the credentials that the saved state has for it.
THEOREM ServicesAlwaysMatch == Spec => []ServicesMatchState
  <1>1. InitInv => ServicesMatchState
    BY DEF InitInv, CredentialInv, Keeps, ServicesMatchState
  <1> QED
    BY <1>1, InitInvariant, PTL

\* No init replaces a credential or an agent certificate that an earlier one
\* has saved.
THEOREM ReinitKeepsCredentials == Spec => [][Keeps(state, state')]_vars
  <1>1. ASSUME InitInv, [Next]_vars PROVE Keeps(state, state')
    <2>1. Types /\ ControlInv /\ CredentialInv
      BY <1>1 DEF InitInv
    <2>2. CASE SaveState
      BY <2>1, <2>2 DEF SaveState, CredentialInv, Merging, Keeps
    <2>3. CASE SaveInjector
      BY <2>1, <2>3 DEF SaveInjector, CredentialInv, Saved, Filling, Types, CliTypes, State, Keeps
    <2>4. CASE state' = state
      BY <2>4 DEF Keeps
    <2>5. SaveState \/ SaveInjector \/ state' = state
      BY <1>1 DEF Next, CLIStep, Run, InitState, ApplyClientCert, ApplyServerCert, StopInjection,
         CreateService, CreateServiceFails, CreateInjectorConfigMaps, StartPod, DeploySeed,
         DeployServices, Kubelet, Fails, CertsAge, CreateNamespace, vars, clusterVars
    <2> QED
      BY <2>2, <2>3, <2>4, <2>5
  <1>2. InitInv /\ [Next]_vars => [Keeps(state, state')]_vars
    BY <1>1
  <1> QED
    BY <1>2, InitInvariant, PTL DEF Spec

\* Whatever earlier inits left behind, the seed registry's image is there when
\* its chart is installed, for all payloads, node ports and numbers of attempts.
THEOREM InjectorAlwaysServes == Spec => []InjectorServesPayload
  <1>1. InitInv => InjectorServesPayload
    <2> SUFFICES ASSUME InitInv, pc = "seed" PROVE InjectorServesPayload
      BY DEF InjectorServesPayload
    <2>1. Types /\ state = mem /\ StartInv
      BY DEF InitInv, CredentialInv, Saved, Filling
    <2>2. CASE mem.mode = "proxy"
      BY <2>1, <2>2 DEF StartInv, Filling, InjectorServesPayload, Reassembles
    <2>3. CASE mem.mode = "nodeport"
      BY <2>1, <2>3 DEF StartInv, Filling, InjectorServesPayload, Reassembles
    <2> QED
      BY <2>1, <2>2, <2>3 DEF StartInv, Filling
  <1> QED
    BY <1>1, InitInvariant, PTL

\* A node port init that succeeds has removed its injector and any other.
THEOREM InjectorAlwaysRemoved == Spec => []InjectorRemoved
  <1>1. InitInv => InjectorRemoved
    BY DEF InitInv, StopInv, Clean, InjectorRemoved
  <1> QED
    BY <1>1, InitInvariant, PTL

\* A proxy init that succeeds has left two certificates of one CA.
THEOREM ProxyCertsAlwaysAgree == Spec => []ProxyCertsAgree
  <1>1. InitInv => ProxyCertsAgree
    BY DEF InitInv, CertInv
  <1> QED
    BY <1>1, InitInvariant, PTL
=============================================================================
