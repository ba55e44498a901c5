------------------------------ MODULE Injector ------------------------------
(***************************************************************************)
(* The injector that serves the registry's own image before there is a     *)
(* registry: a pod that reassembles the image from config maps, and a node *)
(* port service in front of it (pkg/cluster/injector.go).  Every API call  *)
(* is a step, because `zarf init` may fail or be killed between any two    *)
(* and the next init meets what was left.                                  *)
(***************************************************************************)
EXTENDS Integers, Sequences, FiniteSets

CONSTANTS
    Payload,     \* init packages; the seed image of each is another one
    Chunks,      \* [Payload -> Nat \ {0}], config maps the archive is cut into
    NoPayload,   \* no config map, or one that was never written
    NodePort,    \* the node ports the API server may draw from
    Attempts     \* how often createInjectorNodeportService draws; 10 in the code

MaxChunks == CHOOSE n \in {Chunks[p] : p \in Payload} : \A p \in Payload : Chunks[p] <= n
Chunk     == 0 .. MaxChunks - 1

ASSUME InjectorAssumption ==
    /\ NoPayload \notin Payload
    /\ Chunks \in [Payload -> Nat \ {0}]
    /\ \E m \in Payload : \A p \in Payload : Chunks[p] <= Chunks[m]
    /\ NodePort \subseteq Nat \ {0}
    /\ Attempts \in Nat \ {0}

VARIABLES
    pod,      \* the pod "injector": its status, the payload and chunks it was given
    svc,      \* the node port of service zarf-injector, 0 when there is none
    binary,   \* config map rust-binary exists
    chunks,   \* [Chunk -> payload whose data zarf-payload-<n> holds]
    tries,    \* draws made by createInjectorNodeportService
    next      \* the next chunk createPayloadConfigMaps writes

injectorVars == <<pod, svc, binary, chunks, tries, next>>

NoPod    == [status |-> "none", sum |-> NoPayload, amount |-> 0]
NoChunks == [n \in Chunk |-> NoPayload]
Pods     == [status : {"none", "running", "terminating"},
             sum : Payload \cup {NoPayload}, amount : 0..MaxChunks]

InjectorInit ==
    /\ pod = NoPod /\ svc = 0 /\ binary = FALSE /\ chunks = NoChunks
    /\ tries = 0 /\ next = 0

\* The archive the injector builds from the first `amount` config maps has the
\* checksum of payload p.
Reassembles(p, amount) ==
    amount = Chunks[p] /\ \A n \in 0 .. amount - 1 : chunks[n] = p

\* StopInjection, one operator per call; each tolerates a missing object.
DeletePod ==
    /\ pod' = IF pod.status = "none" THEN pod ELSE [pod EXCEPT !.status = "terminating"]
    /\ UNCHANGED <<svc, binary, chunks, tries, next>>
DeleteService    == svc' = 0 /\ UNCHANGED <<pod, binary, chunks, tries, next>>
DeleteBinary     == binary' = FALSE /\ UNCHANGED <<pod, svc, chunks, tries, next>>

\* Mutated: the selector of the payload config maps matches nothing.
DeletePayloadUnmatched == UNCHANGED injectorVars

DeletePayload    == chunks' = NoChunks /\ UNCHANGED <<pod, svc, binary, tries, next>>

\* Mutated: StopInjection does not wait until the pod is gone.
NoWait ==
    /\ tries' = 0 /\ next' = 0
    /\ UNCHANGED <<pod, svc, binary, chunks>>

\* The poll at the end of StopInjection; what comes next starts from scratch.
WaitPodGone ==
    /\ pod.status = "none"
    /\ tries' = 0 /\ next' = 0
    /\ UNCHANGED <<pod, svc, binary, chunks>>

\* The kubelet ends a deleted pod after its grace period.
PodGone ==
    /\ pod.status = "terminating"
    /\ pod' = NoPod
    /\ UNCHANGED <<svc, binary, chunks, tries, next>>

\* The node ports an Apply of the service may end with: the saved one, or any
\* that no other service holds.
Drawn(saved, taken) == IF saved # 0 THEN {saved} \ taken ELSE NodePort \ taken

\* createInjectorNodeportService: apply the service ...
ApplyService(saved, taken) ==
    /\ tries < Attempts
    /\ \E p \in Drawn(saved, taken) : svc' = p
    /\ tries' = tries + 1
    /\ UNCHANGED <<pod, binary, chunks, next>>
\* ... and delete it again when it got the port meant for the registry.
Conflicts(registryPort)  == svc = registryPort
ConflictDelete == svc' = 0 /\ UNCHANGED <<pod, binary, chunks, tries, next>>

\* createPayloadConfigMaps: one Apply for each chunk of the archive.
WriteChunk(p) ==
    /\ next < Chunks[p]
    /\ chunks' = [chunks EXCEPT ![next] = p]
    /\ next' = next + 1
    /\ UNCHANGED <<pod, svc, binary, tries>>

\* CreateInjectorConfigMaps ends with the binary.
WriteBinary(p) ==
    /\ next = Chunks[p]
    /\ binary' = TRUE
    /\ UNCHANGED <<pod, svc, chunks, tries, next>>

\* Applying pod "injector" creates it; over one that is still there, the Apply
\* does not bring back a pod that terminates or change what it has mounted.
ApplyPod(p) ==
    /\ pod' = IF pod.status = "none"
                THEN [status |-> "running", sum |-> p, amount |-> next] ELSE pod
    /\ UNCHANGED <<svc, binary, chunks, tries, next>>
=============================================================================
