--------------------------- MODULE ComponentDeploy --------------------------
(***************************************************************************)
(* deployComponent with everything it runs: the before action, the image   *)
(* push, the data injections that go on in the background while the charts *)
(* and the manifests are installed, the after action, the health checks    *)
(* and the wait for the injections.  With data injections helm does not    *)
(* wait for what the charts install, but it does wait for the manifests,   *)
(* whose pods may wait for that very data.                                 *)
(***************************************************************************)
EXTENDS ActionRun, ImagePush, HealthChecks, DataInjection

CONSTANTS
    ByManifest, \* the injections whose pods the manifests create; charts create the others
    Faults,     \* which kinds of step may fail
    MaxFaults   \* bound: how many steps may fail

ASSUME ComponentAssumption ==
    /\ ByManifest \subseteq Injection
    /\ Faults \subseteq {"push", "tunnel", "temp", "chart", "exec", "timeout", "evict"}
    /\ MaxFaults \in Nat /\ MaxEvents \in Nat

VARIABLES
    phase,      \* where deployComponent is
    result,     \* what it returned
    faults

vars == <<actionVars, pushVars, healthVars, injectionVars, phase, result, faults>>

Init ==
    /\ ActionInit /\ PushInit /\ HealthInit /\ InjectionInit
    /\ phase = "before" /\ result = "none" /\ faults = 0

Fault(kind) == kind \in Faults /\ faults < MaxFaults /\ faults' = faults + 1

Goto(p) == phase' = p /\ UNCHANGED <<result, faults>>

\* Every return goes through the deferred removal of the temporary directories,
\* with the goroutines of the injections still running when it is an early one.
Return(r) == phase' = "cleanup" /\ result' = r /\ UNCHANGED injectionVars

\* actions.Run of the before and the after actions.
RunActions ==
    /\ phase \in {"before", "after"}
    /\ \/ StartAction /\ UNCHANGED <<injectionVars, phase, result, faults>>
       \/ ActionStep /\ UNCHANGED <<injectionVars, phase, result, faults>>
       \/ /\ act = "failed" /\ Return("failed") /\ UNCHANGED faults
          /\ UNCHANGED actionVars
       \/ /\ EndAction /\ Goto(IF phase = "before" THEN "push" ELSE "health")
          /\ UNCHANGED injectionVars
    /\ UNCHANGED <<pushVars, healthVars>>

PushImages ==
    /\ phase = "push"
    /\ \/ (StartPush \/ PushStep) /\ UNCHANGED <<injectionVars, phase, result, faults>>
       \/ push = "failed" /\ Return("failed") /\ UNCHANGED <<pushVars, faults>>
       \/ push = "ok" /\ Goto("injections") /\ UNCHANGED <<pushVars, injectionVars>>
    /\ UNCHANGED <<actionVars, healthVars>>

PushTrouble ==
    /\ phase = "push"
    /\ \/ (ConnectFails \/ CopyFails) /\ Fault("push")
       \/ TunnelBreaks /\ Fault("tunnel")
    /\ UNCHANGED <<actionVars, healthVars, injectionVars, phase, result>>

\* Mutated: the injections are to start after the manifests, which wait for them.
InjectAfterManifests ==
    /\ phase = "injections"
    /\ Goto("charts")
    /\ UNCHANGED <<actionVars, pushVars, healthVars, injectionVars>>

\* The goroutines are started one by one, before the charts.
Inject ==
    /\ phase = "injections"
    /\ \/ (\E d \in Injection : StartInjection(d)) /\ UNCHANGED <<phase, result, faults>>
       \/ (\A d \in Injection : inj[d] # "off") /\ Goto("charts") /\ UNCHANGED injectionVars
    /\ UNCHANGED <<actionVars, pushVars, healthVars>>

\* A directory or its data cannot be made, after some of the goroutines started.
InjectFails ==
    /\ phase = "injections"
    /\ (\E d \in Injection : inj[d] = "off") /\ Fault("temp") /\ Return("failed")
    /\ UNCHANGED <<actionVars, pushVars, healthVars>>

Create(ds) ==
    /\ pod' = [d \in Injection |-> IF d \in ds THEN "pending" ELSE pod[d]]
    /\ UNCHANGED <<inj, tmp, unread, data, marker, group>>

\* The charts are installed with NoWait.
InstallCharts ==
    /\ phase = "charts"
    /\ Create(Injection \ ByManifest) /\ Goto("manifests")
    /\ UNCHANGED <<actionVars, pushVars, healthVars>>

\* The manifests are installed as charts that helm waits for, up to its timeout.
InstallManifests ==
    /\ \/ phase = "manifests" /\ Create(ByManifest) /\ Goto("ready")
       \/ /\ phase = "ready" /\ \A d \in ByManifest : pod[d] = "running"
          /\ Goto("after") /\ UNCHANGED injectionVars
       \/ /\ phase = "ready" /\ \E d \in ByManifest : pod[d] = "lost" \/ inj[d] = "failed"
          /\ Return("failed") /\ UNCHANGED faults
    /\ UNCHANGED <<actionVars, pushVars, healthVars>>

\* A chart or a manifest fails for another reason, with the injections under way.
InstallFails ==
    /\ phase \in {"charts", "manifests", "ready"}
    /\ Fault("chart") /\ Return("failed")
    /\ UNCHANGED <<actionVars, pushVars, healthVars>>

CheckHealth ==
    /\ phase = "health"
    /\ \/ (StartWatch \/ HealthStep) /\ UNCHANGED <<injectionVars, phase, result, faults>>
       \/ /\ watch = "closed" /\ UNCHANGED healthVars
          /\ IF Healthy THEN Goto("wait") /\ UNCHANGED injectionVars
                        ELSE Return("failed") /\ UNCHANGED faults
    /\ UNCHANGED <<actionVars, pushVars>>

HealthTrouble ==
    /\ phase = "health"
    /\ HealthTimeout /\ Fault("timeout")
    /\ UNCHANGED <<actionVars, pushVars, injectionVars, phase, result>>

\* Mutated: the errgroup is not waited for.
WaitInjectionsNot ==
    /\ phase = "wait"
    /\ Return("ok")
    /\ UNCHANGED <<actionVars, pushVars, healthVars, faults>>

\* g.Wait.
WaitInjections ==
    /\ phase = "wait"
    /\ \A d \in Injection : inj[d] \in {"ok", "failed"}
    /\ Return(IF \E d \in Injection : inj[d] = "failed" THEN "failed" ELSE "ok")
    /\ UNCHANGED <<actionVars, pushVars, healthVars, faults>>

\* os.RemoveAll deletes one entry after the other.
RemoveTemp ==
    /\ phase = "cleanup"
    /\ \/ \E d \in Injection : \E e \in tmp[d] : tmp' = [tmp EXCEPT ![d] = @ \ {e}] /\ UNCHANGED phase
       \/ (\A d \in Injection : tmp[d] = {}) /\ phase' = "returned" /\ UNCHANGED tmp
    /\ UNCHANGED <<actionVars, pushVars, healthVars, inj, unread, pod, data, marker, group, result, faults>>

\* The process ends, and with it what is left of the goroutines.
Exit ==
    /\ phase = "returned"
    /\ phase' = "exited"
    /\ inj' = [d \in Injection |-> IF inj[d] \in {"ok", "failed", "off"} THEN inj[d] ELSE "killed"]
    /\ UNCHANGED <<actionVars, pushVars, healthVars, tmp, unread, pod, data, marker, group, result, faults>>

\* The goroutines and the cluster run beside deployComponent until the process ends.
Beside(A) == phase # "exited" /\ A /\ UNCHANGED <<actionVars, pushVars, healthVars, phase, result>>

Injecting(d) == Beside(Goroutine(d) /\ UNCHANGED faults)
InjectTrouble(d) ==
    Beside((WaitEnds(d) /\ Fault("timeout")) \/ (CopyFailsMidway(d) /\ Fault("exec")))
Schedule(d) == Beside(PodStarts(d) /\ UNCHANGED faults)
Evict(d) == Beside(PodLost(d) /\ Fault("evict"))

ClusterChanges ==
    /\ phase = "health"
    /\ \E o \in Object, s \in Status : StatusChanges(o, s)
    /\ UNCHANGED <<actionVars, pushVars, injectionVars, phase, result, faults>>

Main ==
    \/ RunActions \/ PushImages \/ Inject \/ InstallCharts \/ InstallManifests \/ CheckHealth
    \/ WaitInjections \/ RemoveTemp

Next ==
    \/ Main \/ Exit \/ ClusterChanges
    \/ PushTrouble \/ InjectFails \/ InstallFails \/ HealthTrouble
    \/ \E d \in Injection : Injecting(d) \/ InjectTrouble(d) \/ Schedule(d) \/ Evict(d)

\* deployComponent and every goroutine keep going while they can, and pods that
\* are created start.  Failures are not fair, and a timeout is only where what is
\* waited for cannot come any more: what must end, ends without them.
Spec ==
    /\ Init /\ [][Next]_vars
    /\ WF_vars(Main)
    /\ \A d \in Injection : WF_vars(Injecting(d)) /\ WF_vars(Schedule(d))

-----------------------------------------------------------------------------
\* The loops stay within their lists and counters.
TypeOK ==
    /\ act \in {"off", "loop", "running", "ok", "failed"}
    /\ remaining \in 0 .. MaxRetries + 1 /\ clock \in Nat /\ began \in 0..clock
    /\ push \in {"off", "connect", "copy", "ok", "failed"} /\ attempt \in 0..PushRetries
    /\ toPush \subseteq Image /\ pushed \subseteq Image /\ image \in Image \cup {NoImage}
    /\ registry \subseteq Image \X Names
    /\ collected \in [Object -> Status \cup {"Unknown"}]
    /\ inj \in [Injection -> {"off", "start", "wait", "source", "copy", "mark", "final", "ok", "failed", "killed"}]
    /\ tmp \in [Injection -> SUBSET (File \cup {"marker"})] /\ unread \in [Injection -> SUBSET File]
    /\ data \in [Injection -> SUBSET File] /\ marker \in [Injection -> BOOLEAN]

\* maxTotalSeconds is the maximum total time of an action over all its tries.
\* The code does not keep it: a try that starts just before the action's timer
\* fires has the whole limit for itself, and a killed shell may leave children
\* that hold its output open.
ActionTimeBound == limit > 0 => clock <= limit

\* As long as deployComponent has not failed, the pod sees the marker only when
\* all of the data is there, whatever becomes of the other injections, the
\* charts and the pods.  A failed return is the exception: it removes the data
\* file by file under a goroutine that is still copying, and if that goroutine
\* reaches the marker file first, the marker stands beside part of the data.
MarkerMeansData == \A d \in Injection : marker[d] => data[d] = File \/ result = "failed"

\* deployComponent returns no error only with every image in the registry under
\* each of its names, over all attempts, tunnels and nested retries of the push,
\* after every injection is complete, although the after action and the health
\* checks run beside them, and after every health check has reported its object
\* as current.
SuccessIsComplete ==
    result = "ok" =>
        /\ registry = Image \X Names
        /\ \A d \in Injection : inj[d] = "ok" /\ data[d] = File /\ marker[d]
        /\ \A o \in Object : collected[o] = "Current"

\* The manifests that helm waits for and the injections their pods wait for do
\* not wait for each other, and the wait for the injections ends, with success
\* or with an error.  One case is left where it does not: a pod that is lost
\* after it got its marker, since the final wait of an injection has no limit.
ComponentEnds ==
    (phase = "ready" \/ phase = "wait") ~>
        (phase \notin {"ready", "wait"} \/ \E d \in Injection : inj[d] = "final" /\ pod[d] = "lost")
=============================================================================
