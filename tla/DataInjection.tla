---------------------------- MODULE DataInjection ---------------------------
(***************************************************************************)
(* HandleDataInjection: a goroutine of an errgroup for each data injection *)
(* waits for its pod, copies the files from a temporary directory and then *)
(* a marker file that tells the pod that the data is there.  The commands  *)
(* that copy are "tar | kubectl exec tar" and only the status of the       *)
(* second counts, so a file that is gone when the first gets to it is left *)
(* out without an error.                                                   *)
(***************************************************************************)
EXTENDS Integers

CONSTANTS
    Injection,   \* the data injections of the component
    File         \* the files of an injection's data

ASSUME InjectionAssumption == File # {} /\ "marker" \notin File

VARIABLES
    inj,      \* [Injection -> where the goroutine is]
    tmp,      \* [Injection -> what the temporary directory holds]
    unread,   \* [Injection -> the files the copy has not got to]
    pod,      \* [Injection -> "absent", "pending", "waiting" (in its init container), "running", "lost"]
    data,     \* [Injection -> the files the pod has]
    marker,   \* [Injection -> the pod has the marker]
    group     \* the errgroup's context: "live" or "cancelled"

injectionVars == <<inj, tmp, unread, pod, data, marker, group>>

InjectionInit ==
    /\ inj = [d \in Injection |-> "off"]
    /\ tmp = [d \in Injection |-> {}]
    /\ unread = [d \in Injection |-> {}]
    /\ pod = [d \in Injection |-> "absent"]
    /\ data = [d \in Injection |-> {}]
    /\ marker = [d \in Injection |-> FALSE]
    /\ group = "live"

\* MakeTempDir, GetComponentDir and g.Go for one injection.
StartInjection(d) ==
    /\ inj[d] = "off"
    /\ inj' = [inj EXCEPT ![d] = "start"]
    /\ tmp' = [tmp EXCEPT ![d] = File]
    /\ UNCHANGED <<unread, pod, data, marker, group>>

\* The first error of a goroutine cancels the context of the others.
GoroutineFails(d) == inj' = [inj EXCEPT ![d] = "failed"] /\ group' = "cancelled"
GoroutineGoes(d, where) == inj' = [inj EXCEPT ![d] = where] /\ UNCHANGED group

\* The marker file is written beside the data, which must be there.
Prepare(d) ==
    /\ inj[d] = "start"
    /\ IF tmp[d] \cap File = {}
         THEN GoroutineFails(d) /\ UNCHANGED tmp
         ELSE GoroutineGoes(d, "wait") /\ tmp' = [tmp EXCEPT ![d] = @ \cup {"marker"}]
    /\ UNCHANGED <<unread, pod, data, marker>>

\* kubectl exec gets through to the pod.
Reachable(d) == pod[d] # "lost"

\* waitForPodsAndContainers, with 90 seconds for the container to be seen ...
FindPods(d) ==
    /\ inj[d] = "wait" /\ pod[d] \in {"waiting", "running"} /\ group = "live"
    /\ GoroutineGoes(d, "source")
    /\ UNCHANGED <<tmp, unread, pod, data, marker>>
WaitEnds(d) ==
    /\ inj[d] = "wait"
    /\ GoroutineFails(d)
    /\ UNCHANGED <<tmp, unread, pod, data, marker>>

\* Mutated: the marker is copied before the data.
OpenSourceMarked(d) ==
    /\ inj[d] = "source" /\ Reachable(d)
    /\ unread' = [unread EXCEPT ![d] = tmp[d] \cap File]
    /\ marker' = [marker EXCEPT ![d] = TRUE]
    /\ GoroutineGoes(d, "copy")
    /\ UNCHANGED <<tmp, pod, data>>

\* The first tar changes to the source and lists it.  When the source is gone
\* it has nothing to send, and the second one may or may not take offence.
OpenSource(d) ==
    /\ inj[d] = "source" /\ Reachable(d)
    /\ unread' = [unread EXCEPT ![d] = tmp[d] \cap File]
    /\ \/ tmp[d] \cap File # {} /\ GoroutineGoes(d, "copy")
       \/ tmp[d] \cap File = {} /\ (GoroutineFails(d) \/ GoroutineGoes(d, "mark"))
    /\ UNCHANGED <<tmp, pod, data, marker>>

\* The next file is sent if it is still there when the first tar opens it.
CopyFile(d) ==
    /\ inj[d] = "copy" /\ Reachable(d)
    /\ \/ \E f \in unread[d] :
             /\ unread' = [unread EXCEPT ![d] = @ \ {f}]
             /\ data' = [data EXCEPT ![d] = @ \cup ({f} \cap tmp[d])]
             /\ UNCHANGED <<inj, group>>
       \/ unread[d] = {} /\ GoroutineGoes(d, "mark") /\ UNCHANGED <<unread, data>>
    /\ UNCHANGED <<tmp, pod, marker>>

\* The marker is sent the same way.
CopyMarker(d) ==
    /\ inj[d] = "mark" /\ Reachable(d)
    /\ \/ /\ marker' = [marker EXCEPT ![d] = @ \/ "marker" \in tmp[d]]
          /\ GoroutineGoes(d, "final")
       \/ "marker" \notin tmp[d] /\ GoroutineFails(d) /\ UNCHANGED marker
    /\ UNCHANGED <<tmp, unread, pod, data>>

\* tar is missing, or mkdir or a second tar fails, with any part of the data in
\* the pod.
CopyFailsMidway(d) ==
    /\ inj[d] \in {"start", "source", "copy", "mark"}
    /\ GoroutineFails(d)
    /\ UNCHANGED <<tmp, unread, pod, data, marker>>

\* ... and again at the end for the pod to run, with no time limit of its own;
\* then the source is removed.
FinalWait(d) ==
    /\ inj[d] = "final"
    /\ \/ /\ pod[d] = "running" /\ group = "live"
          /\ GoroutineGoes(d, "ok") /\ tmp' = [tmp EXCEPT ![d] = @ \ File]
       \/ group = "cancelled" /\ GoroutineFails(d) /\ UNCHANGED tmp
    /\ UNCHANGED <<unread, pod, data, marker>>

\* The pod's init container starts, and ends when it sees the marker.
PodStarts(d) ==
    /\ \/ pod[d] = "pending" /\ pod' = [pod EXCEPT ![d] = "waiting"]
       \/ pod[d] = "waiting" /\ marker[d] /\ pod' = [pod EXCEPT ![d] = "running"]
    /\ UNCHANGED <<inj, tmp, unread, data, marker, group>>

\* The pod is evicted or its node is lost, and no other takes its place.
PodLost(d) ==
    /\ pod[d] \in {"waiting", "running"}
    /\ pod' = [pod EXCEPT ![d] = "lost"]
    /\ UNCHANGED <<inj, tmp, unread, data, marker, group>>

\* What a goroutine does unless something else goes wrong.
Goroutine(d) ==
    \/ Prepare(d) \/ FindPods(d) \/ OpenSource(d) \/ CopyFile(d) \/ CopyMarker(d) \/ FinalWait(d)
    \/ (group = "cancelled" \/ ~Reachable(d)) /\ WaitEnds(d)
    \/ ~Reachable(d) /\ CopyFailsMidway(d)
=============================================================================
