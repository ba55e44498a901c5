----------------------- MODULE ComponentDeploy_proofs -----------------------
(***************************************************************************)
(* Proofs about ComponentDeploy.  The parts that deployComponent runs own  *)
(* disjoint variables, so each has an inductive invariant of its own, and  *)
(* only what a finished part leaves behind is related to the phase.        *)
(***************************************************************************)
EXTENDS ComponentDeploy, TLAPS

-----------------------------------------------------------------------------
(* The retry loop of an action.                                            *)

\* What one step of the component may do to the action.
ActionMove ==
    \/ StartAction \/ NextTry \/ TrySucceeds \/ TryFails \/ Tick \/ EndAction
    \/ UNCHANGED actionVars

\* A try is only started with tries left.
ActionInv ==
    /\ act \in {"off", "loop", "running", "ok", "failed"}
    /\ limit \in Nat /\ clock \in Nat /\ began \in 0..clock
    /\ remaining \in 0 .. MaxRetries + 1 /\ (act = "running" => remaining > 0)

\* Every step of the component is a move of the action's loop or leaves it alone.
LEMMA ActionFrame == [Next]_vars => ActionMove
  <1> SUFFICES ASSUME [Next]_vars PROVE ActionMove
    OBVIOUS
  <1>1. CASE RunActions
    BY <1>1 DEF RunActions, ActionStep, ActionMove
  <1>2. CASE Next /\ ~RunActions
    BY <1>2 DEF Next, Main, PushImages, PushTrouble, Inject, InjectFails, InstallCharts, InstallManifests, InstallFails,
       CheckHealth, HealthTrouble, WaitInjections, RemoveTemp, Exit, ClusterChanges, Beside, Injecting,
       InjectTrouble, Schedule, Evict, ActionMove
  <1>3. CASE UNCHANGED vars
    BY <1>3 DEF vars, ActionMove
  <1> QED
    BY <1>1, <1>2, <1>3

LEMMA ActionInvInit == Init => ActionInv
  BY ActionAssumption DEF Init, ActionInit, ActionInv

LEMMA ActionInvStep == ActionInv /\ [Next]_vars => ActionInv'
  <1> SUFFICES ASSUME ActionInv, ActionMove PROVE ActionInv'
    BY ActionFrame
  <1> USE ActionAssumption DEF ActionInv
  <1>1. CASE StartAction
    BY <1>1 DEF StartAction
  <1>2. CASE NextTry
    BY <1>2 DEF NextTry, TimerFired
  <1>3. CASE TrySucceeds
    BY <1>3 DEF TrySucceeds
  <1>4. CASE TryFails
    BY <1>4 DEF TryFails
  <1>5. CASE Tick
    BY <1>5 DEF Tick
  <1>6. CASE EndAction
    BY <1>6 DEF EndAction
  <1>7. CASE UNCHANGED actionVars
    BY <1>7 DEF actionVars
  <1> QED
    BY <1>1, <1>2, <1>3, <1>4, <1>5, <1>6, <1>7 DEF ActionMove
-----------------------------------------------------------------------------
(* The image push.                                                         *)

PushMove ==
    \/ StartPush \/ OpenTunnel \/ ConnectFails \/ CopyImage \/ CopyFails \/ TunnelBreaks \/ PushDone
    \/ \E i \in Image : PickImage(i)
    \/ UNCHANGED pushVars

PushTypes ==
    /\ push \in {"off", "connect", "copy", "ok", "failed"}
    /\ toPush \subseteq Image /\ pushed \subseteq Image /\ image \in Image \cup {NoImage}
    /\ name \in {"checksum", "plain"} /\ registry \subseteq Image \X Names
    /\ attempt \in 0..PushRetries /\ (push = "connect" => attempt < PushRetries)

\* What is taken off the list, by this attempt or an earlier one, is in the
\* registry under all of its names; of the image at hand the name with the
\* checksum is there before the plain one is copied.
PushInv ==
    /\ PushTypes
    /\ image # NoImage => push = "copy" /\ name \in Names
    /\ push # "off" => \A i \in Image \ toPush : \A n \in Names : <<i, n>> \in registry
    /\ \A i \in pushed : \A n \in Names : <<i, n>> \in registry
    /\ image # NoImage /\ name = "plain" => \A n \in Names \ {"plain"} : <<image, n>> \in registry
    /\ push = "ok" => registry = Image \X Names

\* Every step of the component is a move of the push or leaves it alone.
LEMMA PushFrame == [Next]_vars => PushMove
  <1> SUFFICES ASSUME [Next]_vars PROVE PushMove
    OBVIOUS
  <1>1. CASE PushImages
    BY <1>1 DEF PushImages, PushStep, PushMove
  <1>2. CASE PushTrouble
    BY <1>2 DEF PushTrouble, PushMove
  <1>3. CASE Next /\ ~PushImages /\ ~PushTrouble
    BY <1>3 DEF Next, Main, RunActions, Inject, InjectFails, InstallCharts, InstallManifests, InstallFails,
       CheckHealth, HealthTrouble, WaitInjections, RemoveTemp, Exit, ClusterChanges, Beside, Injecting,
       InjectTrouble, Schedule, Evict, PushMove
  <1>4. CASE UNCHANGED vars
    BY <1>4 DEF vars, PushMove
  <1> QED
    BY <1>1, <1>2, <1>3, <1>4

LEMMA PushInvInit == Init => PushInv
  BY PushAssumption DEF Init, PushInit, PushInv, PushTypes

LEMMA PushInvStep == PushInv /\ [Next]_vars => PushInv'
  <1> SUFFICES ASSUME PushInv, PushMove PROVE PushInv'
    BY PushFrame
  <1> USE PushAssumption DEF PushInv, PushTypes
  <1>1. CASE StartPush
    BY <1>1 DEF StartPush
  <1>2. CASE OpenTunnel
    BY <1>2 DEF OpenTunnel
  <1>3. CASE ConnectFails
    BY <1>3 DEF ConnectFails
  <1>4. CASE CopyImage
    BY <1>4 DEF CopyImage, Names
  <1>5. CASE CopyFails
    BY <1>5 DEF CopyFails, AttemptFails, StillToPush
  <1>6. CASE TunnelBreaks
    BY <1>6 DEF TunnelBreaks
  <1>7. CASE PushDone
    BY <1>7 DEF PushDone, StillToPush
  <1>8. CASE \E i \in Image : PickImage(i)
    BY <1>8 DEF PickImage, Names
  <1>9. CASE UNCHANGED pushVars
    BY <1>9 DEF pushVars
  <1> QED
    BY <1>1, <1>2, <1>3, <1>4, <1>5, <1>6, <1>7, <1>8, <1>9 DEF PushMove
-----------------------------------------------------------------------------
(* The health checks.                                                      *)

HealthMove ==
    \/ StartWatch \/ Deliver \/ CloseChannel \/ HealthTimeout
    \/ \E o \in Object, s \in Status : StatusChanges(o, s)
    \/ UNCHANGED healthVars

HealthTypes ==
    /\ channel \in Seq(Object \X Status)
    /\ collected \in [Object -> Status \cup {"Unknown"}]

\* Every step of the component is a move of the watch or leaves it alone, and
\* the watch moves only while deployComponent waits for it.
LEMMA HealthFrame == [Next]_vars => HealthMove /\ (phase # "health" => UNCHANGED healthVars)
  <1> SUFFICES ASSUME [Next]_vars
               PROVE  HealthMove /\ (phase # "health" => UNCHANGED healthVars)
    OBVIOUS
  <1>1. CASE CheckHealth
    BY <1>1 DEF CheckHealth, HealthStep, HealthMove
  <1>2. CASE HealthTrouble \/ ClusterChanges
    BY <1>2 DEF HealthTrouble, ClusterChanges, HealthMove
  <1>3. CASE Next /\ ~CheckHealth /\ ~HealthTrouble /\ ~ClusterChanges
    BY <1>3 DEF Next, Main, RunActions, PushImages, PushTrouble, Inject, InjectFails, InstallCharts, InstallManifests, InstallFails,
       WaitInjections, RemoveTemp, Exit, Beside, Injecting, InjectTrouble, Schedule, Evict, HealthMove
  <1>4. CASE UNCHANGED vars
    BY <1>4 DEF vars, HealthMove
  <1> QED
    BY <1>1, <1>2, <1>3, <1>4

LEMMA HealthTypesInit == Init => HealthTypes
  BY DEF Init, HealthInit, HealthTypes, Status

LEMMA HealthTypesStep == HealthTypes /\ [Next]_vars => HealthTypes'
  <1> SUFFICES ASSUME HealthTypes, HealthMove PROVE HealthTypes'
    BY HealthFrame
  <1> USE DEF HealthTypes
  <1>1. CASE StartWatch
    <2>1. PICK world \in [Object -> Status \ {"Failed"}], order \in [1..Cardinality(Object) -> Object] :
             channel' = [n \in DOMAIN order |-> <<order[n], world[order[n]]>>]
      BY <1>1 DEF StartWatch
    <2>2. Cardinality(Object) \in Nat
      BY HealthAssumption
    <2>3. channel' \in Seq(Object \X Status)
      <3>1. \A n \in 1..Cardinality(Object) : channel'[n] \in Object \X Status
        BY <2>1
      <3> QED
        BY <2>1, <2>2, <3>1
    <2> QED
      BY <1>1, <2>3 DEF StartWatch
  <1>2. CASE Deliver
    <2>1. channel[1] \in Object \X Status /\ Tail(channel) \in Seq(Object \X Status)
      BY <1>2 DEF Deliver
    <2> QED
      BY <1>2, <2>1 DEF Deliver
  <1>3. CASE CloseChannel
    BY <1>3 DEF CloseChannel
  <1>4. CASE HealthTimeout
    BY <1>4 DEF HealthTimeout
  <1>5. CASE \E o \in Object, s \in Status : StatusChanges(o, s)
    BY <1>5 DEF StatusChanges
  <1>6. CASE UNCHANGED healthVars
    BY <1>6 DEF healthVars
  <1> QED
    BY <1>1, <1>2, <1>3, <1>4, <1>5, <1>6 DEF HealthMove
-----------------------------------------------------------------------------
(* The data injections.                                                    *)

Started == {"charts", "manifests", "ready", "after", "health", "wait"}
Working == {"before", "push", "injections"} \cup Started

\* As long as deployComponent has not returned, the directories are complete for
\* as long as their goroutines need them, so that what is not yet read will be
\* sent, and a marker that was copied is a marker that arrived.
InjectionInv ==
    /\ phase \in Working \cup {"cleanup", "returned", "exited"}
    /\ inj \in [Injection -> {"off", "start", "wait", "source", "copy", "mark", "final", "ok", "failed", "killed"}]
    /\ tmp \in [Injection -> SUBSET (File \cup {"marker"})] /\ unread \in [Injection -> SUBSET File]
    /\ data \in [Injection -> SUBSET File] /\ marker \in [Injection -> BOOLEAN]
    /\ \A d \in Injection :
          /\ phase \in {"before", "push"} => inj[d] = "off"
          /\ phase \in Started => inj[d] # "off"
          /\ phase \in Working =>
                /\ inj[d] \in {"start", "wait", "source", "copy", "mark", "final"} => File \subseteq tmp[d]
                /\ inj[d] \in {"wait", "source", "copy", "mark", "final"} => "marker" \in tmp[d]
                /\ inj[d] = "copy" => data[d] \cup unread[d] = File
                /\ inj[d] \in {"mark", "final", "ok"} => data[d] = File
                /\ inj[d] \in {"final", "ok"} => marker[d]
                /\ marker[d] => data[d] = File

\* What the goroutines and the cluster do to one injection.
InjectionMove(d) ==
    \/ Prepare(d) \/ FindPods(d) \/ WaitEnds(d) \/ OpenSource(d) \/ CopyFile(d) \/ CopyMarker(d)
    \/ CopyFailsMidway(d) \/ FinalWait(d) \/ PodStarts(d) \/ PodLost(d)

\* deployComponent goes on, or returns, without touching the goroutines.
MainLine ==
    /\ UNCHANGED <<inj, tmp, unread, data, marker>>
    /\ \/ UNCHANGED phase
       \/ phase \in {"before", "push"} /\ phase' \in {"push", "injections"}
       \/ phase \in Started /\ phase' \in Started
       \/ phase' = "cleanup"

\* A step of the component is a move of one goroutine or of its pod, or the
\* main line enters, stays in or leaves the part where goroutines run.
LEMMA InjectionFrame ==
    ASSUME [Next]_vars
    PROVE  \/ \E d \in Injection : InjectionMove(d) /\ UNCHANGED <<phase, result>>
           \/ Inject \/ RemoveTemp \/ Exit
           \/ MainLine
  <1> USE DEF MainLine, Started, injectionVars
  <1>1. CASE \E d \in Injection : Injecting(d) \/ InjectTrouble(d) \/ Schedule(d) \/ Evict(d)
    BY <1>1 DEF Beside, Injecting, InjectTrouble, Schedule, Evict, Goroutine, InjectionMove
  <1>2. CASE RunActions
    BY <1>2 DEF RunActions, Goto, Return
  <1>3. CASE PushImages
    BY <1>3 DEF PushImages, Goto, Return
  <1>4. CASE InstallCharts \/ InstallManifests
    BY <1>4 DEF InstallCharts, InstallManifests, Create, Goto, Return
  <1>5. CASE CheckHealth
    BY <1>5 DEF CheckHealth, Goto, Return
  <1>6. CASE WaitInjections
    BY <1>6 DEF WaitInjections, Return
  <1>7. CASE Inject \/ RemoveTemp \/ Exit
    BY <1>7
  <1>8. CASE PushTrouble \/ HealthTrouble \/ ClusterChanges
    BY <1>8 DEF PushTrouble, HealthTrouble, ClusterChanges
  <1>9. CASE InjectFails \/ InstallFails
    BY <1>9 DEF InjectFails, InstallFails, Return
  <1>10. CASE UNCHANGED vars
    BY <1>10 DEF vars
  <1> QED
    BY <1>1, <1>2, <1>3, <1>4, <1>5, <1>6, <1>7, <1>8, <1>9, <1>10 DEF Next, Main

LEMMA InjectionInvInit == Init => InjectionInv
  BY DEF Init, InjectionInit, InjectionInv, Working, Started

\* A goroutine keeps the invariant: it changes its own injection only, takes
\* nothing from the directory before it is done, and sends what it finds there.
LEMMA InjectionInvMove ==
    ASSUME InjectionInv, NEW d \in Injection, InjectionMove(d), UNCHANGED phase
    PROVE  InjectionInv'
  <1> USE InjectionAssumption DEF InjectionInv, GoroutineGoes, GoroutineFails
  <1>1. CASE Prepare(d)
    BY <1>1 DEF Prepare
  <1>2. CASE FindPods(d) \/ WaitEnds(d)
    BY <1>2 DEF FindPods, WaitEnds
  <1>3. CASE OpenSource(d)
    BY <1>3 DEF OpenSource
  <1>4. CASE CopyFile(d)
    <2>1. CASE \E f \in unread[d] :
                  /\ unread' = [unread EXCEPT ![d] = @ \ {f}]
                  /\ data' = [data EXCEPT ![d] = @ \cup ({f} \cap tmp[d])]
                  /\ UNCHANGED <<inj, group>>
      <3> PICK f \in unread[d] :
             /\ unread' = [unread EXCEPT ![d] = @ \ {f}]
             /\ data' = [data EXCEPT ![d] = @ \cup ({f} \cap tmp[d])]
             /\ UNCHANGED <<inj, group>>
        BY <2>1
      <3>1. f \in File /\ UNCHANGED <<inj, tmp, marker>> /\ inj[d] = "copy"
        BY <1>4 DEF CopyFile
      <3>2. unread' \in [Injection -> SUBSET File] /\ data' \in [Injection -> SUBSET File]
        BY <3>1
      <3>3. phase \in Working => data'[d] \cup unread'[d] = File
        BY <3>1
      <3>4. data[d] = File => data'[d] = File
        BY <3>1
      <3>5. \A e \in Injection \ {d} : data'[e] = data[e] /\ unread'[e] = unread[e]
        OBVIOUS
      <3> QED
        BY <3>1, <3>2, <3>3, <3>4, <3>5
    <2>2. CASE unread[d] = {} /\ GoroutineGoes(d, "mark") /\ UNCHANGED <<unread, data>>
      <3>1. inj[d] = "copy" /\ inj' = [inj EXCEPT ![d] = "mark"] /\ UNCHANGED <<tmp, unread, data, marker>>
        BY <1>4, <2>2 DEF CopyFile
      <3>2. phase \in Working => data[d] = File
        BY <2>2, <3>1
      <3>3. inj' \in [Injection -> {"off", "start", "wait", "source", "copy", "mark", "final", "ok", "failed", "killed"}]
        BY <3>1
      <3>4. inj'[d] = "mark" /\ \A e \in Injection \ {d} : inj'[e] = inj[e]
        BY <3>1
      <3>5. ~(phase \in {"before", "push"})
        BY <3>1
      <3> QED
        BY <3>1, <3>2, <3>3, <3>4, <3>5
    <2> QED
      BY <1>4, <2>1, <2>2 DEF CopyFile
  <1>5. CASE CopyMarker(d)
    <2>1. /\ inj[d] = "mark" /\ UNCHANGED <<tmp, unread, data>>
          /\ \/ marker' = [marker EXCEPT ![d] = @ \/ "marker" \in tmp[d]] /\ inj' = [inj EXCEPT ![d] = "final"]
             \/ inj' = [inj EXCEPT ![d] = "failed"] /\ UNCHANGED marker
      BY <1>5 DEF CopyMarker
    <2>2. inj' \in [Injection -> {"off", "start", "wait", "source", "copy", "mark", "final", "ok", "failed", "killed"}]
      BY <2>1
    <2>3. marker' \in [Injection -> BOOLEAN] /\ inj'[d] \in {"final", "failed"}
      BY <2>1
    <2>4. \A e \in Injection \ {d} : inj'[e] = inj[e] /\ marker'[e] = marker[e]
      BY <2>1
    <2>5. phase \in Working => data[d] = File /\ File \subseteq tmp[d] /\ "marker" \in tmp[d]
      BY <2>1
    <2>6. phase \in Working /\ inj'[d] = "final" => marker'[d]
      BY <2>1, <2>5
    <2>7. ~(phase \in {"before", "push"})
      BY <2>1
    <2> QED
      BY <2>1, <2>2, <2>3, <2>4, <2>5, <2>6, <2>7
  <1>6. CASE CopyFailsMidway(d)
    BY <1>6 DEF CopyFailsMidway
  <1>7. CASE FinalWait(d)
    BY <1>7 DEF FinalWait
  <1>8. CASE PodStarts(d) \/ PodLost(d)
    BY <1>8 DEF PodStarts, PodLost
  <1> QED
    BY <1>1, <1>2, <1>3, <1>4, <1>5, <1>6, <1>7, <1>8 DEF InjectionMove

LEMMA InjectionInvStep == InjectionInv /\ [Next]_vars => InjectionInv'
  <1> SUFFICES ASSUME InjectionInv, [Next]_vars PROVE InjectionInv'
    OBVIOUS
  <1> USE DEF InjectionInv, Working, Started
  <1>1. CASE \E d \in Injection : InjectionMove(d) /\ UNCHANGED <<phase, result>>
    BY <1>1, InjectionInvMove
  <1>2. CASE Inject
    BY <1>2, InjectionAssumption DEF Inject, StartInjection, Goto, injectionVars
  <1>3. CASE RemoveTemp
    BY <1>3 DEF RemoveTemp
  <1>4. CASE Exit
    BY <1>4 DEF Exit
  <1>5. CASE MainLine
    BY <1>5 DEF MainLine
  <1> QED
    BY <1>1, <1>2, <1>3, <1>4, <1>5, InjectionFrame
-----------------------------------------------------------------------------
(* The parts together.                                                     *)

\* What the parts have left behind when the main line is past them.
ResultInv ==
    /\ result \in {"none", "ok", "failed"}
    /\ result = "none" <=> phase \in Working
    /\ phase \in {"injections"} \cup Started \/ result = "ok" => push = "ok"
    /\ phase = "wait" \/ result = "ok" => \A o \in Object : collected[o] = "Current"
    /\ result = "ok" => \A d \in Injection : inj[d] = "ok" /\ data[d] = File /\ marker[d]

ComponentInv == ActionInv /\ PushInv /\ HealthTypes /\ InjectionInv /\ ResultInv

LEMMA ResultInvStep ==
    ASSUME ComponentInv, [Next]_vars PROVE ResultInv'
  <1> USE DEF ResultInv, ComponentInv, Working, Started
  <1>1. CASE \E d \in Injection : Injecting(d) \/ InjectTrouble(d) \/ Schedule(d) \/ Evict(d)
    <2> PICK d \in Injection : Injecting(d) \/ InjectTrouble(d) \/ Schedule(d) \/ Evict(d)
      BY <1>1
    <2>1. UNCHANGED <<push, collected, phase, result>> /\ InjectionMove(d)
      BY DEF Beside, Injecting, InjectTrouble, Schedule, Evict, Goroutine, InjectionMove,
         pushVars, healthVars
    <2>2. inj[d] = "ok" => UNCHANGED <<inj, data, marker>>
      BY <2>1 DEF InjectionMove, Prepare, FindPods, WaitEnds, OpenSource, CopyFile, CopyMarker,
         CopyFailsMidway, FinalWait, PodStarts, PodLost
    <2> QED
      BY <2>1, <2>2
  <1>2. CASE RunActions
    BY <1>2 DEF RunActions, Goto, Return, pushVars, healthVars, injectionVars, InjectionInv
  <1>3. CASE PushImages
    BY <1>3 DEF PushImages, Goto, Return, pushVars, healthVars, injectionVars
  <1>4. CASE Inject
    BY <1>4 DEF Inject, Goto, pushVars, healthVars
  <1>5. CASE InstallCharts \/ InstallManifests
    BY <1>5 DEF InstallCharts, InstallManifests, Create, Goto, Return, pushVars, healthVars, injectionVars
  <1>6. CASE CheckHealth
    BY <1>6 DEF CheckHealth, Healthy, Goto, Return, pushVars, healthVars, injectionVars
  <1>7. CASE WaitInjections
    BY <1>7 DEF WaitInjections, Return, pushVars, healthVars, injectionVars, InjectionInv
  <1>8. CASE RemoveTemp
    BY <1>8 DEF RemoveTemp, pushVars, healthVars
  <1>9. CASE Exit
    BY <1>9 DEF Exit, pushVars, healthVars, InjectionInv
  <1>10. CASE PushTrouble
    BY <1>10 DEF PushTrouble, healthVars, injectionVars
  <1>11. CASE HealthTrouble \/ ClusterChanges
    BY <1>11 DEF HealthTrouble, ClusterChanges, pushVars, injectionVars
  <1>12. CASE InjectFails \/ InstallFails
    BY <1>12 DEF InjectFails, InstallFails, Return, pushVars, healthVars, injectionVars
  <1>13. CASE UNCHANGED vars
    BY <1>13 DEF vars, pushVars, healthVars, injectionVars
  <1> QED
    BY <1>1, <1>2, <1>3, <1>4, <1>5, <1>6, <1>7, <1>8, <1>9, <1>10, <1>11, <1>12, <1>13 DEF Next, Main

LEMMA ComponentInvariant == Spec => []ComponentInv
  <1>1. Init => ComponentInv
    <2> SUFFICES ASSUME Init PROVE ResultInv
      BY ActionInvInit, PushInvInit, HealthTypesInit, InjectionInvInit DEF ComponentInv
    <2> QED
      BY DEF Init, ResultInv, Working, Started
  <1>2. ComponentInv /\ [Next]_vars => ComponentInv'
    BY ActionInvStep, PushInvStep, HealthTypesStep, InjectionInvStep, ResultInvStep DEF ComponentInv
  <1> QED
    BY <1>1, <1>2, PTL DEF Spec

\* The loops of deployComponent stay within their lists and counters.
THEOREM ComponentTypes == Spec => []TypeOK
  <1>1. ComponentInv => TypeOK
    BY DEF ComponentInv, ActionInv, PushInv, PushTypes, HealthTypes, InjectionInv, TypeOK
  <1> QED
    BY <1>1, ComponentInvariant, PTL

\* For all images, injections, objects, retries and faults: deployComponent
\* returns no error only when the registry, the pods and the objects have
\* everything.
THEOREM SuccessMeansComplete == Spec => []SuccessIsComplete
  <1>1. ComponentInv => SuccessIsComplete
    BY DEF ComponentInv, ResultInv, PushInv, InjectionInv, SuccessIsComplete
  <1> QED
    BY <1>1, ComponentInvariant, PTL

\* For any number of injections, files, faults and orders of the goroutines: until
\* deployComponent fails, a pod that sees the marker has all of the data.
THEOREM MarkersAreTrue == Spec => []MarkerMeansData
  <1>1. ComponentInv => MarkerMeansData
    BY DEF ComponentInv, ResultInv, InjectionInv, Working, MarkerMeansData
  <1> QED
    BY <1>1, ComponentInvariant, PTL
=============================================================================
