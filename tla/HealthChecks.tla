----------------------------- MODULE HealthChecks ---------------------------
(***************************************************************************)
(* healthchecks.WaitForReady: a status watcher feeds a channel, a collector*)
(* keeps the last status of each object, and an observer cancels the watch *)
(* when one object failed or all are current.  What is still in the        *)
(* channel after the cancel may or may not be delivered.                   *)
(***************************************************************************)
EXTENDS Integers, Sequences, FiniteSets

CONSTANTS
    Object,     \* the objects that are waited for
    MaxEvents   \* bound: status changes while the watch is on

ASSUME HealthAssumption == IsFiniteSet(Object) /\ Cardinality(Object) \in Nat

Status == {"InProgress", "Current", "Failed"}

VARIABLES
    channel,    \* events sent and not delivered
    collected,  \* ResourceStatuses: Unknown until an event arrives
    watch,      \* "off", "on", "cancelled" or "closed"
    expired,    \* the caller's context is done
    events      \* status changes so far

healthVars == <<channel, collected, watch, expired, events>>

HealthInit ==
    /\ channel = <<>> /\ collected = [o \in Object |-> "Unknown"]
    /\ watch = "off" /\ expired = FALSE /\ events = 0

\* sw.Watch lists the objects first, in any order and whatever their status is.
StartWatch ==
    /\ watch = "off"
    /\ \E world \in [Object -> Status \ {"Failed"}] :
       \E order \in {s \in [1..Cardinality(Object) -> Object] :
                        \A m, n \in DOMAIN s : s[m] = s[n] => m = n} :
          channel' = [n \in DOMAIN order |-> <<order[n], world[order[n]]>>]
    /\ watch' = "on"
    /\ UNCHANGED <<collected, expired, events>>

StatusChanges(o, s) ==
    /\ watch = "on" /\ events < MaxEvents
    /\ channel' = Append(channel, <<o, s>>)
    /\ events' = events + 1
    /\ UNCHANGED <<collected, watch, expired>>

\* The observer: a failed object, or all of them current.
Observer(c) == (\E o \in Object : c[o] = "Failed") \/ (\A o \in Object : c[o] = "Current")

Deliver ==
    /\ watch \in {"on", "cancelled"} /\ channel # <<>>
    /\ collected' = [collected EXCEPT ![channel[1][1]] = channel[1][2]]
    /\ channel' = Tail(channel)
    /\ watch' = IF Observer(collected') THEN "cancelled" ELSE watch
    /\ UNCHANGED <<expired, events>>

\* The watcher closes the channel some time after the cancel.
CloseChannel ==
    /\ watch = "cancelled"
    /\ watch' = "closed" /\ channel' = <<>>
    /\ UNCHANGED <<collected, expired, events>>

HealthTimeout ==
    /\ watch = "on"
    /\ watch' = "cancelled" /\ expired' = TRUE
    /\ UNCHANGED <<channel, collected, events>>

\* What WaitForReady returns once the channel is closed.
Healthy == (\A o \in Object : collected[o] = "Current") /\ ~expired

HealthStep == Deliver \/ CloseChannel
=============================================================================
