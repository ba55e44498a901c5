------------------------------ MODULE ActionRun -----------------------------
(***************************************************************************)
(* runAction of pkg/packager/actions: the retry loop around one command of *)
(* a component's action, in ticks of a clock.  limit is maxTotalSeconds;   *)
(* 0 means none.                                                           *)
(***************************************************************************)
EXTENDS Integers

CONSTANTS
    Limits,      \* the values of maxTotalSeconds an action may have
    MaxRetries,  \* maxRetries of the action
    MaxClock     \* bound: ticks that an action's clock counts

ASSUME ActionAssumption == Limits \subseteq Nat /\ MaxRetries \in Nat /\ MaxClock \in Nat

VARIABLES
    act,         \* "off", "loop", "running", "ok" or "failed"
    limit,       \* maxTotalSeconds of the action that runs
    remaining,   \* the loop variable: tries left
    clock,       \* ticks since the action started
    began        \* when the current try started

actionVars == <<act, limit, remaining, clock, began>>

ActionInit == act = "off" /\ limit = 0 /\ remaining = 0 /\ clock = 0 /\ began = 0

\* actionGetCfg and the timer that is started before the loop.
StartAction ==
    /\ act = "off"
    /\ act' = "loop" /\ limit' \in Limits /\ remaining' = MaxRetries + 1
    /\ UNCHANGED <<clock, began>>

\* The action is done, and the next one starts with all of this anew.
EndAction ==
    /\ act = "ok"
    /\ act' = "off" /\ limit' = 0 /\ remaining' = 0 /\ clock' = 0 /\ began' = 0

\* The timer of the whole action, looked at between tries only.
TimerFired == limit > 0 /\ clock >= limit

\* The head of the loop: give up, or run the command once more.  A try gets
\* the whole limit for itself, whatever the timer has left.
NextTry ==
    /\ act = "loop"
    /\ IF remaining = 0 \/ TimerFired
         THEN act' = "failed" /\ UNCHANGED began
         ELSE act' = "running" /\ began' = clock
    /\ UNCHANGED <<limit, remaining, clock>>

\* The deadline of the context a try runs with: the shell is killed, and what
\* it returns is an error from then on.
TryExpired == limit > 0 /\ clock >= began + limit

\* actionRun and the output variables succeed.
TrySucceeds ==
    /\ act = "running" /\ ~TryExpired
    /\ act' = "ok"
    /\ UNCHANGED <<limit, remaining, clock, began>>

\* The command fails, a variable does not match its pattern, or the deadline
\* of this try has killed the shell.
TryFails ==
    /\ act = "running"
    /\ act' = "loop" /\ remaining' = remaining - 1
    /\ UNCHANGED <<limit, clock, began>>

\* Time passes while the command runs.  It may pass the deadline: the output is
\* read until every child of the shell has closed it, and only the shell is
\* killed.  Without a limit time makes no difference.
Tick ==
    /\ act = "running" /\ limit > 0 /\ clock < MaxClock
    /\ clock' = clock + 1
    /\ UNCHANGED <<act, limit, remaining, began>>

ActionStep == NextTry \/ Tick \/ TrySucceeds \/ TryFails
=============================================================================
