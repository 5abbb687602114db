-------------------------- MODULE PriorityScheduler --------------------------
(***************************************************************************)
(* What the task manager promises its clients about the processor, without *)
(* run queues, a current level or a level-changed flag: preemption gives   *)
(* the processor to a ready task of the highest level, to another one when *)
(* there are several, and a task that stops is followed by a highest-level *)
(* task among those that were ready at that moment.                        *)
(***************************************************************************)
EXTENDS Naturals

CONSTANTS Task,      \* all tasks
          Level,     \* priority levels
          Main,      \* the task that runs first
          Idle       \* the task that is always ready

VARIABLES ready,     \* tasks that can use the processor
          level,     \* their priority levels
          cpu        \* the task that has it

vars == <<ready, level, cpu>>

Highest(R) == {t \in R : \A u \in R : level[u] <= level[t]}

Init ==
    /\ ready = {Main, Idle}
    /\ level \in [Task -> Level]
    /\ level[Idle] <= level[Main]
    /\ cpu = Main

\* A task becomes ready, or changes level; the processor stays where it is.
Ready(t) ==
    /\ ready' = ready \cup {t}
    /\ \E lv \in Level : level' = [level EXCEPT ![t] = lv]
    /\ UNCHANGED cpu

\* A task that does not have the processor stops being ready.
Suspend(t) ==
    /\ t \notin {cpu, Idle}
    /\ ready' = ready \ {t}
    /\ UNCHANGED <<level, cpu>>

\* The time slice ends.
Preempt ==
    /\ cpu' \in Highest(ready)
    /\ Highest(ready) # {cpu} => cpu' # cpu
    /\ UNCHANGED <<ready, level>>

\* The task that has the processor stops.  The end of a task may make one
\* waiter ready, which then competes at the next preemption.
Stop(waiters) ==
    /\ cpu # Idle
    /\ cpu' \in Highest(ready \ {cpu})
    /\ ready' = (ready \ {cpu}) \cup waiters
    /\ UNCHANGED level

Next ==
    \/ \E t \in Task : Ready(t) \/ Suspend(t)
    \/ Preempt
    \/ Stop({})
    \/ \E w \in Task : Stop({w})

Spec == Init /\ [][Next]_vars
=============================================================================
